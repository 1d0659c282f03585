---------------------------- MODULE ConfigDeploy ----------------------------
(***************************************************************************)
(* What annet does to the configuration of one device: the diff of what    *)
(* runs and what is wanted, the patch, and the commands of the patch       *)
(* executed one by one.                                                    *)
(*                                                                         *)
(* How a device executes a command is not in the repository: it is modelled*)
(* from what the rulebooks assume of it.  A row replaces the row with its  *)
(* rule and key; the removal form removes it, unless the configuration     *)
(* shows the removal form itself (a switch); a block of FreshBlocks starts *)
(* empty whenever it is entered.                                           *)
(***************************************************************************)
EXTENDS ConfigPatch

CONSTANTS
    Changes,       \* bound: pairs of what may run and what may be generated
    FreshBlocks    \* rules of blocks that entering replaces

VARIABLES
    pc,        \* "diff", "patch", "deploy", "done"
    old,       \* the configuration the diff is made from
    new,       \* the generated configuration
    diff,
    todo,      \* commands of the patch not yet executed
    running    \* the configuration of the device

vars == <<pc, old, new, diff, todo, running>>

Init ==
    /\ pc = "diff"
    /\ \E change \in Changes : old = change[1] /\ new = change[2]
    /\ diff = <<>> /\ todo = <<>>
    /\ running = old

Diff ==
    /\ pc = "diff"
    /\ diff' = MakeDiff(old, new)
    /\ pc' = "patch"
    /\ UNCHANGED <<old, new, todo, running>>

Patch ==
    /\ pc = "patch"
    /\ todo' = CmdPaths(MakePatch(MakePre(diff)), <<>>)
    /\ pc' = "deploy"
    /\ UNCHANGED <<old, new, diff, running>>

-----------------------------------------------------------------------------
(* The device.                                                             *)
SameSlot(n, row) == n.row.rule \in {row.rule, -row.rule} /\ n.row.key = row.key
IsUndo(row)      == row.rule < 0 /\ row.rule \notin DOMAIN Rb

Execute(cfg, row) ==
    IF IsUndo(row) THEN SelectSeq(cfg, LAMBDA n : ~SameSlot(n, row))
    ELSE IF \E i \in DOMAIN cfg : SameSlot(cfg[i], row)
         THEN LET Enter(n) == [row |-> row,
                               sub |-> IF row.rule \in FreshBlocks THEN <<>> ELSE n.sub]
              IN [i \in DOMAIN cfg |-> IF SameSlot(cfg[i], row) THEN Enter(cfg[i]) ELSE cfg[i]]
         ELSE Append(cfg, [row |-> row, sub |-> <<>>])

RECURSIVE ExecuteIn(_, _, _)
ExecuteIn(cfg, at, row) ==
    IF at = <<>> THEN Execute(cfg, row)
    ELSE [i \in DOMAIN cfg |-> IF cfg[i].row = at[1]
                               THEN [cfg[i] EXCEPT !.sub = ExecuteIn(@, Tail(at), row)]
                               ELSE cfg[i]]

Deploy ==
    /\ pc = "deploy" /\ todo # <<>>
    /\ running' = ExecuteIn(running, Head(todo).at, Head(todo).do)
    /\ todo' = Tail(todo)
    /\ UNCHANGED <<pc, old, new, diff>>

Finish ==
    /\ pc = "deploy" /\ todo = <<>>
    /\ pc' = "done"
    /\ UNCHANGED <<old, new, diff, todo, running>>

Finished == pc = "done" /\ UNCHANGED vars

Next == Diff \/ Patch \/ Deploy \/ Finish \/ Finished

Spec == Init /\ [][Next]_vars

-----------------------------------------------------------------------------
(* What makes the diff and the patch of a device correct.                  *)
(* Rows annet may change: matched by a rule and let through by the acl.    *)
InScope(row)   == row.rule \in DOMAIN Rb /\ row.rule \in DOMAIN Acl
(* Rules whose rows it must not remove: by the acl, by their logic.        *)
CantDelete     == {r \in DOMAIN Acl : Acl[r]}
KeptRules      == CantDelete \cup {r \in DOMAIN Rb : Rb[r].logic = "permanent"}
Kept(row)      == row.rule \in KeptRules
IsOrdered(row) == Rb[row.rule].diff \in {"ordered_diff", "rewrite_diff"}

ScopeOf(cfg)       == SelectSeq(cfg, LAMBDA n : InScope(n.row))
OrderedRows(cfg)   == LET ns == SelectSeq(cfg, LAMBDA n : IsOrdered(n.row))
                      IN [i \in DOMAIN ns |-> ns[i].row]

(* Does configuration a say what b says?  The same rows, in the same order *)
(* where order matters; a may have more rows only by the rules of stay.    *)
RECURSIVE Says(_, _, _)
Says(a, b, stay) ==
    LET x == ScopeOf(a)
        y == ScopeOf(b)
    IN /\ Rows(y) \subseteq Rows(x)
       /\ \A row \in Rows(x) \ Rows(y) : row.rule \in stay /\ Says(SubOf(x, row), <<>>, stay)
       /\ OrderedRows(SelectSeq(x, LAMBDA n : n.row \in Rows(y))) = OrderedRows(y)
       /\ \A row \in Rows(y) : IF Rb[row.rule].diff = "multiline_diff"
                               THEN SubOf(x, row) = SubOf(y, row)
                               ELSE Says(SubOf(x, row), SubOf(y, row), stay)

RECURSIVE ConfigOK(_)
ConfigOK(cfg) ==
    /\ \A i \in DOMAIN cfg : DOMAIN cfg[i] = {"row", "sub"} /\ ConfigOK(cfg[i].sub)
    /\ \A i, j \in DOMAIN cfg : i # j => ~SameSlot(cfg[i], cfg[j].row)

(* A configuration never holds two rows for one slot, a diff only the      *)
(* operations of Op, and no logic meets a group that fails its assert.     *)
TypeOK ==
    /\ pc \in {"diff", "patch", "deploy", "done"}
    /\ ConfigOK(running)
    /\ \A i \in DOMAIN diff : diff[i].op \in Ops
    /\ pc = "patch" => NoAssertion(MakePre(diff))

(* README: "After deploying these commands, the diff will be empty."       *)
EmptyAfterDeploy == pc = "done" => Says(running, new, KeptRules)

(* The diff shows a change exactly when there is something to change.      *)
DiffTellsChange ==
    pc = "patch" =>
        ((\A i \in DOMAIN diff : diff[i].op = "unchanged") <=> Says(old, new, CantDelete))

(* A row that old and new share is on the device all the time: no step of  *)
(* the patch takes it away to bring it back.  Rows whose order matters and *)
(* blocks that are replaced whole are excepted.                            *)
NoFlapping ==
    LET Steady(row) == InScope(row) /\ ~IsOrdered(row)
    IN \A row \in Rows(old) \cap Rows(new) :
        Steady(row) =>
            /\ row \in Rows(running)
            /\ row.rule \notin FreshBlocks =>
                 \A r \in Rows(SubOf(old, row)) \cap Rows(SubOf(new, row)) :
                    Steady(r) => r \in Rows(SubOf(running, row))

(* Rows out of scope ("!" rules, rows no rule matches, rows the acl keeps  *)
(* out) stay, except in a block that is removed, moved or replaced.        *)
OthersUntouched ==
    \A i \in DOMAIN old :
        LET n == old[i]
        IN IF ~InScope(n.row) THEN n.row \in Rows(running)
           ELSE n.row \in Rows(new) /\ ~IsOrdered(n.row) /\ n.row.rule \notin FreshBlocks =>
                    \A r \in Rows(n.sub) : ~InScope(r) => r \in Rows(SubOf(running, n.row))

(* A row that may not be removed (%cant_delete in the acl, the permanent   *)
(* logic) never leaves the device: no removal, direct or by a detour over  *)
(* its block, and no later command of the patch takes it.                  *)
KeptRowsStay ==
    \A row \in Rows(old) :
        /\ InScope(row) /\ Kept(row) => row \in Rows(running)
        /\ InScope(row) /\ (Kept(row) \/ row \in Rows(new)) /\ ~IsOrdered(row) =>
             \A r \in Rows(SubOf(old, row)) :
                 InScope(r) /\ Kept(r) => r \in Rows(SubOf(running, row))

(* What annet must leave alone is there before and after every command.    *)
LeftAlone == OthersUntouched /\ KeptRowsStay

(* No command comes twice: the removal of "x" and the addition of "undo x" *)
(* are one command.                                                        *)
NoCommandTwice == \A i, j \in DOMAIN todo : i # j => todo[i] # todo[j]

(* The docstring of sort_patch_rows: the commands of a block stand         *)
(* together, so a patch enters no block twice, unless to write it anew.    *)
BlocksTogether ==
    \A i, j \in DOMAIN todo :
        i < j /\ todo[i].at = <<>> /\ todo[i].do = todo[j].do => todo[j].at # <<>>

(* Every removal finds what it removes, but in a block just written anew.  *)
RECURSIVE SlotsAt(_, _)
SlotsAt(cfg, at) == IF at = <<>> THEN cfg ELSE SlotsAt(SubOf(cfg, at[1]), Tail(at))

Anew(cmd) == \E i \in DOMAIN cmd.at : IsOrdered(cmd.at[i]) \/ cmd.at[i].rule \in FreshBlocks
NoVainUndo ==
    todo # <<>> /\ IsUndo(Head(todo).do) /\ ~Anew(Head(todo)) =>
        LET level == SlotsAt(running, Head(todo).at)
        IN \E i \in DOMAIN level : SameSlot(level[i], Head(todo).do)

(* The commands of a patch, each where it stands, all have something to do.*)
NoVainCommand == pc = "deploy" => NoCommandTwice /\ BlocksTogether /\ NoVainUndo
=============================================================================
