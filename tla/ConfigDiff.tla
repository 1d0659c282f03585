----------------------------- MODULE ConfigDiff -----------------------------
(***************************************************************************)
(* The diff of two device configurations: make_diff of annlib/patching.py  *)
(* and the diff logics of annlib/rulebook/common.py.                       *)
(*                                                                         *)
(* A configuration is a sequence of nodes [row, sub]: a row and the block  *)
(* below it.  A row is [rule, key, val]: the rulebook rule that matches    *)
(* it, the key its placeholders capture (0 for none) and what is left of   *)
(* the text.  Rule -r is the rule of the removal form of r's commands      *)
(* ("undo x" next to "x").  A diff is a sequence of items [op, row, sub].  *)
(***************************************************************************)
EXTENDS Integers, SequencesExt

CONSTANTS
    Rb,    \* the patching rulebook: rule -> [logic, diff, order]
    Acl    \* the acl: rule -> is it cant_delete?  Other rules do not pass.

ASSUME RulebookAssumption ==
    /\ DOMAIN Rb \subseteq Int \ {0}
    /\ Acl \in [DOMAIN Acl -> BOOLEAN]

Item(op, row, sub) == [op |-> op, row |-> row, sub |-> sub]

Rows(cfg)       == {cfg[i].row : i \in DOMAIN cfg}
Place(cfg, row) == CHOOSE i \in DOMAIN cfg : cfg[i].row = row
SubOf(cfg, row) == IF row \in Rows(cfg) THEN cfg[Place(cfg, row)].sub ELSE <<>>
Longer(s, t)    == IF Len(s) > Len(t) THEN Len(s) ELSE Len(t)

(* The rows some rule matches; the others are left out of both sides.      *)
RECURSIVE Matched(_)
Matched(cfg) ==
    LET kept == SelectSeq(cfg, LAMBDA n : n.row.rule \in DOMAIN Rb)
    IN [i \in DOMAIN kept |-> [kept[i] EXCEPT !.sub = Matched(@)]]

-----------------------------------------------------------------------------
RECURSIVE CallDiffLogic(_, _, _, _)

(* Mutant: rows are compared with what stands at the same place.           *)
BaseDiffByPlace(old, new, parent, rewriting, movedToAffected) ==
    LET Op(i)   == IF new[i].row \in Rows(old) THEN parent ELSE "added"
        New(i)  == IF i \notin DOMAIN new THEN <<>>
                   ELSE <<Item(Op(i), new[i].row,
                               CallDiffLogic(SubOf(old, new[i].row), new[i].sub, Op(i), rewriting))>>
        Gone(i) == IF i \notin DOMAIN old \/ (i \in DOMAIN new /\ old[i].row = new[i].row) THEN <<>>
                   ELSE <<Item("removed", old[i].row,
                               CallDiffLogic(old[i].sub, <<>>, "removed", rewriting))>>
    IN FlattenSeq([i \in 1..Longer(old, new) |-> New(i) \o Gone(i)])

(* Mutants: only the row itself counts; only additions count.              *)
DisorderHere(old, new, i) == Place(old, new[i].row) # i
DisorderAdded(old, new, i) == \E j \in 1..i : new[j].row \notin Rows(old)

(* A row of new is out of order once a row before it was added or stands   *)
(* elsewhere.                                                              *)
Disorder(old, new, i) ==
    \E j \in 1..i : new[j].row \notin Rows(old) \/ Place(old, new[j].row) # j

(* One pass over both sides.  parent is pops[-1], the operation of the     *)
(* block above.  At equal places the sort of the items puts added,         *)
(* affected and moved before removed.                                      *)
BaseDiff(old, new, parent, rewriting, movedToAffected) ==
    LET Op(i) == IF new[i].row \notin Rows(old) THEN "added"
                 ELSE IF Disorder(old, new, i) /\ ~movedToAffected THEN "moved"
                 ELSE parent
        New(i)  == IF i \notin DOMAIN new THEN <<>>
                   ELSE <<Item(Op(i), new[i].row,
                               CallDiffLogic(SubOf(old, new[i].row), new[i].sub, Op(i), rewriting))>>
        Gone(i) == IF i \notin DOMAIN old \/ old[i].row \in Rows(new) THEN <<>>
                   ELSE <<Item("removed", old[i].row,
                               CallDiffLogic(old[i].sub, <<>>, "removed", rewriting))>>
    IN FlattenSeq([i \in 1..Longer(old, new) |-> New(i) \o Gone(i)])

RECURSIVE OnlyAffected(_)
OnlyAffected(diff) ==
    \A i \in DOMAIN diff : diff[i].op = "affected" /\ OnlyAffected(diff[i].sub)

RECURSIVE AffectedToMoved(_)
AffectedToMoved(diff) ==
    [i \in DOMAIN diff |-> Item(IF diff[i].op = "affected" THEN "moved" ELSE diff[i].op,
                                diff[i].row, AffectedToMoved(diff[i].sub))]

(* Mutants: what did not change is left out; a subtree without a change is *)
(* written again, too.                                                     *)
RewriteDiffChanges(old, new, parent, rewriting) ==
    BaseDiff(old, new, parent, TRUE, FALSE)

(* The outermost rewrite drops a subtree without a change and otherwise    *)
(* turns all that did not change into moved.                               *)
RewriteDiff(old, new, parent, rewriting) ==
    LET diff == BaseDiff(old, new, parent, TRUE, FALSE)
    IN IF rewriting THEN diff
       ELSE IF OnlyAffected(diff) THEN <<>>
       ELSE AffectedToMoved(diff)

RECURSIVE Body(_, _)
Body(op, cfg) == [i \in DOMAIN cfg |-> Item(op, cfg[i].row, Body(op, cfg[i].sub))]

(* A row whose block changed carries the whole block, old or new.          *)
MultilineDiff(old, new, parent, rewriting) ==
    LET changed == SelectSeq(BaseDiff(old, new, parent, rewriting, TRUE),
                             LAMBDA it : SubOf(old, it.row) # SubOf(new, it.row))
    IN [i \in DOMAIN changed |->
            [changed[i] EXCEPT !.sub = IF changed[i].op = "removed"
                                       THEN Body("removed", SubOf(old, changed[i].row))
                                       ELSE Body("added", SubOf(new, changed[i].row))]]

RunLogic(logic, old, new, parent, rewriting) ==
    CASE logic = "default_diff"   -> BaseDiff(old, new, parent, rewriting, TRUE)
      [] logic = "ordered_diff"   -> BaseDiff(old, new, parent, rewriting, FALSE)
      [] logic = "rewrite_diff"   -> RewriteDiff(old, new, parent, rewriting)
      [] logic = "multiline_diff" -> MultilineDiff(old, new, parent, rewriting)

(* The rows are split by diff logic; the items of several logics are       *)
(* sorted by their place in new, or in old when they are gone.             *)
CallDiffLogic(old, new, parent, rewriting) ==
    LET LogicOf(n) == Rb[n.row.rule].diff
        logics == FoldLeft(LAMBDA seen, n : IF Contains(seen, LogicOf(n)) THEN seen
                                            ELSE Append(seen, LogicOf(n)),
                           <<>>, old \o new)
        Part(cfg, logic) == SelectSeq(cfg, LAMBDA n : LogicOf(n) = logic)
        diffs == [k \in DOMAIN logics |->
                    RunLogic(logics[k], Part(old, logics[k]), Part(new, logics[k]), parent, rewriting)]
        Position(row) == IF row \in Rows(new) THEN Place(new, row) ELSE Place(old, row)
        At(i) == FlattenSeq([k \in DOMAIN diffs |->
                    SelectSeq(diffs[k], LAMBDA it : Position(it.row) = i)])
    IN IF Len(logics) = 1 THEN diffs[1]
       ELSE FlattenSeq([i \in 1..Longer(old, new) |-> At(i)])

-----------------------------------------------------------------------------
(* Mutants: the acl lets every row through; it forgets cant_delete.        *)
AclDiffPassAll(diff) == diff

RECURSIVE AclDiffDeletes(_)
AclDiffDeletes(diff) ==
    LET passed == SelectSeq(diff, LAMBDA it : it.row.rule \in DOMAIN Acl)
    IN [i \in DOMAIN passed |-> [passed[i] EXCEPT !.sub = AclDiffDeletes(@)]]

(* Only rows of the acl pass, and a removal it forbids becomes affected.   *)
RECURSIVE AclDiff(_)
AclDiff(diff) ==
    LET passed == SelectSeq(diff, LAMBDA it : it.row.rule \in DOMAIN Acl)
        Op(it) == IF it.op = "removed" /\ Acl[it.row.rule] THEN "affected" ELSE it.op
    IN [i \in DOMAIN passed |-> Item(Op(passed[i]), passed[i].row, AclDiff(passed[i].sub))]

(* Mutant: one unchanged row in a block is enough.                         *)
RECURSIVE MarkUnchangedSome(_)
MarkUnchangedSome(diff) ==
    LET Mark(it) ==
            LET sub == MarkUnchangedSome(it.sub)
            IN IF it.op # "affected" THEN it
               ELSE IF sub = <<>> \/ \E i \in DOMAIN sub : sub[i].op = "unchanged"
                    THEN Item("unchanged", it.row, sub)
                    ELSE Item("affected", it.row, sub)
    IN [i \in DOMAIN diff |-> Mark(diff[i])]

RECURSIVE MarkUnchanged(_)
MarkUnchanged(diff) ==
    LET Mark(it) ==
            LET sub == MarkUnchanged(it.sub)
            IN IF it.op # "affected" THEN it
               ELSE IF \A i \in DOMAIN sub : sub[i].op = "unchanged"
                    THEN Item("unchanged", it.row, sub)
                    ELSE Item("affected", it.row, sub)
    IN [i \in DOMAIN diff |-> Mark(diff[i])]

MakeDiff(old, new) ==
    MarkUnchanged(AclDiff(CallDiffLogic(Matched(old), Matched(new), "affected", FALSE)))
=============================================================================
