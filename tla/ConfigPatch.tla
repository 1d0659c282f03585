----------------------------- MODULE ConfigPatch ----------------------------
(***************************************************************************)
(* From a diff to the commands of a patch: make_pre, the patch logics of   *)
(* annlib/rulebook/common.py, sort_patch_rows and make_patch of            *)
(* annlib/patching.py.  The orderer is reduced to the position each rule   *)
(* has among the ordering rules of its level (Rb[r].order).  Comments,     *)
(* contexts and force_commit are left out.                                 *)
(***************************************************************************)
EXTENDS ConfigDiff, FiniteSets

Ops      == {"added", "removed", "moved", "affected", "unchanged"}
NoOrder  == -1            \* no ordering rule matches the row
Opposite == [added |-> "removed", removed |-> "added"]

(* The reverse of the rule, filled in with the key.                        *)
Undo(row) == [rule |-> -row.rule, key |-> row.key, val |-> 0]

(* Mutant: no reversals.                                                   *)
WithoutReversalsNone(diff) == diff

(* An addition or a removal whose command an earlier removal or addition   *)
(* of the block already stands for is skipped.                             *)
WithoutReversals(diff) ==
    LET Step(s, it) ==
            IF it.op \notin DOMAIN Opposite THEN [s EXCEPT !.kept = Append(@, it)]
            ELSE IF it.row \in s.undone[Opposite[it.op]] THEN s
            ELSE [kept   |-> Append(s.kept, it),
                  undone |-> [s.undone EXCEPT ![it.op] = @ \cup {Undo(it.row)}]]
    IN FoldLeft(Step, [kept |-> <<>>, undone |-> [op \in DOMAIN Opposite |-> {}]], diff).kept

(* Mutant: rows are grouped by rule.                                       *)
GroupIdByRule(it) == <<it.row.rule, 0>>

GroupId(it) == <<it.row.rule, it.row.key>>

(* make_pre and iterate_over_pre: the items grouped by rule and key, the   *)
(* groups in the order in which they were opened.                          *)
RECURSIVE MakePre(_)
MakePre(diff) ==
    LET kept   == WithoutReversals(diff)
        ids    == FoldLeft(LAMBDA seen, it : IF Contains(seen, GroupId(it)) THEN seen
                                             ELSE Append(seen, GroupId(it)), <<>>, kept)
        OpsOf(id, op) ==
            LET its == SelectSeq(kept, LAMBDA it : GroupId(it) = id /\ it.op = op)
            IN [i \in DOMAIN its |-> [row |-> its[i].row, children |-> MakePre(its[i].sub)]]
    IN [g \in DOMAIN ids |-> [rule |-> ids[g][1], key |-> ids[g][2],
                              diff |-> [op \in Ops |-> OpsOf(ids[g], op)]]]

-----------------------------------------------------------------------------
(* The patch logics: what each yields for one group.                       *)

Direct(entry) == [direct |-> TRUE, row |-> entry.row, leaf |-> FALSE, children |-> entry.children]
Reversed(g)   == [direct |-> FALSE, leaf |-> TRUE, children |-> <<>>,
                  row |-> Undo([rule |-> g.rule, key |-> g.key])]

(* The assert of default: at most one row per operation, but for unchanged.*)
AtMostOne(diff) == \A op \in Ops \ {"unchanged"} : Len(diff[op]) <= 1

(* Mutant: a removal counts more than an addition.                         *)
DefaultRemoves(g, diff) ==
    IF diff["affected"] # <<>> THEN <<Direct(diff["affected"][1])>>
    ELSE IF diff["removed"] # <<>> THEN <<Reversed(g)>>
    ELSE IF diff["added"] # <<>> THEN <<Direct(diff["added"][1])>>
    ELSE IF diff["moved"] # <<>> THEN <<Direct(diff["moved"][1])>>
    ELSE <<>>

Default(g, diff) ==
    IF diff["affected"] # <<>> THEN <<Direct(diff["affected"][1])>>
    ELSE IF diff["added"] # <<>> THEN <<Direct(diff["added"][1])>>
    ELSE IF diff["moved"] # <<>> THEN <<Direct(diff["moved"][1])>>
    ELSE IF diff["removed"] # <<>> THEN <<Reversed(g)>>
    ELSE <<>>

Ordered(g, diff) ==
    (IF diff["moved"] # <<>> THEN <<Reversed(g)>> ELSE <<>>) \o Default(g, diff)

Rewrite(g, diff) == IF diff["removed"] # <<>> THEN <<>> ELSE Default(g, diff)

Permanent(g, diff) ==
    IF diff["removed"] = <<>> THEN Default(g, diff)
    ELSE IF diff["removed"][1].children = <<>> THEN <<>>
    ELSE Default(g, [diff EXCEPT !["affected"] = @ \o diff["removed"], !["removed"] = <<>>])

IgnoreChanges(g, diff) ==
    IF diff["added"] # <<>> /\ diff["removed"] # <<>> THEN <<>> ELSE Default(g, diff)

(* Mutant: an addition alone is undone, too.                               *)
UndoRedoAlways(g, diff) ==
    IF diff["added"] # <<>> THEN <<Reversed(g)>> \o Default(g, diff) ELSE Default(g, diff)

UndoRedo(g, diff) ==
    LET Only(op) == [o \in Ops |-> IF o = op THEN diff[o] ELSE <<>>]
    IN IF diff["added"] # <<>> /\ diff["removed"] # <<>> /\ diff["affected"] = <<>>
       THEN Default(g, Only("removed")) \o Default(g, Only("added"))
       ELSE Default(g, diff)

Logic(g) ==
    LET logic == Rb[g.rule].logic
    IN CASE logic = "default"        -> Default(g, g.diff)
         [] logic = "ordered"        -> Ordered(g, g.diff)
         [] logic = "rewrite"        -> Rewrite(g, g.diff)
         [] logic = "permanent"      -> Permanent(g, g.diff)
         [] logic = "ignore_changes" -> IgnoreChanges(g, g.diff)
         [] logic = "undo_redo"      -> UndoRedo(g, g.diff)

(* _iterate_over_patch: one patch row per leaf, with the path to it.       *)
RECURSIVE PatchRows(_)
PatchRows(pre) ==
    LET One(g, y) == [row |-> <<y.row>>, keys |-> <<g.key>>, rules |-> <<g.rule>>, direct |-> y.direct]
        Under(g, y, s) == [row |-> <<y.row>> \o s.row, keys |-> <<g.key>> \o s.keys,
                           rules |-> <<g.rule>> \o s.rules, direct |-> s.direct]
        OfYield(g, y) ==
            LET below == PatchRows(y.children)
            IN IF y.leaf \/ below = <<>> THEN <<One(g, y)>>
               ELSE [i \in DOMAIN below |-> Under(g, y, below[i])]
        OfGroup(g) == LET ys == Logic(g) IN FlattenSeq([i \in DOMAIN ys |-> OfYield(g, ys[i])])
    IN FlattenSeq([i \in DOMAIN pre |-> OfGroup(pre[i])])

-----------------------------------------------------------------------------
(* sort_patch_rows                                                         *)

(* Orderer.get_order without %global rules: position and key for every     *)
(* level an ordering rule matches; a removal's own level counts backwards. *)
GetOrder(r) ==
    LET Pos(j)  == Rb[r.rules[j]].order
        depth   == Cardinality({j \in DOMAIN r.row : \A i \in 1..j : Pos(i) # NoOrder})
        Back(j) == j = Len(r.row) /\ ~r.direct
    IN [j \in 1..depth |-> [idx |-> IF Back(j) THEN -Pos(j) ELSE Pos(j), key |-> r.keys[j]]]

(* Mutant: rows are not grouped by key.                                    *)
FirstSeenNone(orders, i, size) == 0

(* string_idxs: the first row whose keys begin like these.  Only the keys  *)
(* are compared, not the rules they belong to.                             *)
FirstSeen(orders, i, size) ==
    LET Prefix(j) == [k \in 1..size |-> orders[j][k].key]
    IN CHOOSE j \in 1..i :
        /\ Len(orders[j]) >= size /\ Prefix(j) = Prefix(i)
        /\ \A k \in 1..(j - 1) : ~(Len(orders[k]) >= size /\ Prefix(k) = Prefix(i))

(* Rules compare by their texts, here by their numbers.                    *)
NoRule == -1000           \* the empty text

(* The sort key of row i as one sequence of numbers.  The keys at the end  *)
(* of the code's sort key decide nothing; as the sort is stable, the place *)
(* of the row decides at last.                                             *)
SortKey(rows, orders, i) ==
    LET r == rows[i]
        Bit(b) == IF b THEN 1 ELSE 0
        Level(j) == <<orders[i][j].idx,
                      IF j <= Len(r.rules) THEN r.rules[j] ELSE NoRule,
                      Bit(j < Len(r.row) \/ r.direct),
                      FirstSeen(orders, i, j)>>
    IN FlattenSeq([j \in DOMAIN orders[i] |-> Level(j)]) \o <<0, NoRule, 0, 0, Bit(r.direct), i>>

LexLess(s, t) ==
    \E i \in DOMAIN s \cap DOMAIN t :
        /\ s[i] < t[i]
        /\ \A k \in 1..(i - 1) : s[k] = t[k]

SortPatchRows(rows) ==
    LET orders == [i \in DOMAIN rows |-> GetOrder(rows[i])]
        keyed  == [i \in DOMAIN rows |-> [key |-> SortKey(rows, orders, i), row |-> rows[i]]]
        sorted == SortSeq(keyed, LAMBDA x, y : LexLess(x.key, y.key))
    IN [i \in DOMAIN rows |-> sorted[i].row]

-----------------------------------------------------------------------------
(* make_patch: neighbours share the blocks they are in.                    *)
RECURSIVE AddPath(_, _)
AddPath(tree, path) ==
    IF path = <<>> THEN tree
    ELSE IF tree # <<>> /\ Last(tree).row = path[1]
         THEN [tree EXCEPT ![Len(tree)].sub = AddPath(@, Tail(path))]
         ELSE Append(tree, [row |-> path[1], sub |-> AddPath(<<>>, Tail(path))])

MakePatch(pre) ==
    LET rows == SortPatchRows(PatchRows(pre))
    IN FoldLeft(LAMBDA tree, r : AddPath(tree, r.row), <<>>, rows)

(* The commands of a patch tree: [at, do], the blocks entered and the text.*)
RECURSIVE CmdPaths(_, _)
CmdPaths(tree, at) ==
    FlattenSeq([i \in DOMAIN tree |->
        <<[at |-> at, do |-> tree[i].row]>> \o CmdPaths(tree[i].sub, Append(at, tree[i].row))])

(* No group of the diff has more rows than the logics can take.            *)
RECURSIVE NoAssertion(_)
NoAssertion(pre) ==
    \A g \in DOMAIN pre :
        /\ AtMostOne(pre[g].diff)
        /\ \A op \in Ops : \A i \in DOMAIN pre[g].diff[op] : NoAssertion(pre[g].diff[op][i].children)
=============================================================================
