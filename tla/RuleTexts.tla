------------------------------- MODULE RuleTexts -------------------------------
(***************************************************************************)
(* What the patching, ordering and deploying rulebooks have in common:     *)
(* rows that match commands, and params of a rule, given or by default.    *)
(*                                                                         *)
(* A rule is a record [row, given, attrs, context, children, ...].  "given"*)
(* has the params written with the rule, attrs the value of every param in *)
(* use.  A row is [undo, pat], pat a word or "~"; a command [undo, w].   *)
(***************************************************************************)
EXTENDS Integers, SequencesExt, FiniteSets, TLC, Functions

Row(pat)     == [undo |-> FALSE, pat |-> pat]
Command(x)   == [undo |-> FALSE, w |-> x]
Undo(c)      == [c EXCEPT !.undo = ~@]

(* compile_row_regexp: the row, or the row with the prefix put or taken.   *)
Fits(row, c)     == \/ row.pat = "~" /\ (row.undo => c.undo)
                    \/ row.pat = c.w /\ row.undo = c.undo
Inverse1(row)    == [row EXCEPT !.undo = ~@]

(* string_similarity: letters of the command in the regexp.  "~" has next  *)
(* to none, so a word is nearer, even by half for a reverse match.         *)
Similarity(row, c) == IF row.pat = c.w THEN 4 ELSE 1

Given(rule, p) == p \in DOMAIN rule.given /\ rule.given[p]
NotInherit(rule) == Given(rule, "not_inherit")

(* get_row_with_params: params the scheme has, with values of their own.   *)
Clean(given, defaults) == Restrict(given, {p \in DOMAIN given \cap DOMAIN defaults : given[p] # defaults[p]})
Written(rule, defaults) == [rule EXCEPT !.given = Clean(@, defaults)]

(* The params of the child win.                                            *)
MergedAttrs(parent, child, params) ==
    [p \in DOMAIN parent.attrs |-> IF p \in DOMAIN child.given \cap params THEN child.attrs[p] ELSE parent.attrs[p]]

(* A text: rules by what is written.                                       *)
WithDefaults(values, defaults) == [p \in DOMAIN defaults |-> IF p \in DOMAIN values THEN values[p] ELSE defaults[p]]

(* Rulebooks are merged as dicts keyed by row: the parent's keys, then the *)
(* rest of the child's; a row written twice keeps its place and has the    *)
(* last rule.                                                              *)
Uniq(parents, children) ==
    FoldLeft(LAMBDA seen, k : IF k \in ToSet(seen) THEN seen ELSE Append(seen, k), <<>>, parents \o children)
Absent == [row |-> "absent"]
Found(rules, keys, k) ==
    LET places == {i \in DOMAIN keys : keys[i] = k}
    IN IF places = {} THEN Absent ELSE rules[Max(places)]

(* What comes of a row: the rule in the tree, and the child's rule as the  *)
(* merge leaves it.  Joined gives the same for all rows.                   *)
Outcome(raises, tree, left) == [raises |-> raises, tree |-> tree, left |-> left]
Joined(child, keys, rows, of) ==
    [raises |-> \E i \in DOMAIN of : of[i].raises,
     tree   |-> FlattenSeq([i \in DOMAIN of |-> of[i].tree]),
     child  |-> [j \in DOMAIN child |-> IF \E n \in j + 1 .. Len(keys) : keys[n] = keys[j] THEN child[j]
                                        ELSE of[CHOOSE i \in DOMAIN rows : rows[i] = keys[j]].left]]
=============================================================================
