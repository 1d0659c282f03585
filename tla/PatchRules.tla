------------------------------ MODULE PatchRules ------------------------------
(***************************************************************************)
(* Patching rulebooks: compiling a text, inheriting, matching a command    *)
(* (annet.rulebook.patching, the matching of annet.annlib.patching).       *)
(*                                                                         *)
(* A rulebook is a sequence, local rules first; a rule has its type, its   *)
(* scope, and whether its regexp ignores case; commands are in the case of *)
(* the rows.  Merging gives [raises, tree, child] as in OrderRules.         *)
(***************************************************************************)
EXTENDS RuleTexts

PatchDefaults == [global |-> FALSE, logic |-> "default", diff_logic |-> "default", ordered |-> FALSE,
                  rewrite |-> FALSE, multiline |-> FALSE, parent |-> FALSE, ignore_case |-> FALSE]
Logics == {"ordered", "rewrite", "multiline"}

(* What %ordered, %rewrite and %multiline exclude.                         *)
Excluded(p) == IF p = "multiline" THEN {"diff_logic"} ELSE {"logic", "diff_logic"}

Conflict(attrs) == \E p \in Logics : attrs[p] /\ \E q \in Excluded(p) : attrs[q] # "default"
ShortHand(attrs) ==
    CASE attrs.ordered   -> [attrs EXCEPT !.logic = "ordered", !.diff_logic = "ordered"]
      [] ~attrs.ordered /\ attrs.rewrite -> [attrs EXCEPT !.logic = "rewrite", !.diff_logic = "rewrite"]
      [] ~attrs.ordered /\ ~attrs.rewrite /\ attrs.multiline -> [attrs EXCEPT !.diff_logic = "multiline"]
      [] OTHER -> attrs

LocalFirst(rules) == SelectSeq(rules, LAMBDA r : r.scope = "local") \o SelectSeq(rules, LAMBDA r : r.scope = "global")

RECURSIVE CompilePatch(_)
CompilePatch(text) ==
    LET Rule(t) ==
            LET given == WithDefaults(t.values, PatchDefaults)
            IN [type |-> t.type, row |-> t.row, given |-> t.values, context |-> t.context,
                scope |-> IF given.global THEN "global" ELSE "local", icase |-> given.ignore_case,
                attrs |-> [ShortHand(given) EXCEPT !.parent = (t.type = "normal" /\ @) \/ t.children # <<>>],
                children |-> IF t.type = "ignore" \/ given.global THEN <<>> ELSE CompilePatch(t.children)]
    IN LocalFirst([i \in DOMAIN text |-> Rule(text[i])])

RECURSIVE CompilePatchRaises(_)
CompilePatchRaises(text) ==
    \E t \in ToSet(text) : t.type = "normal"
        /\ LET attrs == WithDefaults(t.values, PatchDefaults)
           IN Conflict(attrs) \/ (~attrs.global /\ CompilePatchRaises(t.children))

-----------------------------------------------------------------------------
PatchKey(rule) == <<rule.type, rule.row>>
Parenthood(rule) == IF rule.type = "ignore" THEN rule ELSE [rule EXCEPT !.attrs.parent = rule.children # <<>>]

(* %not_inherit in rules that have no counterpart: a rule without children *)
(* is dropped.                                                             *)
RECURSIVE StripPatch(_)
StripPatch(rules) ==
    LET kept == SelectSeq(rules, LAMBDA r : ~NotInherit(r) \/ r.children # <<>>)
    IN [i \in DOMAIN kept |-> Parenthood([Written(kept[i], PatchDefaults) EXCEPT !.children = StripPatch(@)])]

RECURSIVE StripPatchRaises(_)
StripPatchRaises(rules) == \E r \in ToSet(rules) : \/ NotInherit(r) /\ "global" \in DOMAIN r.given
                                                   \/ StripPatchRaises(r.children)

Dropped(rule)        == NotInherit(rule) /\ rule.children = <<>>
AddChildRaises(rule) == (NotInherit(rule) /\ "global" \in DOMAIN rule.given) \/ StripPatchRaises(rule.children)
AddedChild(rule)     == Parenthood([rule EXCEPT !.children = StripPatch(@)])

(* A mutant of PatchAttrs: %ordered without the logics it stands for.      *)
PatchAttrsWithoutLogic(parent, child) ==
    MergedAttrs(parent, child, IF child.type = "ignore" THEN {"diff_logic"} ELSE DOMAIN PatchDefaults \ {"global"})

(* The attrs of a rule of both: the child's params win, and what they      *)
(* stand for.                                                              *)
PatchAttrs(parent, child) ==
    LET attrs == MergedAttrs(parent, child, IF child.type = "ignore" THEN {"diff_logic"} ELSE DOMAIN PatchDefaults \ {"global"})
        of    == [logic |-> child.attrs.logic, diff_logic |-> child.attrs.diff_logic]
    IN CASE child.type = "ignore" -> attrs
         [] child.type # "ignore" /\ DOMAIN child.given \cap {"ordered", "rewrite"} # {} ->
                [attrs EXCEPT !.logic = of.logic, !.diff_logic = of.diff_logic]
         [] child.type # "ignore" /\ DOMAIN child.given \cap Logics = {"multiline"} -> [attrs EXCEPT !.diff_logic = of.diff_logic]
         [] OTHER -> attrs

AddChild(rule) ==
    Outcome(AddChildRaises(rule), IF Dropped(rule) THEN <<>> ELSE <<AddedChild(Written(rule, PatchDefaults))>>,
            IF Dropped(rule) THEN rule ELSE AddedChild(rule))

(* A rule of both, with the merge of their children.                       *)
MergedRule(p, c, inner) ==
    LET given == c.given @@ p.given
        scope == IF "global" \in DOMAIN c.given THEN c.scope ELSE p.scope
        below == IF scope = "global" THEN <<>> ELSE inner.tree
        above == IF c.type = "ignore" THEN p.attrs.parent \/ c.attrs.parent ELSE FALSE
    IN Outcome(\/ p.context # c.context
               \/ \E q \in Logics : q \in DOMAIN given /\ Excluded(q) \cap DOMAIN given # {}
               \/ scope = "local" /\ inner.raises,
               <<[p EXCEPT !.scope = scope, !.children = below, !.given = Clean(given, PatchDefaults),
                           !.attrs = [PatchAttrs(p, c) EXCEPT !.parent = above \/ below # <<>>]]>>,
               IF scope = "global" THEN c ELSE [c EXCEPT !.children = inner.child])

RECURSIVE MergePatch(_, _)
MergePatch(parent, child) ==
    LET theirs == [i \in DOMAIN parent |-> PatchKey(parent[i])]
        mine   == [i \in DOMAIN child |-> PatchKey(child[i])]
        rows   == Uniq(theirs, mine)
        Of(p, c) == IF c = Absent THEN Outcome(FALSE, <<Written(p, PatchDefaults)>>, c)
                    ELSE IF p = Absent \/ NotInherit(c) THEN AddChild(c)
                    ELSE MergedRule(p, c, MergePatch(p.children, c.children))
    IN [Joined(child, mine, rows, [i \in DOMAIN rows |-> Of(Found(parent, theirs, rows[i]), Found(child, mine, rows[i]))])
           EXCEPT !.tree = LocalFirst(@)]

-----------------------------------------------------------------------------
(* The rule of a command: none when an ignore rule matches, else the one   *)
(* nearest to it, local before global; the rules below it are those of all *)
(* local rules that match, and the global rules above.                     *)
NoRule == [type |-> "none"]
PatchRule(rules, x) ==
    LET hit  == {i \in DOMAIN rules : Fits(rules[i].row, x)}
        Near(i, j) == \/ Similarity(rules[i].row, x) > Similarity(rules[j].row, x)
                      \/ Similarity(rules[i].row, x) = Similarity(rules[j].row, x) /\ i <= j
    IN IF hit = {} \/ \E i \in hit : rules[i].type = "ignore" THEN NoRule
       ELSE rules[CHOOSE i \in hit : \A j \in hit : Near(i, j)]

RulesBelow(rules, x) ==
    LET first == PatchRule(rules, x)
        hit   == SelectSeq(rules, LAMBDA r : r.scope = "local" /\ Fits(r.row, x))
    IN LocalFirst((IF first.scope = "local" THEN FlattenSeq([i \in DOMAIN hit |-> hit[i].children]) ELSE <<>>)
                  \o SelectSeq(rules, LAMBDA r : r.scope = "global"))

RECURSIVE PatchRuleOf(_, _)
PatchRuleOf(rules, path) ==
    LET rule == PatchRule(rules, Head(path))
    IN IF rule = NoRule \/ Len(path) = 1 THEN rule ELSE PatchRuleOf(RulesBelow(rules, Head(path)), Tail(path))
=============================================================================
