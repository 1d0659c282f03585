--------------------------------- MODULE Acl --------------------------------
(***************************************************************************)
(* Acls: which rule answers for a row of a configuration.                  *)
(* annlib/rbparser/acl.py and match_row_to_acl of annlib/patching.py.      *)
(*                                                                         *)
(* A row is [word, undo]: what it says, and whether it is the removal form *)
(* of that.  A rule is [pat, words, undo, sim, prio, global, ignore,       *)
(* owners, kids]: the name of its pattern, the words the pattern matches,  *)
(* whether it is written for the removal form, how much of the row it      *)
(* names (string_similarity), its parameters, and the rules below it.      *)
(* owners is the sequence of [gen, keep]: %generator_names with the        *)
(* %cant_delete of each.                                                   *)
(***************************************************************************)
EXTENDS Lists

IsRow(row) == DOMAIN row = {"word", "undo"} /\ row.undo \in BOOLEAN
IsRule(rule) ==
    /\ DOMAIN rule = {"pat", "words", "undo", "sim", "prio", "global", "ignore", "owners", "kids"}
    /\ rule.undo \in BOOLEAN /\ rule.sim \in Int /\ rule.prio \in Int
    /\ IsList(rule.owners) /\ Len(rule.owners) = 1

RuleId(rule) == <<rule.pat, rule.undo, rule.ignore>>

(* The rules of one text united, in the place of the first; the parameters *)
(* by the uniters of _PARAMS_SCHEME.                                       *)
SameText(rules, i)  == {j \in DOMAIN rules : RuleId(rules[j]) = RuleId(rules[i])}
United(rules, i) ==
    LET same      == SameText(rules, i)
        All(Of(_)) == FlattenSeq([j \in DOMAIN rules |-> IF j \in same THEN Of(rules[j]) ELSE <<>>])
    IN [rules[i] EXCEPT !.global = \E j \in same : rules[j].global,
                        !.owners = All(LAMBDA r : r.owners),
                        !.prio   = Max({rules[j].prio : j \in same}),
                        !.kids   = All(LAMBDA r : r.kids)]

MergeToplevel(rules) ==
    Collect([i \in DOMAIN rules |-> i],
            LAMBDA i : IF i = Min(SameText(rules, i)) THEN <<United(rules, i)>> ELSE <<>>)

-----------------------------------------------------------------------------
(* _find_acl_matches.  The removal form of a rule matches the removal of   *)
(* what the rule matches.                                                  *)
RowMatches(rule, row, reverse) ==
    row.word \in rule.words /\ row.undo = (rule.undo # reverse)

Found(rules, row, reverse) ==
    Collect(rules, LAMBDA r : IF RowMatches(r, row, reverse) THEN <<[rule |-> r, reverse |-> reverse]>> ELSE <<>>)

Metric(m)      == <<m.rule.prio, m.rule.sim>>
Better(m, n)   == \/ m.rule.prio > n.rule.prio
                  \/ m.rule.prio = n.rule.prio /\ m.rule.sim > n.rule.sim

(* Local rules before global ones, rules as written before their removal   *)
(* forms.                                                                  *)
FindAclMatches(row, rules) ==
    LET ordered == Those(rules, LAMBDA r : ~r.global) \o Those(rules, LAMBDA r : r.global)
    IN Found(ordered, row, FALSE) \o Found(ordered, row, TRUE)

(* The one that a stable sort by the metric puts first.                    *)
Unbeaten(matches)    == {i \in DOMAIN matches : ~\E j \in DOMAIN matches : Better(matches[j], matches[i])}
SelectMatch(matches) == matches[Min(Unbeaten(matches))]

(* The matches as good as that one, in its direction.                      *)
BestMatches(matches) ==
    LET selected == SelectMatch(matches)
    IN {m \in ToSet(matches) : Metric(m) = Metric(selected) /\ m.reverse = selected.reverse}

OwnersOf(matches) == UNION {ToSet(m.rule.owners) : m \in matches}

(* Generators that may delete the row: one of their flags lets it.         *)
Deleters(matches) ==
    LET owners == OwnersOf(matches)
    IN {o.gen : o \in {p \in owners : ~p.keep}}

(* match_row_to_acl, but for the rules below.  keep: nobody may delete it; *)
(* clash: AclNotExclusiveError of an exclusive match.                      *)
MatchRowToAcl(row, rules) ==
    LET matches  == FindAclMatches(row, rules)
        selected == SelectMatch(matches)
        best     == BestMatches(matches)
    IN IF matches = <<>> \/ selected.rule.ignore
       THEN [matched |-> FALSE, reverse |-> FALSE, keep |-> FALSE, clash |-> FALSE]
       ELSE [matched |-> TRUE, reverse |-> selected.reverse,
             keep    |-> \A o \in OwnersOf(best) : o.keep,
             clash   |-> Cardinality(Deleters(best)) > 1]

(* What apply_acl lets through: no removal form of what must stay.         *)
Passes(row, rules) ==
    LET m == MatchRowToAcl(row, rules) IN m.matched /\ ~(m.reverse /\ m.keep)
=============================================================================
