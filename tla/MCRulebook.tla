------------------------------- MODULE MCRulebook -------------------------------
(***************************************************************************)
(* Rulebooks of a vendor "v" that inherit from "p" (which may inherit from *)
(* "g"), for two models of hardware whose parent texts may differ.         *)
(***************************************************************************)
EXTENDS RulebookProps

CONSTANTS h1, h2, ChildLength

Node(type, pat, values, scope, children, dialogs) ==
    [type |-> type, row |-> Row(pat), scope |-> scope, values |-> values, context |-> "", children |-> children, dialogs |-> dialogs]
None   == <<>>
Marked1 == [not_inherit |-> TRUE]
Seqs(S, n) == UNION {{s \in [1 .. m -> S] : \A i, j \in 1 .. m : i # j => s[i].row # s[j].row} : m \in 1 .. n}

(* Texts of the parent for the two models: either loads first, so which of *)
(* them has which makes no difference.                                     *)
Pairs(parents) == {<<parents[n[1]], parents[n[2]]>> : n \in {m \in (1 .. 3) \X (1 .. 3) : m[1] <= m[2]}}
CaseOf(extension, child, parent1, parent2) ==
    [extension |-> extension,
     of |-> [path \in {"v", "p"} |->
        [hw \in Hardware |-> IF path = "v" THEN [inherits |-> "p", rules |-> child]
                             ELSE [inherits |-> NoPath, rules |-> IF hw = h1 THEN parent1 ELSE parent2]]]]

-----------------------------------------------------------------------------
O(pat, values, children) == Node("normal", pat, values, NoScope, children, None)
Leaf(pat) == O(pat, None, None)
AXY == O("a", None, <<Leaf("x"), Leaf("y")>>)
OrderParents == << <<AXY, Leaf("b"), Leaf("c")>>,
                  <<Leaf("b"), O("a", None, <<Leaf("y"), Leaf("x")>>)>>,
                  <<Leaf("b"), [O("c", [order_reverse |-> TRUE], None) EXCEPT !.row = Inverse1(@)], O("~", [global |-> TRUE], None)>>>>
OrderPool == {Leaf("a"), Leaf("b"), Leaf("n"), Leaf("m"), O("n", [insert_to_end_group |-> TRUE], None), O("b", Marked1, None),
              O("m", [insert_to_end_group |-> TRUE], None), O("a", Marked1, <<Leaf("y")>>), O("a", None, <<O("y", Marked1, None)>>),
              O("a", None, <<Leaf("y"), Leaf("z")>>), O("n", None, <<O("y", Marked1, None), Leaf("z")>>)}
Split == LET S(children) == O("a", [split |-> TRUE], children)
         IN {CaseOf("order", child, <<S(<<Leaf("x")>>), Leaf("b"), S(<<Leaf("y")>>)>>, <<Leaf("b"), Leaf("a")>>) :
                child \in {<<S(<<>>), Leaf("n"), S(<<>>)>>, <<S(<<>>), S(<<>>), S(<<Leaf("z")>>)>>, <<Leaf("a"), Leaf("n")>>}}
OrderCases == Split \cup {CaseOf("order", child, pair[1], pair[2]) : child \in Seqs(OrderPool, ChildLength), pair \in Pairs(OrderParents)}

-----------------------------------------------------------------------------
P(type, pat, values, children) == Node(type, pat, values, NoScope, children, None)
PLeaf(pat, values) == P("normal", pat, values, None)
PatchParents == << <<P("normal", "a", None, <<PLeaf("x", [logic |-> "own"]), PLeaf("~", None)>>), PLeaf("b", [ordered |-> TRUE]),
                    PLeaf("~", None)>>,
                  <<P("normal", "b", None, <<PLeaf("x", None)>>), PLeaf("~", [global |-> TRUE, diff_logic |-> "own"])>>,
                  <<P("normal", "a", [rewrite |-> TRUE], <<PLeaf("y", None)>>), P("ignore", "c", None, None)>>>>
PatchPool == {PLeaf("a", None), PLeaf("a", [logic |-> "own"]), PLeaf("b", [ordered |-> TRUE]), PLeaf("b", [rewrite |-> TRUE]),
              PLeaf("b", Marked1), P("ignore", "c", None, None), PLeaf("~", [global |-> TRUE]), PLeaf("c", [multiline |-> TRUE]),
              P("normal", "a", Marked1, <<PLeaf("z", None)>>), P("normal", "a", None, <<PLeaf("x", Marked1)>>),
              P("normal", "a", None, <<PLeaf("x", [parent |-> TRUE])>>), PLeaf("~", [global |-> TRUE, not_inherit |-> TRUE]),
              P("normal", "b", [ordered |-> TRUE, logic |-> "own"], None)}
PatchCases == {CaseOf("rul", child, pair[1], pair[2]) : child \in Seqs(PatchPool, ChildLength), pair \in Pairs(PatchParents)}

-----------------------------------------------------------------------------
Dialog(msg, answer, nl, marked) == [msg |-> msg, answer |-> answer, nl |-> nl, not_inherit |-> marked]
D(pat, values, ifcontext, children, dialogs) == Node("normal", pat, values, ifcontext, children, dialogs)
Sure == Dialog("sure", "y", "yes", FALSE)
DeployParents == << <<D("a", [timeout |-> 60], {}, <<D("x", [timeout |-> 90], {"in"}, None, None)>>, <<Sure>>), D("b", [apply |-> "save"], {}, None, None)>>,
                   <<D("~", [timeout |-> 5], {}, None, <<Sure>>), D("x", None, {}, None, None)>>,
                   <<D("a", None, {"in"}, <<D("x", [apply |-> "save"], {}, None, None)>>, None), D("a", [suppress_errors |-> TRUE], {}, None, None)>>>>
DeployPool == {D("a", None, {}, None, <<Dialog("sure", "n", "", FALSE)>>), D("a", None, {}, None, <<Dialog("sure", "", "", TRUE)>>),
               D("a", [timeout |-> 10], {"in"}, None, None), D("b", Marked1, {}, None, None), D("b", [apply |-> "apply"], {}, None, None),
               D("a", None, {"in"}, <<D("x", None, {"out"}, None, None)>>, None), D("~", [timeout |-> 9], {}, None, None),
               D("a", None, {}, <<D("x", Marked1, {"in"}, None, None)>>, None), D("x", [suppress_errors |-> TRUE], {}, None, <<Sure>>)}
DeployCases == {CaseOf("deploy", child, pair[1], pair[2]) : child \in Seqs(DeployPool, ChildLength), pair \in Pairs(DeployParents)}

(* A chain of three, a text that is not there, and one without a parent.   *)
Odd(extension, rules, parent, grand) ==
    LET To(path, text) == [hw \in Hardware |-> [inherits |-> path, rules |-> text]]
    IN {[extension |-> extension, of |-> ("v" :> To("p", rules)) @@ ("p" :> To("g", parent)) @@ ("g" :> To(NoPath, grand))],
        [extension |-> extension, of |-> ("v" :> To("p", rules))],
        [extension |-> extension, of |-> ("v" :> To(NoPath, rules))]}
OddCases == Odd("order", <<Leaf("b"), Leaf("n")>>, <<Leaf("b"), O("a", None, <<O("x", Marked1, None), Leaf("y")>>)>>, <<AXY>>)
            \cup Odd("rul", <<PLeaf("a", None)>>, <<P("normal", "a", [ordered |-> TRUE], <<PLeaf("x", Marked1)>>)>>,
                     <<P("normal", "a", None, <<PLeaf("x", None), PLeaf("y", None)>>), PLeaf("b", None)>>)
            \cup Odd("deploy", <<D("a", None, {}, None, None)>>, <<D("a", Marked1, {}, None, <<Sure>>)>>, <<D("a", None, {}, None, None)>>)

MCCases == OrderCases \cup PatchCases \cup DeployCases \cup OddCases

-----------------------------------------------------------------------------
C(x) == Command(x)
MCCommands == {<<C("a")>>, <<C("b")>>, <<Undo(C("b"))>>, <<C("c")>>, <<Undo(C("c"))>>, <<C("a"), C("x")>>, <<C("a"), C("y")>>, <<C("b"), C("x")>>}
Ref(ref, refcfg, def, defcfg) == [ref |-> ref, refcfg |-> refcfg, def |-> def, defcfg |-> defcfg]
AX == <<O("a", None, <<Leaf("x")>>)>>
AY == <<O("a", None, <<Leaf("y")>>)>>
MCReferences == {<<Ref("g1", AX, "r1", <<Leaf("b")>>)>>, <<Ref("g1", <<Leaf("b")>>, "r1", AX)>>, <<Ref("g1", AY, "r1", AX)>>,
                 <<Ref("g1", <<Leaf("b")>>, "r1", <<Leaf("c")>>), Ref("g2", AY, "r1", <<Leaf("c")>>)>>,
                 <<Ref("g1", <<Leaf("c")>>, "r1", AX), Ref("g1", <<Leaf("c")>>, "r2", <<Leaf("b")>>)>>}
Cmd(path, context) == [path |-> path, context |-> context]
MCPatches == LET S == {Cmd(<<C("a")>>, "none"), Cmd(<<C("b")>>, "none"), Cmd(<<C("a"), C("x")>>, "in")}
             IN UNION {[1 .. n -> S] : n \in 0 .. 3}
MCApply == [apply |-> [before |-> <<C("conf in")>>, after |-> <<C("conf out")>>],
            save  |-> [before |-> <<C("save in")>>, after |-> <<C("save out")>>]]
=============================================================================
