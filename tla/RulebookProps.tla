----------------------------- MODULE RulebookProps -----------------------------
(***************************************************************************)
(* What a rulebook that inherits promises, and what ordering and deploying *)
(* with it promise.                                                        *)
(***************************************************************************)
EXTENDS RulebookProvider

CONSTANTS Commands,     (* paths of commands looked up                      *)
          Patches,      (* sequences of commands [path, context] to deploy  *)
          References,   (* what run_partial_generators adds to a tracker    *)
          Apply         (* apply logic -> commands [before, after]          *)

ChildRules(hw)  == files.of[Vendor][hw].rules
ParentPath(hw)  == files.of[Vendor][hw].inherits
NoCaches        == [texts |-> <<>>, compiled |-> <<>>]
Parent(hw)      == ByExtension(ParentPath(hw), hw, NoCaches).tree
Child(hw)       == Compile(ChildRules(hw))
Inherits(hw)    == ParentPath(hw) # NoPath
Of(extension)   == {hw \in DOMAIN loaded : files.extension = extension /\ Inherits(hw) /\ ParentPath(hw) \in DOMAIN files.of}

(* Marks that merging for other hardware may have taken from the tree.     *)
MarkedDialogs(t) == \E d \in ToSet(t.dialogs) : d.not_inherit
RECURSIVE Marks(_)
Marks(rules) == \E t \in ToSet(rules) : \/ "not_inherit" \in DOMAIN t.values \/ MarkedDialogs(t)
                                        \/ Marks(t.children)
MarksBelow   == \E path \in DOMAIN files.of, hw \in Hardware :
                   \E t \in ToSet(files.of[path][hw].rules) : MarkedDialogs(t) \/ Marks(t.children)
Spent == MarksBelow /\ Cardinality(DOMAIN loaded) > 1

-----------------------------------------------------------------------------
(* Ordering: the parent owns the order.  Rules of the parent keep theirs;  *)
(* a new rule comes right after the rule above it in the child's text, or, *)
(* with %insert_to_end_group, right before the next anchor (at the very    *)
(* end, when it has no anchor above it); no rule comes twice unless it is  *)
(* %split, and %not_inherit takes the parent's away (Spent: below the top  *)
(* level only in the first rulebook that is loaded).                       *)
Rows(rules)        == [i \in DOMAIN rules |-> OrderKey(rules[i])]
Only(seq, S)       == SelectSeq(seq, LAMBDA k : k \in S)
Marked(rules)      == {OrderKey(r) : r \in {x \in ToSet(rules) : NotInherit(x)}}
ToEnd(rules)       == {OrderKey(r) : r \in {x \in ToSet(rules) : Given(x, "insert_to_end_group")}}

RECURSIVE Anchored(_, _, _)
Anchored(merged, parent, child) ==
    LET kept  == SelectSeq(parent, LAMBDA r : OrderKey(r) \notin Marked(child))
        mine  == SelectSeq(child, LAMBDA r : ~NotInherit(r) \/ r.children # <<>>)
        P == Rows(kept)  C == Rows(mine)  M == Rows(merged)
        new   == ToSet(C) \ ToSet(P)
        ends  == ToEnd(mine) \cap new
        split == {OrderKey(r) : r \in {x \in ToSet(kept) \cup ToSet(mine) : x.attrs.split}}
        Place(seq, k) == CHOOSE i \in DOMAIN seq : seq[i] = k
        First(S) == CHOOSE i \in S : \A n \in S : i <= n
        Final(S) == CHOOSE i \in S : \A n \in S : n <= i
        Above(j) == {i \in 1 .. j - 1 : C[i] \notin ends}
        Loose    == {j \in DOMAIN C : C[j] \in ends /\ \A i \in 1 .. j - 1 : C[i] \in new}
        Following(j) == IF j \in Loose THEN {i \in Loose : i > j}
                    ELSE LET below == {i \in j + 1 .. Len(C) : C[i] \notin new \ ends}
                         IN IF below = {} THEN Loose ELSE below
        RightAfter(j)  == Place(M, C[j]) = IF Above(j) = {} THEN 1 ELSE Place(M, C[Final(Above(j))]) + 1
        RightBefore(j) == Place(M, C[j]) = (IF Following(j) = {} THEN Len(M) + 1 ELSE Place(M, C[First(Following(j))])) - 1
    IN split = {} =>
       /\ ToSet(M) = ToSet(P) \cup ToSet(C)
       /\ \A i, j \in DOMAIN M : M[i] = M[j] => i = j
       /\ Only(M, ToSet(P)) = P
       /\ \A j \in DOMAIN C :
             /\ C[j] \in new \ ends => RightAfter(j)
             /\ C[j] \in ends => RightBefore(j)
             /\ C[j] \notin new => Anchored(merged[Place(M, C[j])].children, kept[Place(P, C[j])].children, mine[j].children)
ParentOwnsOrder == Spent \/ \A hw \in Of("order") : Anchored(loaded[hw], Parent(hw), Child(hw))

-----------------------------------------------------------------------------
(* A command that no rule of the child speaks of is treated as by the      *)
(* parent: same rule to patch it, same answers and timeout to deploy it,   *)
(* same order against other such commands.                                 *)
RECURSIVE Speaks(_, _)
Speaks(rules, x) == \E r \in ToSet(rules) : Fits(r.row, x) \/ Fits(Inverse1(r.row), x) \/ Speaks(r.children, x)
Silent(child)      == {path \in Commands : \A x \in ToSet(path) : ~Speaks(child, x)}
Known(rules, path) == \E r \in ToSet(rules) : Fits(r.row, path[1]) \/ Fits(Inverse1(r.row), path[1])
InheritedAsParent ==
    \A hw \in Of("rul") \cup Of("deploy") \cup Of("order") :
        LET parent == Parent(hw)
            silent == Silent(Child(hw))
        IN CASE files.extension = "rul" ->
                    \A path \in silent :
                       LET mine == Patch!PatchRuleOf(loaded[hw], path)  theirs == Patch!PatchRuleOf(parent, path)
                       IN mine = theirs \/ (mine # Patch!NoRule /\ theirs # Patch!NoRule /\ mine.attrs = theirs.attrs)
             [] files.extension = "deploy" ->
                    \A path \in silent, context \in {"none", "in"} :
                       LET mine   == Deploy!MatchDeployRule(loaded[hw], path, context)
                           theirs == Deploy!MatchDeployRule(parent, path, context)
                       IN mine.attrs = theirs.attrs /\ mine.dialogs = theirs.dialogs
             [] files.extension = "order" ->
                    \A a, b \in {path \in silent : Known(parent, path)} :
                       Precedes(loaded[hw], a, b, "patch") = Precedes(parent, a, b, "patch")

(* "Your params win": for a command that child and merged rulebook treat   *)
(* by the same rule, every param the child gives has the child's value,    *)
(* with the logics it stands for, and the child's dialogs answer (or are   *)
(* gone, when it marks them).  What %ignore_case does   *)
(* to the regexp is not among them.                                        *)
PatchParams(c) == (DOMAIN c.given \cap (DOMAIN Patch!PatchDefaults \ {"global", "parent"}))
                  \cup (IF DOMAIN c.given \cap {"ordered", "rewrite"} # {} THEN {"logic", "diff_logic"} ELSE {})
SameRule(Key(_), RuleOf(_, _), child, merged, path) ==
    \A n \in DOMAIN path : LET c == RuleOf(child, SubSeq(path, 1, n))  m == RuleOf(merged, SubSeq(path, 1, n))
                           IN "given" \in DOMAIN c \cap DOMAIN m /\ ~NotInherit(c) /\ Key(c) = Key(m)
ParamsWin ==
    /\ \A hw \in Of("rul") :
          LET child == Child(hw)
          IN \A path \in Commands :
                SameRule(Patch!PatchKey, Patch!PatchRuleOf, child, loaded[hw], path) =>
                LET c == Patch!PatchRuleOf(child, path)  m == Patch!PatchRuleOf(loaded[hw], path)
                IN c.type = "normal" => \A p \in PatchParams(c) : m.attrs[p] = c.attrs[p]
    /\ \A hw \in Of("deploy") :
          LET child == Child(hw)
          IN \A path \in Commands, context \in {"none", "in"} :
                LET RuleOf(rules, start) == Deploy!MatchFrom(rules, start, context)
                    c == RuleOf(child, path)  m == RuleOf(loaded[hw], path)
                IN SameRule(Deploy!DeployKey, RuleOf, child, loaded[hw], path) =>
                   /\ \A p \in DOMAIN c.given \cap DOMAIN Deploy!DeployDefaults : m.attrs[p] = c.attrs[p]
                   /\ \A d \in ToSet(c.dialogs) :
                         IF d.not_inherit THEN Spent \/ \A e \in ToSet(m.dialogs) : e.msg # d.msg
                         ELSE \E e \in ToSet(m.dialogs) : e.msg = d.msg /\ e.answer = d.answer

-----------------------------------------------------------------------------
(* What inheriting promises: the order of the parent, its rules where the  *)
(* child is silent, the child's params where it is not.                    *)
Inherited == ParentOwnsOrder /\ InheritedAsParent /\ ParamsWin

-----------------------------------------------------------------------------
(* With the configs of a reference put in front (ref_insert), what is      *)
(* defined comes before what refers to it, whatever the rulebook says; a   *)
(* reference at the top level goes away first, unless the rulebook has the *)
(* very row of one of them.  Generators that are referred to refer to      *)
(* no other themselves: with a chain a, b, c the order is b, c, a.         *)
RECURSIVE Tracker(_)
Tracker(adds) == IF adds = <<>> THEN NewTracker
                 ELSE LET t == Tracker(Front(adds))
                      IN AddRef([t EXCEPT !.cfgs = (Last(adds).ref :> Last(adds).refcfg) @@ (Last(adds).def :> Last(adds).defcfg) @@ @],
                                Last(adds).ref, Last(adds).def)
Paths(rules) == UNION {IF r.children = <<>> THEN {<<Command(r.row.pat)>>}
                       ELSE {<<Command(r.row.pat), Command(s.row.pat)>> : s \in ToSet(r.children)} : r \in ToSet(rules)}
Removal(path) == [path EXCEPT ![Len(path)] = Undo(@)]
DefinedBeforeUsed ==
    files.extension = "order" =>
    \A hw \in DOMAIN loaded, adds \in References :
        LET rules == RefInsert(loaded[hw], Configs(Tracker(adds)))
        IN \A i \in DOMAIN adds : \A d \in Paths(adds[i].defcfg), r \in Paths(adds[i].refcfg) :
              d # r => /\ Precedes(rules, d, r, "patch")
                       /\ Len(r) = 1 /\ (\A t \in ToSet(loaded[hw]) : t.row.pat \notin {d[1].w, r[1].w})
                          => Precedes(rules, Removal(r), Removal(d), "patch")

(* Every command of a patch is sent once, in order, at its own level, and  *)
(* between the commands before and after that its rule asks for: a session *)
(* is never entered twice nor left open.                                   *)
Sessions == {Apply["apply"], Apply["save"]}
Bracket(w) == ToSet(w.before) \cup ToSet(w.after)
Around == UNION {Bracket(w) : w \in Sessions}
CommandsWrapped ==
    files.extension = "deploy" =>
    \A hw \in DOMAIN loaded, patch \in Patches :
        LET sent == Deploy!ApplyDeployRulebook(loaded[hw], patch, Apply)
            Wanted(i) == Apply[Deploy!MatchDeployRule(loaded[hw], patch[i].path, patch[i].context).attrs.apply]
            Walk(acc, c) ==
                IF c.cmd \in Around
                THEN [acc EXCEPT !.ok = @ /\ c.level = 0,
                                 !.open = IF \E w \in Sessions : c.cmd = Head(w.before) THEN Append(@, c.cmd)
                                          ELSE IF @ # <<>> THEN Tail(@) ELSE <<"left twice">>]
                ELSE [n |-> acc.n + 1, open |-> acc.open,
                      ok |-> /\ acc.ok /\ acc.n < Len(patch)
                             /\ c.cmd = Last(patch[acc.n + 1].path) /\ c.level = Len(patch[acc.n + 1].path) - 1
                             /\ acc.open = Wanted(acc.n + 1).before]
            end == FoldLeft(Walk, [n |-> 0, open |-> <<>>, ok |-> TRUE], sent)
        IN end.ok /\ end.n = Len(patch) /\ end.open = <<>>

-----------------------------------------------------------------------------
(* A rulebook is the same whatever was loaded before it, when only rules   *)
(* at the top of a text are marked %not_inherit.                           *)
LoadedAlike == MarksBelow \/ \A hw \in DOMAIN loaded : loaded[hw] = ByExtension(Vendor, hw, NoCaches).tree

(* docs/usage/rulebooks.rst: "when inheriting, drop this rule from the     *)
(* parent".  A rule marked below one that child and parent both have is    *)
(* not in the rulebook.                                                    *)
NotInheritedDropped ==
    \A hw \in Of("order") : \A t \in ToSet(ChildRules(hw)), r \in ToSet(loaded[hw]) :
        t.row = r.row /\ "not_inherit" \notin DOMAIN t.values =>
        \A s \in ToSet(t.children), q \in ToSet(r.children) :
            "not_inherit" \in DOMAIN s.values /\ s.children = <<>> => s.row # q.row
=============================================================================
