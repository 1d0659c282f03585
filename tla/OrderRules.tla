------------------------------ MODULE OrderRules ------------------------------
(***************************************************************************)
(* Ordering rulebooks: annet.annlib.rbparser.ordering and the Orderer.     *)
(*                                                                         *)
(* A rule has a scope too.  Merging gives [raises, tree, child]: whether it *)
(* raises, the merged rulebook, and the child's rulebook as merging leaves *)
(* it: rules it takes over are changed in place.                           *)
(***************************************************************************)
EXTENDS RuleTexts

NoScope       == {"*"}
OrderDefaults == [order_reverse |-> FALSE, global |-> FALSE, split |-> FALSE]

RECURSIVE CompileOrder(_)
CompileOrder(text) ==
    LET rules == SelectSeq(text, LAMBDA t : t.type = "normal")
    IN [i \in DOMAIN rules |->
           [row |-> rules[i].row, scope |-> rules[i].scope, given |-> rules[i].values,
            attrs |-> WithDefaults(rules[i].values, OrderDefaults), context |-> rules[i].context,
            children |-> CompileOrder(rules[i].children)]]

-----------------------------------------------------------------------------
OrderKey(rule)     == <<rule.row, rule.scope>>
Effective(scope, of) == IF scope # NoScope THEN scope ELSE of

RECURSIVE ScopesRaise(_, _)
ScopesRaise(rules, scope) ==
    \E r \in ToSet(rules) :
        \/ r.scope # NoScope /\ scope # NoScope /\ ~(r.scope \subseteq scope)
        \/ ScopesRaise(r.children, Effective(r.scope, scope))

RECURSIVE ApplyNotInherit(_)
ApplyNotInherit(rules) ==
    LET kept == SelectSeq(rules, LAMBDA r : ~NotInherit(r) \/ r.children # <<>>)
    IN [i \in DOMAIN kept |-> [Written(kept[i], OrderDefaults) EXCEPT !.children = ApplyNotInherit(@)]]

(* Without %split a rule is written once; all of a row or none have it.    *)
DuplicatesRaise(rules) ==
    \E i, j \in DOMAIN rules : i < j /\ OrderKey(rules[i]) = OrderKey(rules[j])
                               /\ ~(rules[i].attrs.split /\ rules[j].attrs.split)

(* Every row of the parent is an anchor as often as the parent has it.     *)
CountOf(rules, k) == Cardinality({i \in DOMAIN rules : OrderKey(rules[i]) = k})
IsAnchor(parent, child, j) ==
    Cardinality({i \in 1 .. j - 1 : OrderKey(child[i]) = OrderKey(child[j])}) < CountOf(parent, OrderKey(child[j]))
AnchorsRaise(parent, child) ==
    \E r \in ToSet(parent), j \in DOMAIN child :
        /\ OrderKey(r) = OrderKey(child[j])
        /\ \/ r.attrs.split /\ ~child[j].attrs.split
           \/ ~r.attrs.split /\ ~child[j].attrs.split /\ ~IsAnchor(parent, child, j)

(* The child's rules from one anchor to the next.                          *)
Groups(parent, child) ==
    FoldLeft(LAMBDA gs, j : IF IsAnchor(parent, child, j) THEN Append(gs, [anchor |-> j, rows |-> <<>>])
                            ELSE [gs EXCEPT ![Len(gs)].rows = Append(@, j)],
             <<[anchor |-> 0, rows |-> <<>>]>>, [j \in DOMAIN child |-> j])

(* A mutant of Taken: rules for the end of a group are taken in place.     *)
TakenInPlace(child, rows, atEnd) ==
    IF atEnd THEN <<>> ELSE ApplyNotInherit([i \in DOMAIN rows |-> child[rows[i]]])

Taken(child, rows, atEnd) ==
    LET those == SelectSeq(rows, LAMBDA j : Given(child[j], "insert_to_end_group") = atEnd)
    IN ApplyNotInherit([i \in DOMAIN those |-> child[those[i]]])

(* Merging at one level: rules of both, the child's groups, and for every  *)
(* rule of the parent the group whose anchor it meets, 0 if none; groups   *)
(* are met in their order.                                                 *)
MetBy(parent, child, groups) ==
    LET Met(g, p) == g <= Len(groups) /\ OrderKey(child[groups[g].anchor]) = OrderKey(p)
        Coming(met) == 2 + Cardinality({i \in DOMAIN met : met[i] # 0})
    IN FoldLeft(LAMBDA met, p : Append(met, IF Met(Coming(met), p) THEN Coming(met) ELSE 0), <<>>, parent)
LevelOf(parent, child, groups) ==
    [parent |-> parent, child |-> child, groups |-> groups, met |-> MetBy(parent, child, groups)]

NotIgnored(parent, child) == SelectSeq(parent, LAMBDA r : \A c \in ToSet(child) : NotInherit(c) => OrderKey(c) # OrderKey(r))
RulesKept(child)          == SelectSeq(child, LAMBDA r : ~NotInherit(r) \/ r.children # <<>>)
OrderLevel(parent, child) == LevelOf(parent, child, Groups(parent, child))

Anchor(l, i) == l.child[l.groups[l.met[i]].anchor]
LastMet(l)   == Max({1} \cup ToSet(l.met))
Ends(l, g)   == IF g = 1 THEN <<>> ELSE Taken(l.child, l.groups[g].rows, TRUE)

OrderRule(p, c, inner) ==
    [p EXCEPT !.given = Clean(c.given @@ p.given, OrderDefaults), !.attrs = MergedAttrs(p, c, DOMAIN OrderDefaults),
              !.children = inner.tree]
RulesFrom(l, i, inner) ==
    IF l.met[i] = 0 THEN <<l.parent[i]>>
    ELSE Ends(l, l.met[i] - 1) \o <<OrderRule(l.parent[i], Anchor(l, i), inner[i])>>
         \o Taken(l.child, l.groups[l.met[i]].rows, FALSE)
OrderTree(l, inner) ==
    Taken(l.child, l.groups[1].rows, FALSE) \o FlattenSeq([i \in DOMAIN l.parent |-> RulesFrom(l, i, inner)])
    \o Ends(l, LastMet(l)) \o Taken(l.child, l.groups[1].rows, TRUE)

(* The child's rules as merging leaves them: those dropped are untouched.  *)
LeftOf(l, j, inner) ==
    LET at == {i \in DOMAIN inner : l.groups[l.met[i]].anchor = j}
    IN [l.child[j] EXCEPT !.children = IF at = {} THEN ApplyNotInherit(@) ELSE inner[CHOOSE i \in at : TRUE].child]
OrderLeft(l, child, inner) ==
    LET kept == {j \in DOMAIN child : ~NotInherit(child[j]) \/ child[j].children # <<>>}
    IN [j \in DOMAIN child |-> IF j \in kept THEN LeftOf(l, Cardinality(kept \cap 1 .. j), inner) ELSE child[j]]

OrderRaises(l, inner) ==
    \/ DuplicatesRaise(l.parent) \/ DuplicatesRaise(l.child) \/ AnchorsRaise(l.parent, l.child)
    \/ LastMet(l) < Len(l.groups)
    \/ \E i \in DOMAIN inner : l.parent[i].context # Anchor(l, i).context \/ inner[i].raises

InScope(tree, scope, raises, left) ==
    [raises |-> raises \/ ScopesRaise(tree, scope), tree |-> tree, child |-> left]
OrderMerged(l, child, inner, scope) ==
    InScope(OrderTree(l, inner), scope, OrderRaises(l, inner), OrderLeft(l, child, inner))

RECURSIVE MergeOrder(_, _, _)
MergeOrder(parent, child, scope) ==
    LET l == OrderLevel(NotIgnored(parent, child), RulesKept(child))
    IN OrderMerged(l, child,
                   [i \in {n \in DOMAIN l.met : l.met[n] # 0} |->
                       MergeOrder(l.parent[i].children, Anchor(l, i).children, Effective(l.parent[i].scope, scope))],
                   scope)

-----------------------------------------------------------------------------
(* The Orderer.  Walking over the rules of a level it collects the rules   *)
(* of the next in a list that every match so far shares, until a %split    *)
(* rule starts another.                                                    *)
Infinity == 1000

Step(acc, i, rules, c, last, direct, scope) ==
    LET r    == rules[i]
        acc1 == IF r.attrs.global THEN [acc EXCEPT !.lists[Len(acc.lists)] = Append(@, r)] ELSE acc
        Entry(weight, pos, list) == [weight |-> weight, pos |-> pos, list |-> list]
        Emptied == [acc1 EXCEPT !.lists[Len(acc1.lists)] = <<>>]
        weight  == IF Fits(r.row, c) THEN 2 * Similarity(r.row, c) ELSE Similarity(r.row, c)
        grown   == IF r.attrs.split THEN Append(acc1.lists, r.children)
                   ELSE [acc1.lists EXCEPT ![Len(acc1.lists)] = @ \o r.children]
    IN CASE r.scope # NoScope /\ scope \notin r.scope -> acc
         [] r.scope = NoScope \/ scope \in r.scope ->
            CASE ~r.attrs.order_reverse /\ (Fits(r.row, c) \/ Fits(Inverse1(r.row), c)) ->
                    [lists |-> grown, exits |-> acc.exits,
                     entries |-> Append(acc.entries, Entry(weight, IF last /\ ~direct THEN -(i - 1) ELSE i - 1, Len(grown)))]
              [] r.attrs.order_reverse /\ ~direct /\ Fits(r.row, c) ->
                    [Emptied EXCEPT !.entries = Append(@, Entry(weight, i - 1, Len(acc1.lists)))]
              [] ~(~r.attrs.order_reverse /\ (Fits(r.row, c) \/ Fits(Inverse1(r.row), c)))
                 /\ ~(r.attrs.order_reverse /\ ~direct /\ Fits(r.row, c)) /\ c.w = "exit" ->
                    [Emptied EXCEPT !.exits = TRUE]
              [] OTHER -> acc1

RECURSIVE Vectors(_, _, _, _, _)
Vectors(prefix, path, rules, direct, scope) ==
    IF path = <<>> THEN {prefix}
    ELSE LET end  == FoldLeft(LAMBDA acc, i : Step(acc, i, rules, Head(path), Len(path) = 1, direct, scope),
                              [lists |-> <<<<>>>>, entries |-> <<>>, exits |-> FALSE], [i \in DOMAIN rules |-> i])
         IN UNION {Vectors([weights |-> Append(prefix.weights, e.weight), at |-> Append(prefix.at, e.pos)],
                           Tail(path), end.lists[e.list], direct, scope) : e \in ToSet(end.entries)}
            \cup (IF end.exits THEN {[weights |-> Append(prefix.weights, Infinity), at |-> Append(prefix.at, Infinity)]} ELSE {})
            \cup (IF end.lists[Len(end.lists)] = <<>> THEN {prefix} ELSE {})

Lexicographic(a, b) ==
    \E n \in 0 .. Len(a) : /\ \A i \in 1 .. n : i <= Len(b) /\ a[i] = b[i]
                           /\ n < Len(b)
                           /\ n = Len(a) \/ a[n + 1] < b[n + 1]

(* The most precise place, then the nearest rules, then the first.         *)
GetOrder(rules, path, direct, scope) ==
    LET vectors == Vectors([weights |-> <<>>, at |-> <<>>], path, rules, direct, scope)
        Better(x, y) == \/ Len(x.at) > Len(y.at)
                        \/ Len(x.at) = Len(y.at) /\ Lexicographic(y.weights, x.weights)
                        \/ Len(x.at) = Len(y.at) /\ x.weights = y.weights /\ Lexicographic(x.at, y.at)
    IN IF vectors = {} THEN <<0>> ELSE (CHOOSE x \in vectors : \A y \in vectors : x = y \/ ~Better(y, x)).at

KeyBefore(a, aDirect, b, bDirect) == Lexicographic(a, b) \/ (a = b /\ ~aDirect /\ bDirect)
Precedes(rules, a, b, scope) ==
    LET ad == ~a[Len(a)].undo  bd == ~b[Len(b)].undo
    IN KeyBefore(GetOrder(rules, a, ad, scope), ad, GetOrder(rules, b, bd, scope), bd)

-----------------------------------------------------------------------------
(* RefTracker (annet.reference): which generator refers to which, and the  *)
(* configs of both, in the order ref_insert takes them.                    *)
(*                                                                         *)
(* A tracker is [nodes, edges, cfgs]: generators in the order they were    *)
(* met, node 1 the root, the set of edges between them, and the configs.   *)
Root == "root"
NewTracker == [nodes |-> <<Root>>, edges |-> {}, cfgs |-> <<>>]

AddCls(t, cls) == IF cls \in ToSet(t.nodes) THEN t ELSE [t EXCEPT !.nodes = Append(@, cls)]
Connect(t, ref, def) == [t EXCEPT !.edges = @ \cup {<<ref, def>>}]

(* add: a generator not met before hangs on the root.                      *)
AddRef(t, ref, def) ==
    LET known == IF ref \in ToSet(t.nodes) THEN t ELSE Connect(AddCls(t, ref), Root, ref)
    IN Connect(AddCls(known, def), ref, def)

ChildsOf(t, cls) == LET to == SelectSeq(t.nodes, LAMBDA n : <<cls, n>> \in t.edges)
                    IN [i \in DOMAIN to |-> <<cls, to[i]>>]

(* Graph.walk: edges level by level from the root, each once.              *)
RECURSIVE Bfs(_, _, _)
Bfs(t, run, seen) ==
    LET fresh == SelectSeq([i \in DOMAIN run |-> i],
                           LAMBDA i : run[i] \notin seen /\ \A j \in 1 .. i - 1 : run[j] # run[i])
        edges == [i \in DOMAIN fresh |-> run[fresh[i]]]
    IN IF run = <<>> THEN <<>>
       ELSE edges \o Bfs(t, FlattenSeq([i \in DOMAIN edges |-> ChildsOf(t, edges[i][2])]), seen \cup ToSet(edges))

(* configs: [ref, defs] of every edge whose ends both have a config.       *)
Configs(t) ==
    LET edges == SelectSeq(Bfs(t, ChildsOf(t, Root), {}),
                           LAMBDA e : e[1] # Root /\ e[1] # e[2] /\ {e[1], e[2]} \subseteq DOMAIN t.cfgs)
    IN [i \in DOMAIN edges |-> [ref |-> t.cfgs[edges[i][1]], defs |-> t.cfgs[edges[i][2]]]]

(* ref_insert: definitions, then references, then the rulebook.            *)
(* A mutant of RefInsert: references are inserted last, so come first.     *)
RefInsertSwapped(rules, configs) ==
    FlattenSeq([i \in DOMAIN configs |-> CompileOrder(configs[i].ref)])
    \o FlattenSeq([i \in DOMAIN configs |-> CompileOrder(configs[i].defs)]) \o rules
RefInsert(rules, configs) ==
    FlattenSeq([i \in DOMAIN configs |-> CompileOrder(configs[i].defs)])
    \o FlattenSeq([i \in DOMAIN configs |-> CompileOrder(configs[i].ref)]) \o rules
=============================================================================
