------------------------------ MODULE RplActions -----------------------------
(***************************************************************************)
(* The actions of a statement in the words of each vendor, the statements  *)
(* as terms, and the policies of a device.  annet.rpl_generators.policy    *)
(* and cumulus_frr.                                                        *)
(***************************************************************************)
EXTENDS RplVendors

NoRow == [what |-> "", how |-> "", scope |-> {}, vals |-> {}, kind |-> "", names |-> <<>>,
          items |-> <<>>, num |-> 0]

(* Communities: written out, or by their lists.                            *)
Literal(how, scope, vals) == [NoRow EXCEPT !.what = "comm", !.how = how, !.scope = scope, !.vals = vals]
ByLists(how, scope, kind, names) ==
    [NoRow EXCEPT !.what = "comm", !.how = how, !.scope = scope, !.kind = kind, !.names = names]
Path(how, items)     == [NoRow EXCEPT !.what = "as_path", !.how = how, !.items = items]
PathEach(how, items) == Rows(items, LAMBDA x : Path(how, <<x>>))
Number(what, how, n) == [NoRow EXCEPT !.what = what, !.how = how, !.num = n]

MembersAs(store, type, names) ==
    UNION {{<<type, m>> : m \in ToSet(Named(store.comms, n).members)} : n \in ToSet(names)}
TypesOf(store, names) == {Named(store.comms, n).type : n \in ToSet(names)}
OfType(store, names, type) == Those(names, LAMBDA n : Named(store.comms, n).type = type)

(* group_community_members and the rendering of each group.                *)
ByType(store, how, names) ==
    FlattenSeq(Rows(<<"RT", "SOO">>, LAMBDA t :
        If(OfType(store, names, t) # <<>>, <<Literal(how, {t}, MembersAs(store, t, OfType(store, names, t)))>>)))
OwnTypes(store, names) == UNION {MembersAs(store, Named(store.comms, n).type, <<n>>) : n \in ToSet(names)}

Mixed(v)        == v.replaced /\ (v.added # <<>> \/ v.removed # <<>>)
NotExt(store, v) == TypesOf(store, v.set \o v.added \o v.removed) \cap {"BASIC", "LARGE"} # {}
PlainAction(vendor, a) == a.type = "set" /\ a.field \in ThenMap[vendor]
Setting(a)      == <<Number(a.field, a.type, a.v.num)>>
NextHop(a, silent) == If(a.v.set[1] \notin silent, <<[NoRow EXCEPT !.what = "next_hop", !.items = a.v.set]>>)

-----------------------------------------------------------------------------
(* Huawei.  The branch of next_hop falls through to the test of the type.  *)
HuaweiThenRaises(store, a) ==
    LET v == a.v
    IN CASE a.field \in {"community", "large_community"} -> Mixed(v)
         [] a.field = "extcommunity_rt"  -> v.replaced
         [] a.field = "extcommunity_soo" -> v.replaced \/ v.removed # <<>>
         [] a.field = "extcommunity"     ->
                \/ Mixed(v) \/ NotExt(store, v) \/ v.removed # <<>>
                \/ v.replaced /\ (v.set = <<>> \/ "SOO" \in TypesOf(store, v.set))
         [] a.field = "metric"           -> FALSE
         [] a.field = "as_path"          -> Mixed([v EXCEPT !.removed = <<>>]) \/ v.expand # <<>> \/ v.last # <<>>
         [] a.field = "next_hop"         -> TRUE
         [] OTHER                        -> ~PlainAction("huawei", a)

HuaweiThen(store, a) ==
    LET v == a.v
    IN CASE a.field = "community" ->
                If(v.replaced, <<Literal("set", {"BASIC"}, MembersAs(store, "BASIC", v.set))>>)
                \o If(v.added # <<>>, <<Literal("add", {"BASIC"}, MembersAs(store, "BASIC", v.added))>>)
                \o Rows(v.removed, LAMBDA n : ByLists("del", {"BASIC"}, "BASIC", <<Single(n)>>))
         [] a.field = "large_community" ->
                If(v.replaced, <<Literal("set", {"LARGE"}, MembersAs(store, "LARGE", v.set))>>)
                \o If(v.added # <<>>, <<Literal("add", {"LARGE"}, MembersAs(store, "LARGE", v.added))>>)
                \o If(v.removed # <<>>, <<Literal("del", {"LARGE"}, MembersAs(store, "LARGE", v.removed))>>)
         [] a.field = "extcommunity_rt" ->
                If(v.added # <<>>, <<Literal("add", {"RT"}, MembersAs(store, "RT", v.added))>>)
                \o Rows(v.removed, LAMBDA n : ByLists("del", {"RT"}, "RT", <<Single(n)>>))
         [] a.field = "extcommunity_soo" -> <<Literal("add", {"RT"}, MembersAs(store, "RT", v.added))>>
         [] a.field = "extcommunity" -> ByType(store, "set", v.set) \o ByType(store, "add", v.added)
         [] a.field = "as_path" ->
                If(v.replaced, <<Path("set", v.set)>>) \o If(v.added # <<>>, <<Path("prepend", v.added)>>)
                \o PathEach("delete", v.removed)
         [] OTHER -> Setting(a)

-----------------------------------------------------------------------------
(* Arista.  What extcommunity_rt and extcommunity_soo add is read from     *)
(* what they remove.                                                       *)
AristaThenRaises(store, a) ==
    LET v == a.v
    IN CASE a.field \in {"community", "large_community"} -> Mixed(v)
         [] a.field \in {"extcommunity_rt", "extcommunity_soo"} -> v.replaced
         [] a.field = "extcommunity" -> Mixed(v) \/ NotExt(store, v)
         [] a.field = "as_path"      -> Mixed(v) \/ v.expand # <<>> \/ v.removed # <<>>
         [] a.field \in {"metric", "next_hop"} -> FALSE
         [] OTHER -> ~PlainAction("arista", a)

AristaThen(store, a) ==
    LET v == a.v
    IN CASE a.field = "community" ->
                If(v.replaced, <<ByLists("set", {"BASIC"}, "BASIC", Rows(v.set, Single))>>)
                \o If(v.added # <<>>, <<ByLists("add", {"BASIC"}, "BASIC", Rows(v.added, Single))>>)
                \o If(v.removed # <<>>, <<Literal("del", {"BASIC"}, MembersAs(store, "BASIC", v.removed))>>)
         [] a.field = "large_community" ->
                If(v.replaced /\ v.set = <<>>, <<ByLists("set", {"LARGE"}, "LARGE", <<>>)>>)
                \o [i \in DOMAIN v.set |->
                        ByLists(IF i = 1 THEN "set" ELSE "add", {"LARGE"}, "LARGE", <<Single(v.set[i])>>)]
                \o If(v.added # <<>>, <<ByLists("add", {"LARGE"}, "LARGE", Rows(v.added, Single))>>)
                \o If(v.removed # <<>>, <<ByLists("del", {"LARGE"}, "LARGE", Rows(v.removed, Single))>>)
         [] a.field \in {"extcommunity_rt", "extcommunity_soo"} ->
                LET t == TypeOf[a.field]
                IN If(v.added # <<>>, <<Literal("add", {t}, MembersAs(store, t, v.removed))>>)
                   \o If(v.removed # <<>>, <<Literal("del", {t}, MembersAs(store, t, v.removed))>>)
         [] a.field = "extcommunity" ->
                If(v.replaced, <<Literal("set", IF v.set = <<>> THEN {"RT", "SOO"} ELSE TypesOf(store, v.set),
                                              OwnTypes(store, v.set))>>)
                \o If(v.added # <<>>, <<Literal("add", {"RT", "SOO"}, OwnTypes(store, v.added))>>)
                \o If(v.removed # <<>>, <<Literal("del", {"RT", "SOO"}, OwnTypes(store, v.removed))>>)
         [] a.field = "as_path" ->
                If(v.replaced, <<Path("set", v.set)>>) \o If(v.added # <<>>, <<Path("prepend", v.added)>>)
                \o If(v.last # <<>>, <<Path("last", v.last)>>)
         [] a.field = "next_hop" -> NextHop(a, {"discard", "peer"})
         [] OTHER -> Setting(a)

-----------------------------------------------------------------------------
(* Cumulus.  What large and extended communities add is the list's name.   *)
CumulusThenRaises(store, a) ==
    LET v == a.v
    IN CASE a.field = "community" -> Mixed(v)
         [] a.field \in {"large_community", "extcommunity_rt", "extcommunity_soo"} ->
                v.replaced \/ v.removed # <<>>
         [] a.field = "extcommunity" -> v.added # <<>> \/ v.removed # <<>> \/ NotExt(store, v)
         [] a.field = "as_path"      -> v.expand # <<>>
         [] a.field \in {"metric", "next_hop"} -> FALSE
         [] OTHER -> ~PlainAction("cumulus", a)

CumulusThen(store, a) ==
    LET v == a.v
    IN CASE a.field = "community" ->
                If(v.replaced, <<Literal("set", {"BASIC"}, MembersAs(store, "BASIC", v.set))>>)
                \o If(v.added # <<>>, <<Literal("add", {"BASIC"}, MembersAs(store, "BASIC", v.added))>>)
                \o Rows(v.removed, LAMBDA n : ByLists("del", {"BASIC"}, "BASIC", <<Single(n)>>))
         [] a.field \in {"large_community", "extcommunity_rt", "extcommunity_soo"} ->
                Rows(v.added, LAMBDA n : Literal("add", {TypeOf[a.field]}, {<<TypeOf[a.field], n>>}))
         [] a.field = "extcommunity" ->
                IF v.set = <<>> THEN <<Literal("set", {"RT", "SOO"}, {})>> ELSE ByType(store, "set", v.set)
         [] a.field = "as_path" ->
                PathEach("prepend", v.added) \o PathEach("delete", v.removed)
                \o If(v.replaced, <<Path("set", <<>>)>>) \o PathEach("prepend", v.set)
                \o If(v.last # <<>>, <<Path("last", v.last)>>)
         [] a.field = "next_hop" -> NextHop(a, {"discard", "peer"})
         [] OTHER -> Setting(a)

-----------------------------------------------------------------------------
(* IOS XR: replacing is deleting all and adding.                           *)
IosxrThenRaises(store, a) ==
    LET v == a.v
    IN CASE a.field \in {"community", "metric", "next_hop"} -> FALSE
         [] a.field = "extcommunity" -> TypesOf(store, v.set \o v.added \o v.removed) \ {"RT"} # {}
         [] a.field = "as_path" -> v.replaced \/ v.expand # <<>> \/ v.removed # <<>> \/ v.last # <<>>
         [] OTHER -> ~PlainAction("iosxr", a)

IosxrThen(a) ==
    LET v     == a.v
        type  == IF a.field = "community" THEN "BASIC" ELSE "RT"
    IN CASE a.field \in {"community", "extcommunity"} ->
                If(v.replaced, <<Literal("set", {type}, {})>>)
                \o Rows(v.set \o v.added, LAMBDA n : ByLists("add", {type}, type, <<Single(n)>>))
                \o Rows(v.removed, LAMBDA n : ByLists("del", {type}, type, <<Single(n)>>))
         [] a.field = "as_path"  -> PathEach("prepend", v.added)
         [] a.field = "next_hop" -> NextHop(a, {"peer"})
         [] OTHER -> Setting(a)

-----------------------------------------------------------------------------
(* Juniper: delete, set, add, of all communities; then next-hop, as-path   *)
(* and the rest.                                                           *)
CommunityActions == {"community", "large_community", "extcommunity", "extcommunity_rt", "extcommunity_soo"}

JuniperThenRaises(a) ==
    LET v == a.v
    IN CASE a.field \in CommunityActions -> v.replaced /\ v.set = <<>>
         [] a.field = "as_path"  -> (v.expand # <<>> /\ v.last # <<>>) \/ v.replaced \/ v.removed # <<>>
         [] a.field = "next_hop" -> FALSE
         [] OTHER -> ~PlainAction("juniper", a)

JuniperThen(store, a) ==
    LET v == a.v
        by(how, names) == Rows(names, LAMBDA n : ByLists(how, TypesOf(store, <<n>>), "community", <<Single(n)>>))
    IN CASE a.field \in CommunityActions -> by("del", v.removed) \o by("set", v.set) \o by("add", v.added)
         [] a.field = "as_path" ->
                If(v.added # <<>>, <<Path("prepend", v.added)>>) \o If(v.expand # <<>>, <<Path("expand", v.expand)>>)
                \o If(v.last # <<>>, <<Path("last", v.last)>>)
         [] a.field = "next_hop" -> NextHop(a, {})
         [] OTHER -> Setting(a)

JuniperSorted(then) ==
    Those(then, LAMBDA a : a.field \in CommunityActions)
        \o Those(then, LAMBDA a : a.field = "next_hop")
        \o Those(then, LAMBDA a : a.field = "as_path")
        \o Those(then, LAMBDA a : a.field \notin CommunityActions \cup {"next_hop", "as_path"})

-----------------------------------------------------------------------------
ThenRaises(vendor, store, then) ==
    \E i \in DOMAIN then :
        CASE vendor = "huawei"  -> HuaweiThenRaises(store, then[i])
          [] vendor = "arista"  -> AristaThenRaises(store, then[i])
          [] vendor = "cumulus" -> CumulusThenRaises(store, then[i])
          [] vendor = "iosxr"   -> IosxrThenRaises(store, then[i])
          [] vendor = "juniper" -> JuniperThenRaises(then[i])

ThenRows(vendor, store, then) ==
    FlattenSeq(Rows(IF vendor = "juniper" THEN JuniperSorted(then) ELSE then, LAMBDA a :
        CASE vendor = "huawei"  -> HuaweiThen(store, a)
          [] vendor = "arista"  -> AristaThen(store, a)
          [] vendor = "cumulus" -> CumulusThen(store, a)
          [] vendor = "iosxr"   -> IosxrThen(a)
          [] vendor = "juniper" -> JuniperThen(store, a)))

(* A term is [number, name, match, body]: the last row of its body says    *)
(* the result.  The rows of an unconditional statement of IOS XR stand by  *)
(* themselves.                                                             *)
Numbered == {"huawei", "arista", "cumulus"}
Says(result) == [NoRow EXCEPT !.what = "result", !.how = result]

StatementRaises(vendor, store, s) ==
    \/ vendor \in Numbered /\ s.number = Unset
    \/ s.result = "next_policy"
    \/ MatchRaises(vendor, s.match)
    \/ ThenRaises(vendor, store, s.then)

Terms(vendor, store, s, n) ==
    LET match == MatchRows(vendor, store, s.match)
        body  == Append(ThenRows(vendor, store, s.then), Says(s.result))
        term(b) == [number |-> IF vendor = "iosxr" THEN 0 ELSE n,
                    name |-> IF vendor = "juniper" THEN s.name ELSE "", match |-> match, body |-> b]
    IN IF vendor = "iosxr" /\ match = <<>> THEN Rows(body, LAMBDA row : term(<<row>>)) ELSE <<term(body)>>

(* _juniper_statements: a statement without a number has the next one.     *)
TermNumbers(statements) ==
    [i \in DOMAIN statements |->
        LET given == {j \in 1 .. i : statements[j].number # Unset}
        IN IF given = {} THEN i - 1 ELSE statements[Max(given)].number + i - Max(given)]

(* The text is read into a tree: blocks with one header become one block   *)
(* where the first was, equal rows of a block one row.  FRR's stays text.  *)
Header(vendor, t) ==
    CASE vendor = "iosxr" -> [t EXCEPT !.body = IF t.match = <<>> THEN @ ELSE <<>>]
      [] vendor = "juniper" /\ t.name # "" -> [t EXCEPT !.number = 0, !.match = <<>>, !.body = <<>>]
      [] OTHER -> [t EXCEPT !.match = <<>>, !.body = <<>>]

Distinct(rows) ==
    Collect([n \in DOMAIN rows |-> n], LAMBDA n : IF \E m \in 1 .. n - 1 : rows[m] = rows[n] THEN <<>> ELSE <<rows[n]>>)

OneBlock(vendor, terms, i) == {j \in DOMAIN terms : Header(vendor, terms[j]) = Header(vendor, terms[i])}
United(vendor, terms, i) ==
    LET All(Of1(_)) == Distinct(FlattenSeq([j \in DOMAIN terms |->
                          IF j \in OneBlock(vendor, terms, i) THEN Of1(terms[j]) ELSE <<>>]))
    IN [terms[i] EXCEPT !.match = All(LAMBDA t : t.match), !.body = All(LAMBDA t : t.body)]

ReadBack(vendor, terms) ==
    IF vendor = "cumulus" THEN terms
    ELSE Collect([i \in DOMAIN terms |-> i],
                 LAMBDA i : IF i = Min(OneBlock(vendor, terms, i)) THEN <<United(vendor, terms, i)>> ELSE <<>>)

PolicyTerms(vendor, store, policy) ==
    ReadBack(vendor, FlattenSeq([i \in DOMAIN policy.statements |->
        Terms(vendor, store, policy.statements[i], TermNumbers(policy.statements)[i])]))

PoliciesRaise(vendor, store, policies) ==
    \E s \in Statements(policies) : StatementRaises(vendor, store, s)

Policies(vendor, store, policies) ==
    [i \in DOMAIN policies |-> [name |-> policies[i].name, terms |-> PolicyTerms(vendor, store, policies[i])]]
=============================================================================
