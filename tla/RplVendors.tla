----------------------------- MODULE RplVendors -----------------------------
(***************************************************************************)
(* Statements in the words of each vendor: annet.rpl_generators.policy and *)
(* cumulus_frr.                                                            *)
(*                                                                         *)
(* A match row is [kind, names, join, every, op, lo, hi]: it refers to the *)
(* lists names of a kind (joined by "and" or by "or"; every: those whose   *)
(* entries must all match), or compares the attribute kind.  A then row is [what, how, scope, vals, kind, names, items, num]: *)
(* how the attribute what changes; for communities, of which types         *)
(* (scope), to which values and to those of which lists.                   *)
(***************************************************************************)
EXTENDS RplLists

If(test, rows)   == IF test THEN rows ELSE <<>>
Rows(seq, Op(_)) == [i \in DOMAIN seq |-> Op(seq[i])]

Refers(kind, names, join, every) ==
    [kind |-> kind, names |-> names, join |-> join, every |-> every, op |-> "", lo |-> 0, hi |-> 0]
Refer(kind, name)      == Refers(kind, <<name>>, "and", {})
Test(kind, op, lo, hi) ==
    [kind |-> kind, names |-> <<>>, join |-> "and", every |-> {}, op |-> op, lo |-> lo, hi |-> hi]
Is(kind, word)         == [Refer(kind, Single(word)) EXCEPT !.op = "eq"]

(* A comparison written with one operator per row.                         *)
Compares(c) ==
    IF c.op = "between" THEN <<Test(c.field, "ge", c.lo, 0), Test(c.field, "le", c.hi, 0)>>
                        ELSE <<Test(c.field, c.op, c.lo, 0)>>

TypeOf == [community        |-> "BASIC", large_community  |-> "LARGE",
           extcommunity_rt  |-> "RT",    extcommunity_soo |-> "SOO"]

(* The fields each vendor matches with EQ and a plain word, and those it   *)
(* sets with one.                                                          *)
MatchMap ==
    [huawei  |-> {"as_path_filter", "metric", "protocol", "interface"},
     arista  |-> {"as_path_filter", "metric", "protocol", "interface"},
     cumulus |-> {"as_path_filter", "metric", "protocol", "interface"},
     iosxr   |-> {"as_path_filter", "protocol"},
     juniper |-> {"as_path_filter", "metric", "protocol", "local_pref"}]

ThenMap ==
    [huawei  |-> {"local_pref", "metric_type", "mpls_label", "origin", "tag"},
     arista  |-> {"local_pref", "metric_type", "origin", "tag"},
     cumulus |-> {"local_pref", "metric_type", "origin", "tag"},
     iosxr   |-> {"local_pref", "metric_type", "origin", "tag"},
     juniper |-> {"local_pref", "metric", "origin", "tag"}]

Plainly(c) == IF c.field = "as_path_filter" THEN <<Refer("as-path", c.names)>>
              ELSE IF c.names = <<>> THEN <<Test(c.field, "eq", c.lo, 0)>>
              ELSE <<Is(c.field, c.names[1])>>
NotPlain(vendor, c) == c.op # "eq" \/ c.field \notin MatchMap[vendor]

PrefixRows(vendor, store, c) ==
    Rows(c.names, LAMBDA n : Refer(PrefixKind(vendor, store, n, c), PrefixName(vendor, store, n, c)))

IsCommunity(c) == c.field \in CommunityFields
OfPrefix(c)    == c.field \in {"ip_prefix", "ipv6_prefix"}

-----------------------------------------------------------------------------
OfLogicAnd(store, names) ==
    {Single(n) : n \in {m \in ToSet(names) : Named(store.comms, m).logic = "AND"}}

(* Matching.  Huawei: of several filters of a kind any may match, where    *)
(* the generator refuses HAS, or all must, where it refuses HAS_ANY.       *)
HuaweiMatchRaises(c) ==
    CASE c.field \in {"community", "extcommunity_rt"}         -> c.op = "has" /\ Len(c.names) > 1
      [] c.field \in {"large_community", "extcommunity_soo"}  -> c.op = "has_any" /\ Len(c.names) > 1
      [] c.field = "rd"                                       -> Len(c.names) # 1
      [] OfPrefix(c) \/ c.field = "as_path_length"            -> FALSE
      [] OTHER                                                -> NotPlain("huawei", c)

HuaweiMatch(store, c) ==
    CASE IsCommunity(c) ->
             Rows(c.names, LAMBDA n : [Refer(TypeOf[c.field], Single(n)) EXCEPT
                 !.every = IF c.field = "extcommunity_rt" THEN OfLogicAnd(store, <<n>>) ELSE {}])
      [] c.field = "rd"             -> <<Refer("rd", Single(Named(store.rds, c.names[1]).number))>>
      [] OfPrefix(c)                -> PrefixRows("huawei", store, c)
      [] c.field = "as_path_length" ->
             IF c.op = "between" THEN <<Test(c.field, "between", c.lo, c.hi)>> ELSE Compares(c)
      [] OTHER                      -> Plainly(c)

(* Arista and Cumulus: HAS_ANY refers to the united list.                  *)
UnitedMatchRaises(vendor, c) ==
    CASE IsCommunity(c) \/ OfPrefix(c) -> FALSE
      [] c.field = "as_path_length"    -> vendor = "cumulus"
      [] OTHER                         -> NotPlain(vendor, c)

UnitedMatch(vendor, store, c) ==
    LET kind == KindOf(vendor, TypeOf[c.field])
    IN CASE IsCommunity(c) /\ c.op = "has_any" -> <<Refer(kind, Mangle(c.names))>>
         [] IsCommunity(c) /\ c.op # "has_any" ->
                IF vendor = "arista" THEN <<Refers(kind, Rows(c.names, Single), "and", {})>>
                ELSE Rows(c.names, LAMBDA n : Refer(kind, Single(n)))
         [] OfPrefix(c)                -> PrefixRows(vendor, store, c)
         [] c.field = "as_path_length" -> Compares(c)
         [] OTHER                      -> Plainly(c)

(* IOS XR: one expression; matches-every or matches-any by the logic of    *)
(* the list.                                                               *)
IosxrMatchRaises(c) ==
    CASE c.field \in {"community", "extcommunity_rt", "extcommunity_soo", "rd"} -> FALSE
      [] c.field \in {"local_pref", "as_path_length"}                           -> c.op = "lt"
      [] OfPrefix(c)                                                            -> FALSE
      [] OTHER                                                                  -> NotPlain("iosxr", c)

Joined(c) == IF c.op = "has" THEN "and" ELSE "or"

IosxrMatch(store, c) ==
    CASE IsCommunity(c) -> <<Refers(TypeOf[c.field], Rows(c.names, Single), Joined(c), OfLogicAnd(store, c.names))>>
      [] c.field = "rd" -> <<Refers("rd", Rows(c.names, Single), Joined(c), {})>>
      [] OfPrefix(c)    -> <<Refers("prefix-set", Rows(c.names, LAMBDA n : PrefixName("iosxr", store, n, c)), Joined(c), {})>>
      [] c.field \in {"local_pref", "as_path_length"} -> Compares(c)
      [] OTHER          -> Plainly(c)

(* Juniper: the conditions of a statement by kind; communities of every    *)
(* type in one bracket.                                                    *)
NamesIn(conds)         == FlattenSeq(Rows(conds, LAMBDA c : c.names))
NotOnlyAny(conds)      == \E i \in DOMAIN conds : conds[i].op # "has_any"
IsRd(c)                == c.field = "rd"
IsLength(c)            == c.field = "as_path_length"
IsSimple(c)            == ~(IsCommunity(c) \/ OfPrefix(c) \/ IsRd(c) \/ IsLength(c))

JuniperMatchRaises(match) ==
    \/ Len(NamesIn(Those(match, IsCommunity))) > 1 /\ NotOnlyAny(Those(match, IsCommunity))
    \/ Len(Those(match, OfPrefix)) > 1 /\ NotOnlyAny(Those(match, OfPrefix))
    \/ Len(NamesIn(Those(match, IsRd))) > 1 /\ NotOnlyAny(Those(match, IsRd))
    \/ \E i \in DOMAIN match : IsSimple(match[i]) /\ NotPlain("juniper", match[i])

Bracket(kind, conds) ==
    If(conds # <<>>, <<Refers(kind, Rows(NamesIn(conds), Single), "or", {})>>)

JuniperMatch(store, match) ==
    Bracket("community", Those(match, IsCommunity))
        \o FlattenSeq(Rows(Those(match, OfPrefix), LAMBDA c :
              [j \in DOMAIN c.names |->
                  LET n == c.names[j]
                  IN [Refer(JuniperType(store, n, c), JuniperPrefix(store, n, c).name) EXCEPT
                          !.op = IF JuniperType(store, n, c) = "prefix-list" THEN FlavourOf(store, n, c) ELSE ""]]))
        \o FlattenSeq(Rows(Those(match, IsLength), Compares))
        \o Bracket("rd", Those(match, IsRd))
        \o FlattenSeq(Rows(Those(match, IsSimple), Plainly))

MatchRaises(vendor, match) ==
    IF vendor = "juniper" THEN JuniperMatchRaises(match)
    ELSE \E i \in DOMAIN match :
            CASE vendor = "huawei" -> HuaweiMatchRaises(match[i])
              [] vendor = "iosxr"  -> IosxrMatchRaises(match[i])
              [] OTHER             -> UnitedMatchRaises(vendor, match[i])

MatchRows(vendor, store, match) ==
    IF vendor = "juniper" THEN JuniperMatch(store, match)
    ELSE FlattenSeq(Rows(match, LAMBDA c :
            CASE vendor = "huawei" -> HuaweiMatch(store, c)
              [] vendor = "iosxr"  -> IosxrMatch(store, c)
              [] OTHER             -> UnitedMatch(vendor, store, c)))
=============================================================================
