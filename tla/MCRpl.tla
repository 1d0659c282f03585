-------------------------------- MODULE MCRpl --------------------------------
(* What a user may write, by what it is about.                             *)
EXTENDS Rpl

List(n, type, members, logic) ==
    [name |-> n, type |-> type, members |-> members, logic |-> logic, regex |-> FALSE]
Net(n, ge, le) == [net |-> n, len |-> 2, ge |-> ge, le |-> le]

Store1 ==
    [comms    |-> <<List("A", "BASIC", <<"a", "b">>, "AND"), List("B", "BASIC", <<"b", "c">>, "OR"),
                    List("C", "BASIC", <<"c">>, "OR"),
                    List("R", "RT", <<"r">>, "OR"), List("Q", "RT", <<"r", "q">>, "AND"),
                    List("S", "SOO", <<"s">>, "OR"), List("L", "LARGE", <<"l">>, "AND"),
                    [List("X", "BASIC", <<"a">>, "OR") EXCEPT !.regex = TRUE]>>,
     prefixes |-> <<[name |-> "P", members |-> <<Net("n", Unset, Unset)>>],
                    [name |-> "O", members |-> <<Net("n", Unset, 4), Net("m", Unset, 4)>>],
                    [name |-> "M", members |-> <<Net("n", Unset, Unset), Net("m", Unset, 4)>>],
                    [name |-> "F", members |-> <<Net("n", 3, 3)>>],
                    [name |-> "V", members |-> <<Net("v", Unset, Unset)>>]>>,
     aspaths  |-> <<[name |-> "W", filters |-> <<"w">>], [name |-> "WW", filters |-> <<"w", "y">>]>>,
     rds      |-> <<[name |-> "D", number |-> "1", members |-> <<"d", "e">>],
                    [name |-> "E", number |-> "2", members |-> <<"e">>]>>]

Route1 == [comms |-> {}, net |-> "n", len |-> 2, v6 |-> FALSE, rds |-> {}, paths |-> {},
           path |-> <<"x">>, pref |-> 1, metric |-> 1, protocol |-> "bgp"]

Plain1 == [store |-> Store1, maps |-> <<<<"P">>>>, rules |-> {NoRules}, conds |-> {}, calls |-> {},
           numbers |-> {10}, names |-> {""}, results |-> {"allow"}, max |-> 1, routes |-> {Route1}]

CommRoutes(values) == {[Route1 EXCEPT !.comms = C] : C \in SUBSET values}
BasicValues == {<<"BASIC", "a">>, <<"BASIC", "b">>, <<"BASIC", "c">>}
OtherValues == {<<"RT", "r">>, <<"RT", "q">>, <<"SOO", "s">>, <<"LARGE", "l">>}

OfCommunities ==
    [Plain1 EXCEPT
        !.conds  = {Has("community", <<"A">>), Has("community", <<"A", "C">>),
                    HasAny("community", <<"A", "B">>), HasAny("community", <<"B">>),
                    HasAny("community", <<"A", "X">>), HasAny("community", <<"A", "R">>),
                    Has("extcommunity_rt", <<"R">>), HasAny("extcommunity_rt", <<"R", "Q">>),
                    HasAny("extcommunity_soo", <<"S">>), Has("large_community", <<"L">>),
                    HasAny("large_community", <<"L">>), Has("community", <<"none">>)},
        !.routes = CommRoutes(BasicValues \cup OtherValues)]

OfPrefixes ==
    [Plain1 EXCEPT
        !.conds  = {MatchPrefix("ip_prefix", <<"P">>, Unset, Unset), MatchPrefix("ip_prefix", <<"P">>, 3, 4),
                    MatchOrLonger("ip_prefix", <<"P">>), MatchPrefix("ip_prefix", <<"F", "P">>, Unset, Unset),
                    MatchOrLonger("ip_prefix", <<"F">>), MatchPrefix("ip_prefix", <<"O">>, 3, Unset),
                    MatchPrefix("ip_prefix", <<"O", "P">>, Unset, Unset), MatchPrefix("ip_prefix", <<"M">>, Unset, Unset),
                    MatchPrefix("ipv6_prefix", <<"V">>, Unset, Unset), MatchOrLonger("ipv6_prefix", <<"V">>),
                    MatchPrefix("ipv6_prefix", <<"P">>, Unset, Unset)},
        !.numbers = {10, 20}, !.max = 2, !.results = {"allow", "next_policy"},
        !.routes = {[Route1 EXCEPT !.net = n, !.len = l] : n \in {"n", "m"}, l \in 2 .. 4}
                   \cup {[Route1 EXCEPT !.net = "v", !.len = l, !.v6 = TRUE] : l \in 2 .. 6}]

OfNumbers ==
    [Plain1 EXCEPT
        !.conds  = {Compare("as_path_length", op, n) : op \in {"ge", "le", "gt"}, n \in {1, 2}}
                   \cup {Compare("local_pref", op, 2) : op \in {"le", "ge", "lt", "eq"}}
                   \cup {Compare("metric", "eq", 1), EqualTo("protocol", "bgp"),
                         EqualTo("as_path_filter", "W"), EqualTo("as_path_filter", "WW"),
                         Has("rd", <<"D">>), HasAny("rd", <<"D", "E">>), Has("rd", <<"D", "E">>)},
        !.routes = {[Route1 EXCEPT !.path = p, !.pref = n, !.paths = w, !.rds = d] :
                        p \in {<<>>, <<"x">>, <<"x", "x">>, <<"x", "x", "x">>}, n \in 1 .. 3,
                        w \in {{}, {<<"w">>}}, d \in {{}, {"d"}, {"e"}}}]

CallOf(m, f, names) == [m |-> m, field |-> f, names |-> names, num |-> 0]
NumCall(m, f, n)    == [m |-> m, field |-> f, names |-> <<>>, num |-> n]

OfActions ==
    [Plain1 EXCEPT
        !.calls  = {CallOf("set", "community", <<>>), CallOf("set", "community", <<"A">>),
                    CallOf("add", "community", <<"B">>), CallOf("add", "community", <<"C">>),
                    CallOf("remove", "community", <<"A">>), CallOf("remove", "community", <<"C">>),
                    CallOf("set", "large_community", <<"L">>), CallOf("add", "large_community", <<"L">>),
                    CallOf("remove", "large_community", <<"L">>),
                    CallOf("set", "extcommunity", <<"R">>), CallOf("set", "extcommunity", <<>>),
                    CallOf("add", "extcommunity", <<"Q">>), CallOf("add", "extcommunity", <<"S">>),
                    CallOf("remove", "extcommunity", <<"R">>), CallOf("add", "extcommunity_rt", <<"R">>),
                    CallOf("remove", "extcommunity_rt", <<"Q">>), CallOf("add", "extcommunity_soo", <<"S">>),
                    CallOf("prepend", "as_path", <<"x", "x">>), CallOf("prepend", "as_path", <<"y">>),
                    CallOf("set", "as_path", <<"y">>), CallOf("delete", "as_path", <<"x">>),
                    CallOf("last", "as_path", <<"2">>), CallOf("expand", "as_path", <<"x">>),
                    CallOf("target", "next_hop", <<"self">>), CallOf("target", "next_hop", <<"peer">>),
                    NumCall("set_field", "metric", 5), NumCall("add_metric", "metric", 2),
                    NumCall("set_field", "local_pref", 3), NumCall("set_field", "mpls_label", 1)},
        !.routes = CommRoutes(BasicValues \cup OtherValues)]

OfTerms ==
    [Plain1 EXCEPT
        !.maps    = <<<<"P", "Q">>, <<"R">>>>, !.rules = {{"R"}, {"P"}, {}},
        !.conds   = {Has("community", <<"C">>), Has("extcommunity_rt", <<"R">>)},
        !.numbers = {Unset, 10, 20}, !.names = {"", "t"},
        !.results = {"allow", "deny", "next"}, !.max = 2,
        !.routes  = CommRoutes({<<"BASIC", "c">>, <<"RT", "r">>})]

AllSubjects == [communities |-> OfCommunities, prefixes |-> OfPrefixes, numbers |-> OfNumbers,
                actions |-> OfActions, terms |-> OfTerms]
AllVendors == {"huawei", "arista", "iosxr", "juniper", "cumulus"}
=============================================================================
