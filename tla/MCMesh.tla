-------------------------------- MODULE MCMesh --------------------------------
(* Three devices, two of them neighbours, and rules by what they try.      *)
EXTENDS MeshProps

DeviceNames == [a |-> [kind |-> Word(1), number |-> Int1(1), domain |-> Word(3)],
                b |-> [kind |-> Word(1), number |-> Int1(2), domain |-> Word(3)],
                c |-> [kind |-> Word(2), number |-> Int1(1), domain |-> Word(3)]]
Kinds   == {Word(1), Word(2)}
Numbers == {Int1(1), Int1(2)}
Domains == {Word(3)}

Mask(kinds, numbers, domains, captured) ==
    [parts |-> [kind |-> kinds, number |-> numbers, domain |-> domains], captured |-> captured]
Every     == Mask(Kinds, Numbers, Domains \cup {NoPart}, {"number"})
Hosts   == Mask({Word(1)}, Numbers, Domains, {"number"})
First   == Mask({Word(1)}, {Int1(1)}, Domains, {"number", "domain"})
Second  == Mask({Word(1)}, {Int1(2)}, Domains, {"number"})
Third   == Mask({Word(2)}, {Int1(1)}, Domains, {})
Short   == Mask({Word(1)}, Numbers, {NoPart}, {"number"})

LeftLess == Compares1("lt", Part(1, "number"), Part(2, "number"))

Ip(x)      == [ip |-> <<x>>, mask |-> 31]
Plain(h)   == [dotted |-> FALSE, high |-> 0, low |-> h]
Dotted(h, l) == [dotted |-> TRUE, high |-> h, low |-> l]
Fill(addr) == [Dto EXCEPT !.addr = addr]
Talk       == [Dto EXCEPT !.asnum = {Plain(1)}, !.families = {"v4"}]
Handler(l, r, s) == [left |-> l, right |-> r, session |-> s, byPort |-> FALSE]

Direct(l, r, match, h) == [left |-> l, right |-> r, match |-> match, handler |-> h, separate |-> FALSE]
Empty == [short |-> FALSE, global |-> <<>>, direct |-> <<>>, indirect |-> <<>>, virtual |-> <<>>, nested |-> <<>>]

ABA == <<[device |-> "a", backwards |-> FALSE], [device |-> "b", backwards |-> FALSE], [device |-> "a", backwards |-> TRUE]>>
ACA == <<[device |-> "a", backwards |-> FALSE], [device |-> "c", backwards |-> FALSE], [device |-> "a", backwards |-> TRUE]>>
OneLink  == {<<"a", "p1", "b", "q1">>}
TwoLinks == {<<"a", "p1", "b", "q2">>, <<"a", "p2", "b", "q1">>}
World1 == [ports |-> [a |-> <<"p1", "p2">>, b |-> <<"q1", "q2">>, c |-> <<"r1">>], links |-> OneLink, lost |-> {},
           registries |-> {Empty}, routemap |-> <<"P", "Q", "R">>, plan |-> ABA]

-----------------------------------------------------------------------------
(* Two rules for one pair, whose handlers agree or not.                    *)
Lefts  == {[Fill({Ip("a1")}) EXCEPT !.lag = x] : x \in {{}, {"1"}}}
              \cup {Fill({Ip("a2")}), Fill({}), Fill({Unnumbered}), Dto,
                    [Fill({Ip("a1")}) EXCEPT !.svi = {"1"}, !.import_policy = {"P"}],
                    [Fill({Ip("a1")}) EXCEPT !.import_policy = {"Q"}, !.family_options = {<<"loops", 1>>}],
                    [Dto EXCEPT !.family_options = {<<"loops", 2>>}]}
Rights == {Fill({Ip("b1")}), Fill({Ip("b2")}), Fill({[Ip("b1") EXCEPT !.mask = 30]}), Fill({Unnumbered}), Dto}
Talks  == {Dto, Talk, [Talk EXCEPT !.asnum = {Dotted(1, 0)}], [Talk EXCEPT !.vrf = {"v"}, !.families = {"v6"}],
           [Talk EXCEPT !.asnum = {Dotted(0, 4)}]}
OwnNumbers == {Handler([Fill({Ip("a1")}) EXCEPT !.asnum = x], [Fill({Ip("b1")}) EXCEPT !.asnum = {Plain(2)}], s) :
                   x \in {{}, {Plain(1)}}, s \in Talks}
First1 == {Handler(l, r, s) : l \in Lefts, r \in Rights, s \in Talks} \cup OwnNumbers
Second1 == {Handler(Fill({Ip("a1")}), Fill({Ip("b1")}), Talk),
            Handler([Fill({Ip("a1")}) EXCEPT !.lag = {"1"}], Fill({Ip("b1")}), Talk),
            Handler([Fill({Ip("a1")}) EXCEPT !.svi = {"1"}], Fill({Ip("b1")}), [Talk EXCEPT !.vrf = {"v"}]),
            Handler(Fill({Ip("a2")}), Fill({Ip("b2")}), Talk),
            Handler([Dto EXCEPT !.family_options = {<<"loops", 1>>}], Dto, Dto)}
Merging == [World1 EXCEPT !.registries =
    {[Empty EXCEPT !.direct = <<Direct(First, Second, <<>>, h), Direct(Hosts, Hosts, <<LeftLess>>, g)>>] :
        h \in First1, g \in Second1}]

-----------------------------------------------------------------------------
(* Two links: ports together or one by one, on every kind of interface; a  *)
(* second rule in an included registry with short names.                   *)
OnInterface == {Dto} \cup {[Dto EXCEPT !.lag = {"1"}], [Dto EXCEPT !.lag = {"0"}], [Dto EXCEPT !.svi = {"1"}], [Dto EXCEPT !.svi = {"0"}],
                           [Dto EXCEPT !.subif = {"5"}], [Dto EXCEPT !.lag = {"1"}, !.subif = {"5"}],
                           [Dto EXCEPT !.lag = {"1"}, !.svi = {"1"}]}
PortHandlers == {[Handler([x EXCEPT !.addr = {Ip("a1")}], [y EXCEPT !.addr = {Ip("b1")}], Talk) EXCEPT !.byPort = b] :
                     x \in OnInterface, y \in OnInterface, b \in BOOLEAN}
Included(rule) == [Empty EXCEPT !.short = TRUE, !.direct = <<rule>>]
LongRule  == {[Direct(First, Second, <<>>, h) EXCEPT !.separate = s] : h \in PortHandlers, s \in BOOLEAN}
ShortRule == {Direct(Short, Short, <<LeftLess>>, Handler(Fill({Ip("a1")}), Fill({Ip("b1")}), [Talk EXCEPT !.vrf = {"v"}])),
              Direct(Short, Short, <<>>, Handler([Fill({Ip("a1")}) EXCEPT !.lag = {"1"}],
                                                 [Fill({Ip("b1")}) EXCEPT !.lag = {"1"}], Talk)),
              Direct(Hosts, Hosts, <<>>, Handler(Dto, Dto, Talk))}
Ports == [World1 EXCEPT !.links = TwoLinks,
    !.registries = {[Empty EXCEPT !.direct = <<r>>, !.nested = <<Included(q)>>] : r \in LongRule, q \in ShortRule}]

-----------------------------------------------------------------------------
(* Peers that are not neighbours, and virtual ones.                        *)
IfNames == {<<>>, <<"p1">>, <<"svi", "1">>, <<"none">>}
Named(x, n) == IF n = <<>> THEN x ELSE [x EXCEPT !.ifname = {n}]
NonDirect == {Named([Fill({Ip("a3")}) EXCEPT !.svi = v, !.subif = s], n) :
                  v \in {{}, {"1"}}, s \in {{}, {"5"}}, n \in IfNames}
             \cup {[Fill({Ip("a3")}) EXCEPT !.lag = {"1"}], Dto}
Indirect(l, r, match, h) == Direct(l, r, match, h)
Virtual(m, h, num)   == [mask |-> m, match |-> <<>>, handler |-> h, num |-> num]
IndirectRules == {Indirect(First, Third, <<>>, Handler(x, Fill({Ip("c1")}), Talk)) : x \in NonDirect}
                 \cup {Indirect(Third, Every, <<Compares1("ne", Part(2, "number"), Value(Int1(2)))>>,
                                Handler(Fill({Ip("c1")}), x, Talk)) : x \in NonDirect}
SecondIndirect == {Indirect(Third, First, <<>>, Handler(Fill({Ip("c1")}), [Fill({Ip("a3")}) EXCEPT !.import_policy = {"Q"}], Dto)),
                   Indirect(First, Third, <<>>, Handler([Fill({Ip("a3")}) EXCEPT !.svi = {"1"}], Fill({Ip("c2")}),
                                                       [Talk EXCEPT !.vrf = {"v"}])),
                   Indirect(First, Third, <<>>, Handler(Named(Fill({Ip("a3")}), <<"svi", "1">>), Fill({Ip("c1")}), Talk))}
VirtualRules == {<<>>} \cup {<<Virtual(First, Handler(x, y, Talk), <<"10", "20">>)>> :
                    x \in {[Fill({Ip("a4")}) EXCEPT !.svi = {"1"}], Fill({Ip("a4")})}, y \in {Fill({Ip("v")}), Dto}}
Apart == [World1 EXCEPT !.plan = ACA,
    !.registries = {[Empty EXCEPT !.indirect = <<r, q>>, !.virtual = v] :
                        r \in IndirectRules, q \in SecondIndirect, v \in VirtualRules}]

-----------------------------------------------------------------------------
(* Handlers of the device itself, and policies by where they are named.    *)
Setting(vrf, group, family, field, v) == [path |-> Path(vrf, group, family, field), value |-> v]
GlobalHandler == {[settings |-> x, tuples |-> t] :
    x \in {{}, {Setting("", "g", "", "import_policy", "P")}, {Setting("", "g", "", "import_policy", "Q")},
           {Setting("v", "g", "", "export_policy", "Q")}, {Setting("v", "", "", "import_policy", "R")},
           {Setting("", "", "ipv4_unicast", "aggregate", "P"), Setting("", "", "", "router_id", "P")},
           {Setting("v", "", "ipv4_vpn_unicast", "export_policy", "R")},
           {Setting("v", "", "l2vpn_evpn", "export_policy", "R")}},
    t \in {<<>>, <<Setting("", "", "ipv6_unicast", "redistributes", "Q")>>,
           <<Setting("v", "", "ipv4_unicast", "aggregates", "R"), Setting("", "", "ipv4_vpn_unicast", "redistributes", "P")>>}}
GlobalRule(m, match, g) == [mask |-> m, match |-> match, globals |-> g]
IsFirst  == Compares1("eq", Part(1, "number"), Value(Int1(1)))
HasWord  == Compares1("lt", Part(1, "number"), Value(Word(3)))
NoSuch   == Compares1("eq", Part(1, "port"), Value(Int1(1)))
Filters  == {<<>>, <<Either(IsFirst, NoSuch)>>, <<Either(NoSuch, IsFirst)>>, <<Both(IsFirst, HasWord)>>,
             <<Compares1("ge", Part(1, "number"), Value(Int1(2)))>>}
Options == [World1 EXCEPT
    !.registries = {[Empty EXCEPT !.global = <<GlobalRule(Every, f, g)>>,
                                  !.nested = <<[Empty EXCEPT !.global = <<GlobalRule(Hosts, <<>>, h)>>,
                                                !.direct = <<Direct(First, Second, <<>>, Handler([Fill({Ip("a1")}) EXCEPT
                                                    !.import_policy = {"P"}], Fill({Ip("b1")}), Talk))>>]>>] :
                        f \in Filters, g \in GlobalHandler, h \in GlobalHandler}]

(* Both ends, each once.                                                   *)
Once1 == [Ports EXCEPT !.plan = SubSeq(ABA, 1, 2)]

(* A neighbour the storage does not know.                                  *)
Lost == [Ports EXCEPT !.lost = {"b"}, !.registries = {[Empty EXCEPT !.direct = <<r>>] : r \in LongRule}]

AllWorlds == [merging |-> Merging, ports |-> Ports, apart |-> Apart, options |-> Options, once |-> Once1,
              lost |-> Lost]
=============================================================================
