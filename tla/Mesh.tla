--------------------------------- MODULE Mesh ---------------------------------
(***************************************************************************)
(* MeshExecutor.execute_for, for one device after another: the handlers of *)
(* the rules run, what they filled is merged into sessions, the interfaces *)
(* of the sessions are made on the device, and a BGP configuration comes   *)
(* of it; rpl_generators.get_policies then asks a RouteMap for the         *)
(* policies the configuration names.                                       *)
(*                                                                         *)
(* The devices are Netbox's: their interfaces stay as one execution leaves *)
(* them for the next.                                                      *)
(***************************************************************************)
EXTENDS MeshModels

CONSTANTS
    Names,          \* of devices, their parts
    Worlds          \* [ports, links, lost, registries, routemap, plan]: what to execute, on what

(* What is written one after the other is a sequence, and so is the name   *)
(* of an interface a handler gives; what a handler fills are the fields of *)
(* peers, or policies where the models have them, what is executed are     *)
(* devices the storage has, and no port has the name of a lag.             *)
ASSUME WorldsAssumption ==
    \A x \in DOMAIN Worlds : LET v == Worlds[x] IN
        /\ IsList(v.plan) /\ \A t \in DOMAIN v.plan : v.plan[t].device \in DOMAIN v.ports
        /\ IsFiniteSet(DOMAIN v.ports)
        /\ \A d \in DOMAIN v.ports : IsList(v.ports[d]) /\ "lag" \notin ToSet(v.ports[d])
        /\ \A reg \in v.registries : IsList(reg.nested)
               /\ \A g \in ToSet(Registries(reg)) :
                      /\ IsList(g.global) /\ IsList(g.direct) /\ IsList(g.indirect) /\ IsList(g.virtual)
                      /\ \A rule \in ToSet(g.global) :
                             /\ IsList(rule.globals.tuples)
                             /\ \A y \in rule.globals.settings : y.path.field \in PolicyFields => IsPolicyPath(y.path)
                      /\ \A rule \in ToSet(g.direct) : LET h == rule.handler IN
                             DOMAIN h.left = PeerFields /\ DOMAIN h.right = PeerFields
                      /\ \A rule \in ToSet(g.virtual) : IsList(rule.num)
                      /\ \A rule \in ToSet(g.indirect) : LET h == rule.handler IN
                             \A n \in h.left.ifname \cup h.right.ifname \cup h.session.ifname : IsList(n)

VARIABLES
    world,          \* which world
    registry,       \* its rules
    turn,           \* the execution, of the plan
    interfaces,     \* of every device: [lag, addrs, vrf, links] by name
    stage,          \* of execute_for
    jobs,           \* rules and ports of this stage, not run yet
    pairs,          \* found by this stage, with their keys, not applied yet
    globals,
    peers,
    made,           \* ghost: the pair each peer was made of
    results         \* of the executions

vars == <<world, registry, turn, interfaces, stage, jobs, pairs, globals, peers, made, results>>

w    == Worlds[world]
me   == w.plan[turn].device
Backwards(reg) ==
    [short |-> reg.short, nested |-> reg.nested, direct |-> Reverse(reg.direct), indirect |-> Reverse(reg.indirect),
     virtual |-> Reverse(reg.virtual), global |-> Reverse(reg.global)]
rules == IF w.plan[turn].backwards THEN Backwards(registry) ELSE registry

-----------------------------------------------------------------------------
(* The storage: connections in the order of a device's ports.              *)
Ends(d, p) == {<<e[3], e[4]>> : e \in {l \in w.links : l[1] = d /\ l[2] = p}}
                  \cup {<<e[1], e[2]>> : e \in {l \in w.links : l[3] = d /\ l[4] = p}}
NeighborsOf(d) == Collect(w.ports[d], LAMBDA p : IF Ends(d, p) = {} THEN <<>> ELSE <<(CHOOSE e \in Ends(d, p) : TRUE)[1]>>)
Connections(d, n) ==
    Collect(w.ports[d], LAMBDA p : LET to == {e \in Ends(d, p) : e[1] = n}
                                   IN IF to = {} THEN <<>> ELSE <<<<p, (CHOOSE e \in to : TRUE)[2]>>>>)

Physical(p) == <<p>>
NewInterface(links) == [lag |-> <<>>, addrs |-> {}, vrf |-> "", links |-> links]

AddInterface(ifs, name) ==
    [i \in DOMAIN ifs \cup {name} |-> IF i \in DOMAIN ifs THEN ifs[i] ELSE NewInterface({})]

(* A mutant of MakeLag: the ports are not put into it.                     *)
MakeLagOnly(ifs, lag, ports) == AddInterface(ifs, <<"lag", lag>>)

MakeLag(ifs, lag, ports) ==
    LET name == <<"lag", lag>>
        into == {Physical(p) : p \in ToSet(ports)}
    IN IF name \in DOMAIN ifs THEN ifs
       ELSE AddInterface([i \in DOMAIN ifs |-> [lag |-> IF i \in into THEN name ELSE ifs[i].lag, addrs |-> ifs[i].addrs,
                                                vrf |-> ifs[i].vrf, links |-> ifs[i].links]], name)

(* add_addr looks at the ip, not at mask or vrf; set_vrf.                  *)
HasAddr(old, c)      == c.addr \in {{}, {Unnumbered}} \/ \E a \in old.addrs : {a.ip} = {b.ip : b \in c.addr}
WithChanges(old, c)  == [lag |-> old.lag, links |-> old.links, vrf |-> One(c.vrf, old.vrf),
                         addrs |-> IF HasAddr(old, c) THEN old.addrs ELSE old.addrs \cup c.addr]
Address(ifs, name, c) == [ifs EXCEPT ![name] = WithChanges(ifs[name], c)]

-----------------------------------------------------------------------------
(* A handler fills its left side, its right side and the session; its      *)
(* addresses may depend on the first port of the left side.                *)
ByPort(x, ports) == [x EXCEPT !.addr = {[a EXCEPT !.ip = Append(@, ports[1])] : a \in @}]
Sides(handler, ports) ==
    IF handler.byPort /\ ports # <<>>
    THEN [left |-> ByPort(handler.left, ports), right |-> ByPort(handler.right, ports), session |-> handler.session]
    ELSE [left |-> handler.left, right |-> handler.right, session |-> handler.session]

Locals(ports)  == [i \in DOMAIN ports |-> ports[i][1]]
Remotes(ports) == [i \in DOMAIN ports |-> ports[i][2]]

(* A mutant of OnMySide: the order of the rule is forgotten.               *)
OnMySideAlwaysLeft(m, ports) ==
    LET s == Sides(m.rule.handler, IF m.direct_order THEN Locals(ports) ELSE Remotes(ports))
    IN [mine |-> s.left, theirs |-> s.right, session |-> s.session]

(* The peer of this device and that of the other: left and right, or the   *)
(* other way round.                                                        *)
OnMySide(m, ports) ==
    LET s == Sides(m.rule.handler, IF m.direct_order THEN Locals(ports) ELSE Remotes(ports))
    IN IF m.direct_order THEN [mine |-> s.left, theirs |-> s.right, session |-> s.session]
                         ELSE [mine |-> s.right, theirs |-> s.left, session |-> s.session]
Other(m) == IF m.direct_order THEN m.right ELSE m.left

Nothing(s)   == IsEmpty(s.mine) /\ IsEmpty(s.theirs) /\ IsEmpty(s.session)
MadePair(s, device, ports) ==
    [local |-> MergeDto(s.mine, s.session), connected |-> MergeDto(s.theirs, s.session),
     device |-> device, ports |-> ports, samePorts |-> TRUE]

(* dict[key] = pair, merged with the pair the key has.                     *)
Keyed(key) == {i \in DOMAIN pairs : pairs[i].key = key}
With(key, pair) ==
    IF Keyed(key) = {} THEN Append(pairs, [key |-> key, pair |-> pair])
    ELSE [i \in DOMAIN pairs |-> IF pairs[i].key = key
                                 THEN [key |-> key, pair |-> MergePairs(pairs[i].pair, pair)] ELSE pairs[i]]

-----------------------------------------------------------------------------
NewInterfaces(d) == [n \in {Physical(p) : p \in ToSet(w.ports[d])} |-> NewInterface({n[1]})]

Init ==
    /\ world \in DOMAIN Worlds
    /\ registry \in w.registries
    /\ turn = 1
    /\ interfaces = [d \in DOMAIN w.ports |-> NewInterfaces(d)]
    /\ stage = "globals" /\ jobs = <<>> /\ pairs = <<>> /\ globals = NoGlobals
    /\ peers = <<>> /\ made = <<>> /\ results = <<>>

Started ==
    /\ stage' = "globals" /\ jobs' = <<>> /\ pairs' = <<>> /\ globals' = NoGlobals
    /\ peers' = <<>> /\ made' = <<>>
    /\ turn' = turn + 1
Raise == Started /\ results' = Append(results, [raises |-> TRUE, peers |-> {}, globals |-> NoGlobals,
                                                 made |-> {}, policies |-> <<>>, device |-> interfaces'[me]])

UnchangedInputs == UNCHANGED <<world, registry>>
Running         == turn <= Len(w.plan)

(* The handler of a direct rule runs for the ports together, or one by one,*)
(* that of a virtual rule for every number.                                *)
DirectJobs(m) ==
    LET all == Connections(me, Other(m))
    IN CASE Other(m) \in w.lost                        -> <<[m |-> m, ports |-> <<>>]>>
         [] Other(m) \notin w.lost /\ m.rule.separate  -> [i \in DOMAIN all |-> [m |-> m, ports |-> <<all[i]>>]]
         [] Other(m) \notin w.lost /\ ~m.rule.separate -> <<[m |-> m, ports |-> all]>>
VirtualJobs(r) == [i \in DOMAIN r.num |-> [rule |-> r, num |-> r.num[i]]]

(* _execute_globals, with the conversion, and the direct rules looked up.  *)
Globals ==
    LET found  == LookupGlobal(rules, Names, me)
        merged == MergeGlobals([i \in DOMAIN found |-> found[i].globals])
        direct == LookupDirect(rules, Names, me, NeighborsOf(me))
    IN /\ Running /\ stage = "globals"
       /\ UnchangedInputs /\ UNCHANGED interfaces
       /\ IF GlobalsClash(merged) THEN Raise
          ELSE /\ globals' = ToBgpGlobalOptions(merged)
               /\ stage' = "direct"
               /\ jobs' = Collect(direct, DirectJobs)
               /\ UNCHANGED <<turn, pairs, peers, made, results>>

(* _execute_direct and _execute_indirect: one handler, one group of ports. *)
RunPair ==
    LET job  == Head(jobs)
        s    == OnMySide(job.m, job.ports)
        pair == MadePair(s, Other(job.m), Locals(job.ports))
        next == With(PeerKey(pair, Locals(job.ports)), pair)
    IN /\ Running /\ stage \in {"direct", "indirect"} /\ jobs # <<>>
       /\ UnchangedInputs /\ UNCHANGED interfaces
       /\ CASE Other(job.m) \in w.lost -> Raise
            [] Other(job.m) \notin w.lost /\ Nothing(s) ->
                   jobs' = Tail(jobs) /\ UNCHANGED <<turn, stage, pairs, globals, peers, made, results>>
            [] OTHER ->
                   IF Clash(pair.local) \/ Clash(pair.connected) \/ AddrsRaise(pair)
                      \/ \E i \in DOMAIN next : PairClash(next[i].pair)
                   THEN Raise
                   ELSE /\ jobs' = Tail(jobs) /\ pairs' = next
                        /\ UNCHANGED <<turn, stage, globals, peers, made, results>>

(* _execute_virtual: every number has a pair of its own.                   *)
RunVirtual ==
    LET job  == Head(jobs)
        s    == [mine |-> job.rule.handler.left, theirs |-> job.rule.handler.right, session |-> job.rule.handler.session]
        pair == MadePair([s EXCEPT !.theirs.addr = {[a EXCEPT !.ip = Append(@, job.num)] : a \in @}], "", <<>>)
    IN /\ Running /\ stage = "virtual" /\ jobs # <<>>
       /\ UnchangedInputs /\ UNCHANGED interfaces
       /\ IF ~Nothing(s) /\ (Clash(pair.local) \/ Clash(pair.connected)) THEN Raise
          ELSE /\ jobs' = Tail(jobs)
               /\ pairs' = IF Nothing(s) THEN pairs ELSE Append(pairs, [key |-> <<>>, pair |-> pair])
               /\ UNCHANGED <<turn, stage, globals, peers, made, results>>

-----------------------------------------------------------------------------
(* _apply_direct_interface_changes: [raises, ifs, name].                   *)
Refused == [raises |-> TRUE, ifs |-> interfaces[me], name |-> <<>>]
On(ifs, name, c) == [raises |-> FALSE, ifs |-> Address(AddInterface(ifs, name), name, c), name |-> name]
Subif(base, c) == IF c.subif = {} THEN base ELSE Append(base, One(c.subif, ""))

(* The ports that are still connected to the neighbour: of a session on    *)
(* neither a lag nor an svi there must be one.                             *)
PortsOf(pair) == Those(Locals(Connections(me, pair.device)), LAMBDA p : p \in ToSet(pair.ports))
DirectInterface(pair, c) ==
    LET ports == PortsOf(pair)
        ifs   == IF c.lag = {} THEN interfaces[me] ELSE MakeLag(interfaces[me], One(c.lag, ""), ports)
        base  == IF c.lag # {} THEN <<"lag", One(c.lag, "")>> ELSE Physical(ports[1])
    IN IF ChangesRaise(c) \/ (c.lag = {} /\ c.svi = {} /\ Len(ports) # 1) THEN Refused
       ELSE On(ifs, IF c.svi # {} THEN <<"svi", One(c.svi, "")>> ELSE Subif(base, c), c)

(* _apply_nondirect_interface_changes; no interface is a result too.       *)
NondirectInterface(pair, c) ==
    LET ifname == One(pair.local.ifname, <<>>)
        ifs    == interfaces[me]
        name   == IF c.svi # {} THEN <<"svi", One(c.svi, "")>> ELSE Subif(ifname, c)
    IN IF \/ ChangesRaise(c) \/ c.lag # {} \/ (c.subif # {} /\ ifname = <<>>)
          \/ c.subif = {} /\ c.svi = {} /\ ifname \notin DOMAIN ifs \cup {<<>>}
       THEN Refused
       ELSE IF name = <<>> THEN [raises |-> FALSE, ifs |-> ifs, name |-> <<>>] ELSE On(ifs, name, c)

(* One pair: its interface, then the peer; the interface stays when the    *)
(* peer cannot be made.                                                    *)
ApplyPair ==
    LET pair == Head(pairs).pair
        c    == InterfaceChanges(pair.local, pair.connected)
        got  == IF stage = "direct" THEN DirectInterface(pair, c) ELSE NondirectInterface(pair, c)
    IN /\ Running /\ stage # "globals" /\ jobs = <<>> /\ pairs # <<>>
       /\ UnchangedInputs
       /\ interfaces' = [interfaces EXCEPT ![me] = got.ifs]
       /\ IF got.raises \/ ToBgpPeerRaises(pair.local, pair.connected) THEN Raise
          ELSE /\ peers' = Append(peers, ToBgpPeer(pair.local, pair.connected, pair.device, got.name))
               /\ made' = Append(made, [stage |-> stage, pair |-> pair, interface |-> got.name])
               /\ pairs' = Tail(pairs)
               /\ UNCHANGED <<turn, stage, jobs, globals, results>>

(* A stage is over: the rules of the next.                                 *)
NextStage ==
    /\ Running /\ stage \in {"direct", "virtual"} /\ jobs = <<>> /\ pairs = <<>>
    /\ stage' = IF stage = "direct" THEN "virtual" ELSE "indirect"
    /\ jobs' = IF stage = "direct"
               THEN Collect(LookupVirtual(rules, Names, me), VirtualJobs)
               ELSE LET found == LookupIndirect(rules, Names, me, SetToSeq(DOMAIN w.ports))
                    IN [i \in DOMAIN found |-> [m |-> found[i], ports |-> <<>>]]
    /\ UNCHANGED <<world, registry, turn, interfaces, pairs, globals, peers, made, results>>

(* get_policies: those of the route map that are named, in its order.      *)
OfRouteMap(named) == Those(w.routemap, LAMBDA h : h \in named)

(* The configuration, and the policies of the route map that it names.     *)
Finish ==
    LET config == [globals |-> globals, peers |-> peers]
    IN /\ Running /\ stage = "indirect" /\ jobs = <<>> /\ pairs = <<>>
       /\ UnchangedInputs /\ UNCHANGED interfaces
       /\ Started
       /\ results' = Append(results, [raises |-> FALSE, peers |-> ToSet(peers), globals |-> globals, made |-> ToSet(made),
                                      policies |-> OfRouteMap(ExtractPolicies(config)),
                                      device |-> interfaces[me]])

Next == Globals \/ RunPair \/ RunVirtual \/ ApplyPair \/ NextStage \/ Finish

Spec == Init /\ [][Next]_vars
=============================================================================
