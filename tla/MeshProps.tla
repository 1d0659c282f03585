------------------------------- MODULE MeshProps -------------------------------
(* What a mesh promises about the devices it is executed for.              *)
EXTENDS Mesh

Fine(t)  == t \in DOMAIN results /\ ~results[t].raises
PlanOf(t) == w.plan[t].device
RulesOf(reg)  == UNION {ToSet(r.direct) \cup ToSet(r.indirect) : r \in ToSet(Registries(reg))}
Handlers1     == {r.handler : r \in RulesOf(registry)}

-----------------------------------------------------------------------------
(* What must hold of handlers for both ends to see one session: the vrf is *)
(* set for both, an AS number for both or for none, and an address depends *)
(* on ports that are one by one.                                           *)
Numbered(x, h) == x.asnum \cup h.session.asnum # {}
Agreed ==
    /\ \A h \in Handlers1 : h.left.vrf = {} /\ h.right.vrf = {} /\ (Numbered(h.left, h) <=> Numbered(h.right, h))
    /\ \A r \in UNION {ToSet(g.direct) : g \in ToSet(Registries(registry))} : r.handler.byPort => r.separate

(* A port is connected to one port at most.                                *)
Cabled ==
    /\ \A l \in w.links : /\ l[1] \in DOMAIN w.ports /\ l[2] \in ToSet(w.ports[l[1]])
                          /\ l[3] \in DOMAIN w.ports /\ l[4] \in ToSet(w.ports[l[3]])
    /\ \A d \in DOMAIN w.ports : \A p \in ToSet(w.ports[d]) : \A e, f \in Ends(d, p) : e = f

SessionOf(m) == [addr |-> One(m.pair.local.addr, Unnumbered).ip, peer |-> One(m.pair.connected.addr, Unnumbered).ip,
                 as |-> {Asn(x) : x \in m.pair.local.asnum}, peer_as |-> {Asn(x) : x \in m.pair.connected.asnum},
                 vrf |-> One(m.pair.connected.vrf, ""), families |-> m.pair.connected.families]
Mirrored(s)  == [s EXCEPT !.addr = s.peer, !.peer = s.addr, !.as = s.peer_as, !.peer_as = s.as]
SessionsWith(t, d) ==
    {SessionOf(m) : m \in {x \in results[t].made : x.stage # "virtual" /\ x.pair.device = d}}
Unfamilied(s) == [s EXCEPT !.families = {}]

(* Two devices, each configured by itself, have the two ends of the same   *)
(* sessions: addresses, AS numbers and vrf are mirrored, whichever way the *)
(* masks matched them and however many rules made a session.               *)
Mirrors ==
    \A t, u \in DOMAIN results : Fine(t) /\ Fine(u) /\ Cabled /\ Agreed /\ PlanOf(t) # PlanOf(u) =>
        {Unfamilied(s) : s \in SessionsWith(t, PlanOf(u))}
            = {Unfamilied(Mirrored(s)) : s \in SessionsWith(u, PlanOf(t))}

-----------------------------------------------------------------------------
(* Interfaces several sessions share and do not agree about: the last vrf  *)
(* stays, a lag keeps the ports of the first; a lag numbered 0 counts as   *)
(* none.                                                                   *)
OneVrf(ms, m)   == \A x \in ms : x.interface = m.interface => x.pair.connected.vrf = m.pair.connected.vrf
HasLag(m)       == m.pair.local.lag # {}
OnePorts(ms, m) == \A x \in ms : HasLag(x) =>
                      IF x.pair.local.lag = m.pair.local.lag THEN ToSet(x.pair.ports) = ToSet(m.pair.ports)
                      ELSE ToSet(x.pair.ports) \cap ToSet(m.pair.ports) = {}
LagOf(m)        == <<"lag", One(m.pair.local.lag, "")>>

(* Sessions, the interfaces of their device, and what each of them has.    *)
StandThere(ms, ifs) ==
    \A m \in ms : m.interface # <<>> =>
        /\ m.interface \in DOMAIN ifs
        /\ m.pair.local.addr # {Unnumbered} =>
               \A a \in m.pair.local.addr : \E b \in ifs[m.interface].addrs : b.ip = a.ip
StandInVrf(ms, ifs) ==
    \A m \in ms : m.interface # <<>> /\ m.pair.connected.vrf # {} /\ OneVrf(ms, m) =>
        {ifs[m.interface].vrf} = m.pair.connected.vrf
StandInLag(ms, ifs) ==
    \A m \in ms : HasLag(m) /\ OnePorts(ms, m) =>
        \A p \in ToSet(m.pair.ports) : ifs[Physical(p)].lag = LagOf(m)

(* A session stands on an interface its device has: with the session's     *)
(* address and vrf, and every port of the pair in it when it is a lag.     *)
SessionsStand ==
    \A t \in DOMAIN results : Fine(t) =>
        /\ StandThere(results[t].made, interfaces[PlanOf(t)])
        /\ StandInVrf(results[t].made, interfaces[PlanOf(t)])
        /\ StandInLag(results[t].made, interfaces[PlanOf(t)])

(* Two sessions of one device never end in one address of a neighbour on   *)
(* one interface, unless the masks of the address differ, the lag or svi is*)
(* 0, or one session makes the interface that the other names.             *)
Zero(local) == "0" \in local.lag \cup local.svi
MadeAlike(l, k) == (l.svi = {}) = (k.svi = {}) /\ (l.subif = {}) = (k.subif = {})
NoTwins ==
    \A t \in DOMAIN results : Fine(t) =>
        \A m, n \in results[t].made :
            /\ m.stage = n.stage /\ m.stage # "virtual" /\ m.pair.device = n.pair.device
            /\ m.interface = n.interface /\ m.pair.connected.vrf = n.pair.connected.vrf
            /\ m.pair.connected.addr = n.pair.connected.addr
            /\ ~Zero(m.pair.local) /\ ~Zero(n.pair.local) /\ MadeAlike(m.pair.local, n.pair.local)
            => m = n

(* One session of two devices is one session, the same for both.           *)
SessionsMirror == Mirrors /\ NoTwins

-----------------------------------------------------------------------------
(* "Configuration, received from different handlers will be merged         *)
(* together" (docs/mesh/index.rst): executing again on the device left by  *)
(* the first time, with the rules written the other way round, gives the   *)
(* same sessions and adds nothing.                                         *)
Left(t) == [n \in DOMAIN results[t].device |-> [results[t].device[n] EXCEPT !.vrf = ""]]
AgainTheSame ==
    \A t, u \in DOMAIN results : t < u /\ Fine(t) /\ PlanOf(t) = PlanOf(u) =>
        /\ Fine(u)
        /\ results[u].peers = results[t].peers /\ Left(u) = Left(t)
        /\ results[u].globals.settings = results[t].globals.settings
        /\ ToSet(results[u].policies) = ToSet(results[t].policies)

-----------------------------------------------------------------------------
(* What the handlers of the device named, of families BGP has.             *)
Named1(d) ==
    UNION {{x.value : x \in {y \in r.globals.settings : Converted(y) /\ y.path.field \in PolicyFields}}
               \cup {r.globals.tuples[i].value : i \in {j \in DOMAIN r.globals.tuples : Converted(r.globals.tuples[j])}} :
           r \in ToSet(LookupGlobal(registry, Names, d))}
NamedByPeers(t) == UNION {m.pair.local.import_policy : m \in results[t].made}

(* A routing policy that a handler names anywhere in the configuration of  *)
(* a device is made for it, and no other, in the order of the route map.   *)
PoliciesMade ==
    \A t \in DOMAIN results : Fine(t) =>
        results[t].policies = OfRouteMap(Named1(PlanOf(t)) \cup NamedByPeers(t))
=============================================================================
