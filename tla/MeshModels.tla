------------------------------ MODULE MeshModels ------------------------------
(***************************************************************************)
(* The rules and the objects of a mesh.  First which rules apply to a      *)
(* device: names, masks, filters and the lookups of annet.mesh.registry.   *)
(*                                                                         *)
(* A host is a record of the parts of its name, each part a value          *)
(* [type, n]: a word, or a number.  A mask says which values each part may *)
(* have and which parts it captures.  A registry is [short, global,        *)
(* direct, indirect, virtual, nested], sequences of rules, and nested its  *)
(* included registries.                                                    *)
(*                                                                         *)
(* Then what handlers fill, how it merges, and the BGP configuration made  *)
(* of it: annet.mesh.basemodel, peer_models, device_models,                *)
(* models_converter and annet.bgp_models.                                  *)
(*                                                                         *)
(* A field holds the set of values given to it: none, one, or more where   *)
(* merging is forbidden.  An address is [ip, mask], an AS number as it is  *)
(* written [dotted, high, low].                                            *)
(***************************************************************************)
EXTENDS Lists

CONSTANTS PlainMax      \* 0x10000
ASSUME PlainMaxAssumption == PlainMax \in Nat \ {0}

Int1(n) == [type |-> "int", n |-> n]
Word(n) == [type |-> "str", n |-> n]
NoPart  == Word(0)

(* match_short_name: the name up to the first dot.                         *)
Normalize(reg, host) == IF reg.short THEN [host EXCEPT !.domain = NoPart] ELSE host

(* PeerNameTemplate.match: what it captures, nothing for another name.     *)
Captures(mask, host) ==
    IF \A p \in DOMAIN mask.parts : host[p] \in mask.parts[p]
    THEN <<[p \in mask.captured |-> host[p]]>> ELSE <<>>

-----------------------------------------------------------------------------
(* Filters.  An operand is a captured part of a side (Left, Right, Match)  *)
(* or a value; an expression is true, false or raises.                     *)
Part(side, p) == [side |-> side, part |-> p, val |-> NoPart]
Value(v)      == [side |-> 0, part |-> "", val |-> v]

Exists(o, args) == o.side = 0 \/ (o.side \in DOMAIN args /\ o.part \in DOMAIN args[o.side])
Eval(o, args)   == IF o.side = 0 THEN o.val ELSE args[o.side][o.part]

Truth(b) == IF b THEN "true" ELSE "false"

Compared1(e, args) ==
    IF ~(Exists(e.l, args) /\ Exists(e.r, args)) THEN "raises"
    ELSE LET a == Eval(e.l, args)  b == Eval(e.r, args)
         IN CASE e.op = "eq" -> Truth(a = b)
              [] e.op = "ne" -> Truth(a # b)
              [] e.op \in {"lt", "ge"} /\ a.type # b.type -> "raises"
              [] e.op = "lt" /\ a.type = b.type -> Truth(a.n < b.n)
              [] e.op = "ge" /\ a.type = b.type -> Truth(a.n >= b.n)

(* One comparison, or two: the second is looked at when the first does not *)
(* settle the matter.                                                      *)
Compares1(op, l, r) == [join |-> "one", e |-> <<[op |-> op, l |-> l, r |-> r]>>]
Either(a, b)        == [join |-> "or", e |-> a.e \o b.e]
Both(a, b)          == [join |-> "and", e |-> a.e \o b.e]

Result(expr, args) ==
    LET first == Compared1(expr.e[1], args)
    IN CASE expr.join = "or" /\ first = "false" -> Compared1(expr.e[2], args)
         [] expr.join = "and" /\ first = "true" -> Compared1(expr.e[2], args)
         [] OTHER -> first

MatchSafe(exprs, args) == \A i \in DOMAIN exprs : Result(exprs[i], args) = "true"

-----------------------------------------------------------------------------
MatchOne(rule, host) ==
    LET args == Captures(rule.mask, host) IN args # <<>> /\ MatchSafe(rule.match, args)

MatchPair(rule, left, right) ==
    LET l == Captures(rule.left, left)  r == Captures(rule.right, right)
    IN l # <<>> /\ r # <<>> /\ MatchSafe(rule.match, l \o r)

(* A rule applies to a pair in each order it matches.                      *)
BothWays(rule, norm, other, device, neighbor) ==
    (IF MatchPair(rule, norm, other)
     THEN <<[rule |-> rule, direct_order |-> TRUE, left |-> device, right |-> neighbor]>> ELSE <<>>)
    \o (IF MatchPair(rule, other, norm)
        THEN <<[rule |-> rule, direct_order |-> FALSE, left |-> neighbor, right |-> device]>> ELSE <<>>)

(* One registry without its nested ones: every other device, every rule.   *)
OwnPairs(reg, rules, names, device, others) ==
    Collect(others, LAMBDA n : Collect(rules, LAMBDA rule :
        BothWays(rule, Normalize(reg, names[device]), Normalize(reg, names[n]), device, n)))

OwnOnes(reg, rules, names, device) ==
    Those(rules, LAMBDA rule : MatchOne(rule, Normalize(reg, names[device])))

(* The lookups: a registry's own rules, then those of its nested ones.     *)
Registries(reg) == <<reg>> \o reg.nested

LookupDirect(reg, names, device, neighbors) ==
    Collect(Registries(reg), LAMBDA g : OwnPairs(g, g.direct, names, device, neighbors))
LookupIndirect(reg, names, device, devices) ==
    Collect(Registries(reg), LAMBDA g : OwnPairs(g, g.indirect, names, device, devices))
LookupVirtual(reg, names, device) ==
    Collect(Registries(reg), LAMBDA g : OwnOnes(g, g.virtual, names, device))
LookupGlobal(reg, names, device) ==
    Collect(Registries(reg), LAMBDA g : OwnOnes(g, g.global, names, device))

-----------------------------------------------------------------------------
(* What handlers fill.                                                     *)
Unnumbered == [ip |-> <<"unnumbered">>, mask |-> 0]

SessionFields == {"asnum", "vrf", "families", "import_policy"}
PeerFields    == SessionFields \cup {"addr", "family_options", "ifname", "lag", "svi", "subif"}

Dto == [f \in PeerFields |-> {}]

(* A mutant of MergeDto: the last value given stays.                       *)
MergeDtoLast(a, b) == [f \in PeerFields |-> IF b[f] = {} THEN a[f] ELSE b[f]]

(* The merger of every field but families and the family options forbids   *)
(* a change.                                                               *)
MergeDto(a, b) == [f \in PeerFields |-> a[f] \cup b[f]]
Many(values)   == \E x, y \in values : x # y
OptionsClash(options) == \E x, y \in options : x[1] = y[1] /\ x # y
Clash(x) ==
    \/ \E f \in PeerFields \ {"families", "family_options"} : Many(x[f])
    \/ OptionsClash(x.family_options)

(* is_empty looks at the type of the family options, not at what they hold.*)
IsEmpty(x) == \A f \in PeerFields \ {"family_options"} : x[f] = {}

One(values, default) == IF values = {} THEN default ELSE CHOOSE v \in values : TRUE

-----------------------------------------------------------------------------
(* AS numbers.                                                             *)
Asn(w)       == IF w.dotted THEN w.high * PlainMax + w.low ELSE w.low
AsnRaises(w) ==
    \/ w.dotted /\ ~(w.high < PlainMax /\ w.low < PlainMax)
    \/ Asn(w) >= PlainMax * PlainMax

-----------------------------------------------------------------------------
(* A session of two sides: the peer's DTO and this device's.  The session  *)
(* is found again by the neighbour, its address, its vrf and the interface.*)
TargetInterface(local, ports) ==
    [subif |-> One(local.subif, ""), svi |-> One(local.svi, ""), lag |-> One(local.lag, ""),
     port  |-> IF One(local.svi, "0") # "0" \/ One(local.lag, "0") # "0" \/ Len(ports) # 1
               THEN "" ELSE ports[1]]

(* A mutant of PeerKey: a port counts beside a lag or an svi.              *)
PeerKeyByPort(pair, ports) ==
    [fqdn |-> pair.device, addr |-> One(pair.connected.addr, Unnumbered),
     vrf  |-> One(pair.connected.vrf, ""), interface |-> <<TargetInterface(pair.local, ports), ports>>]

PeerKey(pair, ports) ==
    [fqdn |-> pair.device, addr |-> One(pair.connected.addr, Unnumbered),
     vrf  |-> One(pair.connected.vrf, ""), interface |-> TargetInterface(pair.local, ports)]

MergePairs(a, b) ==
    [local |-> MergeDto(a.local, b.local), connected |-> MergeDto(a.connected, b.connected),
     device |-> b.device, ports |-> a.ports, samePorts |-> a.samePorts /\ a.ports = b.ports]
PairClash(p) == Clash(p.local) \/ Clash(p.connected) \/ ~p.samePorts

(* UNNUMBERED on both sides or on none.                                    *)
AddrsRaise(p) ==
    \/ p.connected.addr = {} \/ p.local.addr = {}
    \/ (p.local.addr = {Unnumbered}) # (p.connected.addr = {Unnumbered})

InterfaceChanges(local, peer) ==
    [addr |-> local.addr, lag |-> local.lag, svi |-> local.svi, subif |-> local.subif, vrf |-> peer.vrf]
ChangesRaise(c) == c.svi # {} /\ (c.lag # {} \/ c.subif # {})

ToBgpPeerRaises(local, connected) ==
    \/ connected.addr = {} \/ connected.asnum = {}
    \/ \E w \in connected.asnum \cup local.asnum : AsnRaises(w)

ToBgpPeer(local, connected, hostname, interface) ==
    [addr |-> One(connected.addr, Unnumbered).ip, interface |-> interface, hostname |-> hostname,
     remote_as |-> Asn(One(connected.asnum, 0)), local_as |-> {Asn(w) : w \in local.asnum},
     vrf_name |-> One(connected.vrf, ""), families |-> connected.families,
     import_policy |-> local.import_policy, family_options |-> local.family_options]

-----------------------------------------------------------------------------
(* Global options.  A setting is [path, value], a path [vrf, group,        *)
(* family, field] with "" for what it does not go through; the tuples      *)
(* (redistributes, aggregates) are sequences, by path.                     *)
Path(vrf, group, family, field) == [vrf |-> vrf, group |-> group, family |-> family, field |-> field]

NoGlobals == [settings |-> {}, tuples |-> <<>>]

(* One handler after the other.                                            *)
MergeGlobals(all) == [settings |-> UNION {all[i].settings : i \in DOMAIN all}, tuples |-> Collect(all, LAMBDA g : g.tuples)]
GlobalsClash(g)   == \E x, y \in g.settings : x.path = y.path /\ x # y

(* The families both models have, and those a handler may fill in vain.    *)
BgpFamilies == {"ipv4_unicast", "ipv6_unicast", "ipv4_labeled_unicast", "ipv6_labeled_unicast", "l2vpn_evpn"}
Converted(x) == x.path.family \in BgpFamilies \cup {""}
ToBgpGlobalOptions(g) ==
    [settings |-> {x \in g.settings : Converted(x)}, tuples |-> Those(g.tuples, Converted)]

(* The settings that name a policy.  Groups have no options of families,   *)
(* the device has a policy for a family only, and families alone aggregate.*)
PolicyFields == {"import_policy", "export_policy", "aggregate"}
IsPolicyPath(path) ==
    /\ path.family # "" => path.group = ""
    /\ path.family = "" => path.field # "aggregate" /\ (path.vrf # "" \/ path.group # "")

(* extract_policies, place by place: _used_policies looks at groups, those *)
(* of a vrf and those of the device, vrfs and peers,                       *)
(* _used_families_policies at the families of a vrf and of the device.     *)
OfGroup(path)  == path.group # "" /\ path.family = "" /\ path.field \in {"import_policy", "export_policy"}
OfVrf(path)    == /\ path.vrf # "" /\ path.group = "" /\ path.family = ""
                  /\ path.field \in {"import_policy", "export_policy"}
OfFamily(path) == path.group = "" /\ path.family # "" /\ path.field \in PolicyFields

(* A mutant of UsedPolicies: the vrfs' own are forgotten.                  *)
UsedPoliciesOfGroups(settings, peers) ==
    {x.value : x \in {y \in settings : OfGroup(y.path) \/ OfFamily(y.path)}}
        \cup UNION {p.import_policy : p \in peers}
UsedPolicies(settings, peers) ==
    {x.value : x \in {y \in settings : OfGroup(y.path) \/ OfVrf(y.path) \/ OfFamily(y.path)}}
        \cup UNION {p.import_policy : p \in peers}
UsedFamiliesPolicies(tuples) == {tuples[i].value : i \in DOMAIN tuples}

(* A mutant of ExtractPolicies: what a family redistributes is forgotten.  *)
ExtractPoliciesOfOptions(config) == UsedPolicies(config.globals.settings, ToSet(config.peers))

ExtractPolicies(config) ==
    UsedPolicies(config.globals.settings, ToSet(config.peers)) \cup UsedFamiliesPolicies(config.globals.tuples)
=============================================================================
