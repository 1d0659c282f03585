------------------------------- MODULE MeshProofs -------------------------------
(***************************************************************************)
(* Proofs about MeshExecutor.execute_for: any rules, handlers, devices and *)
(* links, and any plan of executions.                                      *)
(***************************************************************************)
EXTENDS MeshProps, SequenceFacts

-----------------------------------------------------------------------------
(* What a handler named.                                                   *)
(* Names of interfaces are sequences.                                      *)
NamesListed(h) == \A n \in h.left.ifname \cup h.right.ifname \cup h.session.ifname : IsList(n)

(* Policies are set where the models have them.                            *)
PoliciesPlaced(settings) == \A y \in settings : y.path.field \in PolicyFields => IsPolicyPath(y.path)

IsRegistry(reg) ==
    /\ Listed(reg.nested)
    /\ \A g \in ToSet(Registries(reg)) :
          /\ Listed(g.global) /\ Listed(g.direct) /\ Listed(g.indirect) /\ Listed(g.virtual)
          /\ \A rule \in ToSet(g.global) : Listed(rule.globals.tuples) /\ PoliciesPlaced(rule.globals.settings)
          /\ \A rule \in ToSet(g.virtual) : Listed(rule.num)
          /\ \A rule \in ToSet(g.indirect) : NamesListed(rule.handler)

LEMMA RegistryIs == world \in DOMAIN Worlds /\ registry \in w.registries => IsRegistry(registry)
BY WorldsAssumption DEF w, IsRegistry, NamesListed, PoliciesPlaced, IsList, Listed


(* The rules of a registry that apply to a device are a list.              *)
Own(reg, names, device) ==
    {rule \in ToSet(reg.global) : MatchOne(rule, Normalize(reg, names[device]))}

LEMMA OwnOnesAre ==
    ASSUME NEW reg, NEW rs, NEW names, NEW device, Listed(rs)
    PROVE  /\ Listed(OwnOnes(reg, rs, names, device))
           /\ ToSet(OwnOnes(reg, rs, names, device)) = {r \in ToSet(rs) : MatchOne(r, Normalize(reg, names[device]))}
<1> DEFINE A     == {r \in ToSet(rs) : MatchOne(r, Normalize(reg, names[device]))}
           those == [i \in DOMAIN rs |-> IF rs[i] \in A THEN <<rs[i]>> ELSE <<>>]
<1>1. Listed(FlattenSeq(those)) /\ ToSet(FlattenSeq(those)) = ToSet(rs) \cap A
  BY Chosen
<1>2. \A i \in DOMAIN rs : rs[i] \in A <=> MatchOne(rs[i], Normalize(reg, names[device]))
  BY DEF ToSet
<1>3. OwnOnes(reg, rs, names, device) = FlattenSeq(those)
  <2>1. those = [i \in DOMAIN rs |-> IF MatchOne(rs[i], Normalize(reg, names[device])) THEN <<rs[i]>> ELSE <<>>]
    BY <1>2
  <2>2. OwnOnes(reg, rs, names, device)
            = FlattenSeq([i \in DOMAIN rs |-> IF MatchOne(rs[i], Normalize(reg, names[device])) THEN <<rs[i]>> ELSE <<>>])
    BY DEF OwnOnes, Those, Collect
  <2> QED
    BY <2>1, <2>2
<1>4. ToSet(rs) \cap A = A
  OBVIOUS
<1> QED
  BY <1>1, <1>3, <1>4

LEMMA RegistriesAre ==
    ASSUME NEW reg, Listed(reg.nested)
    PROVE  Listed(Registries(reg)) /\ ToSet(Registries(reg)) = {reg} \cup ToSet(reg.nested)
<1> DEFINE S   == {reg} \cup ToSet(reg.nested)
           one == <<reg>>
<1>1. one \in Seq(S) /\ ToSet(one) = {reg}
  BY DEF ToSet
<1>2. reg.nested \in Seq(S)
  BY SeqMonotonic DEF Listed
<1>3. Registries(reg) = one \o reg.nested
  BY DEF Registries
<1> HIDE DEF S, one
<1>4. one \o reg.nested \in Seq(S) /\ ToSet(one \o reg.nested) = ToSet(one) \cup ToSet(reg.nested)
  BY <1>1, <1>2, ConcatElements
<1> QED
  BY <1>1, <1>3, <1>4, SeqElements

LEMMA GlobalRules ==
    ASSUME NEW reg, IsRegistry(reg), NEW names, NEW device
    PROVE  /\ Listed(LookupGlobal(reg, names, device))
           /\ ToSet(LookupGlobal(reg, names, device)) = UNION {Own(g, names, device) : g \in ToSet(Registries(reg))}
<1> DEFINE regs  == Registries(reg)
           n     == Len(regs)
           parts == [i \in DOMAIN regs |-> OwnOnes(regs[i], regs[i].global, names, device)]
<1>1. Listed(regs)
  BY RegistriesAre DEF IsRegistry
<1>2. n \in Nat /\ DOMAIN regs = 1 .. n /\ ToSet(regs) = {regs[i] : i \in 1 .. n}
  BY <1>1, ListIs
<1>3. ASSUME NEW i \in 1 .. n PROVE Listed(parts[i]) /\ ToSet(parts[i]) = Own(regs[i], names, device)
  <2>1. Listed(regs[i].global)
    BY <1>2 DEF IsRegistry
  <2>2. parts[i] = OwnOnes(regs[i], regs[i].global, names, device)
    BY <1>2
  <2> QED
    BY <2>1, <2>2, OwnOnesAre DEF Own
<1>4. parts = [i \in 1 .. n |-> parts[i]]
  BY <1>2
<1>5. LookupGlobal(reg, names, device) = FlattenSeq(parts)
  BY DEF LookupGlobal, Collect
<1> HIDE DEF parts
<1>6. Listed(FlattenSeq(parts)) /\ ToSet(FlattenSeq(parts)) = UNION {ToSet(parts[i]) : i \in 1 .. n}
  BY <1>2, <1>3, <1>4, Collected
<1> HIDE DEF regs
<1>7. UNION {ToSet(parts[i]) : i \in 1 .. n} = UNION {Own(g, names, device) : g \in ToSet(regs)}
  BY <1>2, <1>3
<1> QED
  BY <1>5, <1>6, <1>7 DEF regs

(* The options that are made of what handlers set name the policies that   *)
(* the handlers named, of the families there are.                          *)
NamedBySettings(r) == {x.value : x \in {y \in r.globals.settings : Converted(y) /\ y.path.field \in PolicyFields}}
NamedByTuples(r)   == {x.value : x \in {y \in ToSet(r.globals.tuples) : Converted(y)}}

LEMMA NamedIs ==
    ASSUME IsRegistry(registry), NEW d
    PROVE  Named1(d) = UNION {NamedBySettings(r) \cup NamedByTuples(r) : r \in ToSet(LookupGlobal(registry, Names, d))}
<1> DEFINE ByTuples(r) == {r.globals.tuples[i].value : i \in {j \in DOMAIN r.globals.tuples : Converted(r.globals.tuples[j])}}
<1>1. ASSUME NEW r PROVE ByTuples(r) = NamedByTuples(r)
  <2> DEFINE s == r.globals.tuples
  <2>1. {s[i].value : i \in {j \in DOMAIN s : Converted(s[j])}} = {x.value : x \in {y \in {s[i] : i \in DOMAIN s} : Converted(y)}}
    <3> HIDE DEF s
    <3> QED
      OBVIOUS
  <2> QED
    BY <2>1 DEF NamedByTuples, ToSet
<1>2. Named1(d) = UNION {NamedBySettings(r) \cup ByTuples(r) : r \in ToSet(LookupGlobal(registry, Names, d))}
  BY DEF Named1, NamedBySettings
<1> HIDE DEF ByTuples
<1> QED
  BY <1>1, <1>2

LEMMA MergedNames ==
    ASSUME NEW found, Listed(found), \A r \in ToSet(found) : Listed(r.globals.tuples), NEW config,
           config = ToBgpGlobalOptions(MergeGlobals([i \in DOMAIN found |-> found[i].globals]))
    PROVE  /\ {x.value : x \in {y \in config.settings : y.path.field \in PolicyFields}} \cup UsedFamiliesPolicies(config.tuples)
                  = UNION {NamedBySettings(r) \cup NamedByTuples(r) : r \in ToSet(found)}
           /\ config.settings \subseteq UNION {r.globals.settings : r \in ToSet(found)}
<1> DEFINE n      == Len(found)
           all    == [i \in DOMAIN found |-> found[i].globals]
           merged == MergeGlobals(all)
           tuples == [i \in DOMAIN all |-> all[i].tuples]
<1>1. n \in Nat /\ DOMAIN found = 1 .. n /\ ToSet(found) = {found[i] : i \in 1 .. n}
  BY ListIs
<1>2. all = [i \in 1 .. n |-> found[i].globals] /\ tuples = [i \in 1 .. n |-> found[i].globals.tuples]
  BY <1>1
<1>3. merged = [settings |-> UNION {all[i].settings : i \in DOMAIN all}, tuples |-> FlattenSeq(tuples)]
  BY DEF MergeGlobals, Collect
<1> HIDE DEF all, merged, tuples
<1>4. merged.settings = UNION {all[i].settings : i \in DOMAIN all} /\ merged.tuples = FlattenSeq(tuples)
  BY <1>3
<1>5. merged.settings = UNION {r.globals.settings : r \in ToSet(found)}
  <2>1. DOMAIN all = 1 .. n /\ \A i \in 1 .. n : all[i] = found[i].globals
    BY <1>2
  <2>2. \A i \in 1 .. n : all[i].settings = found[i].globals.settings
    BY <2>1
  <2>3. merged.settings = UNION {all[i].settings : i \in 1 .. n}
    BY <1>4, <2>1
  <2>4. ASSUME NEW r \in ToSet(found) PROVE r.globals.settings \subseteq merged.settings
    <3>1. PICK i \in 1 .. n : r = found[i]
      BY <1>1
    <3>2. r.globals.settings = all[i].settings
      BY <2>2, <3>1
    <3> QED
      BY <2>3, <3>2
  <2>5. ASSUME NEW x \in merged.settings PROVE \E r \in ToSet(found) : x \in r.globals.settings
    <3>1. PICK i \in 1 .. n : x \in all[i].settings
      BY <2>3
    <3>2. found[i] \in ToSet(found) /\ x \in found[i].globals.settings
      BY <1>1, <2>2, <3>1
    <3> QED
      BY <3>2
  <2> QED
    BY <2>4, <2>5
<1>6. Listed(merged.tuples) /\ ToSet(merged.tuples) = UNION {ToSet(r.globals.tuples) : r \in ToSet(found)}
  <2>1. \A i \in 1 .. n : Listed(tuples[i])
    BY <1>1, <1>2
  <2>2. tuples = [i \in 1 .. n |-> tuples[i]]
    BY <1>2
  <2>3. Listed(FlattenSeq(tuples)) /\ ToSet(FlattenSeq(tuples)) = UNION {ToSet(tuples[i]) : i \in 1 .. n}
    BY <1>1, <2>1, <2>2, Collected
  <2>4. UNION {ToSet(tuples[i]) : i \in 1 .. n} = UNION {ToSet(r.globals.tuples) : r \in ToSet(found)}
    BY <1>1, <1>2
  <2> QED
    BY <1>4, <2>3, <2>4
<1> DEFINE A     == {x \in ToSet(merged.tuples) : Converted(x)}
           those == [i \in DOMAIN merged.tuples |-> IF merged.tuples[i] \in A THEN <<merged.tuples[i]>> ELSE <<>>]
<1>7. Listed(FlattenSeq(those)) /\ ToSet(FlattenSeq(those)) = ToSet(merged.tuples) \cap A
  BY <1>6, Chosen
<1>8. config = [settings |-> {x \in merged.settings : Converted(x)}, tuples |-> FlattenSeq(those)]
  <2>1. \A i \in DOMAIN merged.tuples : merged.tuples[i] \in A <=> Converted(merged.tuples[i])
    BY DEF ToSet
  <2>2. those = [i \in DOMAIN merged.tuples |-> IF Converted(merged.tuples[i]) THEN <<merged.tuples[i]>> ELSE <<>>]
    BY <2>1
  <2>3. config = ToBgpGlobalOptions(merged)
    BY DEF merged, all
  <2> HIDE DEF those
  <2> QED
    BY <2>2, <2>3 DEF ToBgpGlobalOptions, Those, Collect
<1> HIDE DEF those
<1>9. config.settings = {x \in merged.settings : Converted(x)} /\ ToSet(config.tuples) = A
  BY <1>7, <1>8
<1>10. UsedFamiliesPolicies(config.tuples) = {x.value : x \in ToSet(config.tuples)}
  <2>1. \A t : {t[i].value : i \in DOMAIN t} = {x.value : x \in {t[i] : i \in DOMAIN t}}
    <3> SUFFICES ASSUME NEW t PROVE {t[i].value : i \in DOMAIN t} = {x.value : x \in {t[i] : i \in DOMAIN t}}
      OBVIOUS
    <3>1. ASSUME NEW v \in {x.value : x \in {t[i] : i \in DOMAIN t}} PROVE v \in {t[i].value : i \in DOMAIN t}
      <4>1. PICK x \in {t[i] : i \in DOMAIN t} : v = x.value
        OBVIOUS
      <4> QED
        BY <4>1
    <3>2. ASSUME NEW v \in {t[i].value : i \in DOMAIN t} PROVE v \in {x.value : x \in {t[i] : i \in DOMAIN t}}
      <4>1. PICK i \in DOMAIN t : v = t[i].value
        OBVIOUS
      <4>2. t[i] \in {t[k] : k \in DOMAIN t}
        OBVIOUS
      <4> QED
        BY <4>1, <4>2
    <3> QED
      BY <3>1, <3>2
  <2> QED
    BY <2>1 DEF UsedFamiliesPolicies, ToSet
<1>11. UsedFamiliesPolicies(config.tuples) = UNION {NamedByTuples(r) : r \in ToSet(found)}
  <2>1. ASSUME NEW v \in UsedFamiliesPolicies(config.tuples)
        PROVE  \E r \in ToSet(found) : v \in NamedByTuples(r)
    <3>1. PICK x \in A : v = x.value
      BY <1>9, <1>10
    <3>2. PICK r \in ToSet(found) : x \in ToSet(r.globals.tuples)
      BY <1>6
    <3> QED
      BY <3>1, <3>2 DEF NamedByTuples
  <2>2. ASSUME NEW r \in ToSet(found), NEW v \in NamedByTuples(r)
        PROVE  v \in UsedFamiliesPolicies(config.tuples)
    <3>1. PICK x \in ToSet(r.globals.tuples) : Converted(x) /\ v = x.value
      BY DEF NamedByTuples
    <3>2. x \in ToSet(config.tuples)
      BY <1>6, <1>9, <3>1
    <3> QED
      BY <1>10, <3>1, <3>2
  <2> QED
    BY <2>1, <2>2
<1>12. {x.value : x \in {y \in config.settings : y.path.field \in PolicyFields}} = UNION {NamedBySettings(r) : r \in ToSet(found)}
  <2>1. ASSUME NEW x \in config.settings, x.path.field \in PolicyFields
        PROVE  \E r \in ToSet(found) : x.value \in NamedBySettings(r)
    <3>1. PICK r \in ToSet(found) : x \in r.globals.settings
      BY <1>5, <1>9
    <3>2. Converted(x)
      BY <1>9
    <3> QED
      BY <2>1, <3>1, <3>2 DEF NamedBySettings
  <2>2. ASSUME NEW r \in ToSet(found), NEW v \in NamedBySettings(r)
        PROVE  \E x \in config.settings : x.path.field \in PolicyFields /\ v = x.value
    <3>1. PICK x \in r.globals.settings : Converted(x) /\ x.path.field \in PolicyFields /\ v = x.value
      BY DEF NamedBySettings
    <3> QED
      BY <1>5, <1>9, <3>1
  <2> QED
    BY <2>1, <2>2
<1> DEFINE some == {x.value : x \in {y \in config.settings : y.path.field \in PolicyFields}}
           used == UsedFamiliesPolicies(config.tuples)
<1>13. some = UNION {NamedBySettings(r) : r \in ToSet(found)} /\ used = UNION {NamedByTuples(r) : r \in ToSet(found)}
  BY <1>11, <1>12
<1> HIDE DEF some, used
<1>14. some \cup used = UNION {NamedBySettings(r) \cup NamedByTuples(r) : r \in ToSet(found)}
  BY <1>13
<1> QED
  BY <1>5, <1>9, <1>14 DEF some, used

(* The places extract_policies looks at are those the models have.         *)
LEMMA AllPlaces ==
    ASSUME NEW settings, PoliciesPlaced(settings), NEW ps
    PROVE  UsedPolicies(settings, ps)
               = {x.value : x \in {y \in settings : y.path.field \in PolicyFields}} \cup UNION {p.import_policy : p \in ps}
<1>1. \A y \in settings : y.path.field \in PolicyFields <=> OfGroup(y.path) \/ OfVrf(y.path) \/ OfFamily(y.path)
  BY DEF PoliciesPlaced, IsPolicyPath, PolicyFields, OfGroup, OfVrf, OfFamily
<1>2. {y \in settings : y.path.field \in PolicyFields}
          = {y \in settings : OfGroup(y.path) \/ OfVrf(y.path) \/ OfFamily(y.path)}
  BY <1>1
<1> QED
  BY <1>2 DEF UsedPolicies

(* The rules written the other way round are the same rules.               *)
LEMMA Reversed ==
    ASSUME NEW s, Listed(s)
    PROVE  Listed(Reverse(s)) /\ ToSet(Reverse(s)) = ToSet(s)
<1>1. s \in Seq(ToSet(s))
  BY DEF Listed
<1>2. Reverse(s) \in Seq(ToSet(s)) /\ ToSet(Reverse(s)) = ToSet(s)
  BY <1>1, ReverseElements
<1> QED
  BY <1>2 DEF Listed

LEMMA RulesAlike ==
    ASSUME IsRegistry(registry), NEW d
    PROVE  /\ IsRegistry(rules)
           /\ ToSet(LookupGlobal(rules, Names, d)) = ToSet(LookupGlobal(registry, Names, d))
<1> DEFINE back == Backwards(registry)
<1>1. CASE ~w.plan[turn].backwards
  BY <1>1 DEF rules
<1>2. CASE w.plan[turn].backwards
  <2>1. rules = back
    BY <1>2 DEF rules
  <2>2. /\ back.short = registry.short /\ back.nested = registry.nested /\ back.global = Reverse(registry.global)
        /\ back.direct = Reverse(registry.direct) /\ back.indirect = Reverse(registry.indirect)
        /\ back.virtual = Reverse(registry.virtual)
    BY DEF Backwards
  <2> HIDE DEF back
  <2>3. registry \in ToSet(Registries(registry)) /\ back \in ToSet(Registries(back))
        /\ ToSet(Registries(registry)) = {registry} \cup ToSet(registry.nested)
        /\ ToSet(Registries(back)) = {back} \cup ToSet(registry.nested)
    BY <2>2, RegistriesAre DEF IsRegistry
  <2>4. /\ Listed(back.global) /\ Listed(back.direct) /\ Listed(back.indirect) /\ Listed(back.virtual)
        /\ ToSet(back.global) = ToSet(registry.global) /\ ToSet(back.virtual) = ToSet(registry.virtual)
        /\ ToSet(back.indirect) = ToSet(registry.indirect)
    BY <2>2, <2>3, Reversed DEF IsRegistry
  <2>5. IsRegistry(back)
    BY <2>2, <2>3, <2>4 DEF IsRegistry
  <2>6. Own(back, Names, d) = Own(registry, Names, d)
    BY <2>2, <2>4 DEF Own, Normalize
  <2>7. /\ ToSet(LookupGlobal(back, Names, d)) = UNION {Own(g, Names, d) : g \in ToSet(Registries(back))}
        /\ ToSet(LookupGlobal(registry, Names, d)) = UNION {Own(g, Names, d) : g \in ToSet(Registries(registry))}
    BY <2>5, GlobalRules
  <2>8. UNION {Own(g, Names, d) : g \in ToSet(Registries(back))} = UNION {Own(g, Names, d) : g \in ToSet(Registries(registry))}
    BY <2>3, <2>6
  <2> QED
    BY <2>1, <2>5, <2>7, <2>8
<1> QED
  BY <1>1, <1>2

-----------------------------------------------------------------------------
(* The policies.  The configuration an execution is at holds what all the  *)
(* handlers of the device set, and each peer made names what its pair      *)
(* named.                                                                  *)
Policies(ps)    == UNION {p.import_policy : p \in ToSet(ps)}
PairPolicies1(ms) == UNION {m.pair.local.import_policy : m \in ms}
PairPolicies(ms) == PairPolicies1(ToSet(ms))
GlobalsOf(d) ==
    LET found == LookupGlobal(rules, Names, d)
    IN ToBgpGlobalOptions(MergeGlobals([i \in DOMAIN found |-> found[i].globals]))

PoliciesInv ==
    /\ world \in DOMAIN Worlds /\ registry \in w.registries
    /\ turn \in Nat \ {0} /\ Listed(results) /\ Len(results) = turn - 1
    /\ Listed(peers) /\ Listed(made) /\ Policies(peers) = PairPolicies(made)
    /\ stage # "globals" => globals = GlobalsOf(me)
    /\ PoliciesMade

LEMMA SameRouteMap ==
    ASSUME w' = w
    PROVE  \A S : OfRouteMap(S)' = OfRouteMap(S)
BY DEF OfRouteMap, Those, Collect

(* A step of an execution.                                                 *)
LEMMA WithinExecution ==
    ASSUME PoliciesInv, UNCHANGED <<world, registry, turn, results>>,
           Listed(peers'), Listed(made'), Policies(peers') = PairPolicies(made'),
           stage' # "globals" => globals' = GlobalsOf(me)
    PROVE  PoliciesInv'
<1>1. w' = w /\ me' = me /\ rules' = rules
  BY DEF w, me, rules
<1>2. GlobalsOf(me)' = GlobalsOf(me)
  BY <1>1 DEF GlobalsOf
<1>3. \A d : Named1(d)' = Named1(d)
  BY DEF Named1
<1> \A S : OfRouteMap(S)' = OfRouteMap(S)
  BY <1>1, SameRouteMap
<1>4. \A t : (Fine(t)' <=> Fine(t)) /\ PlanOf(t)' = PlanOf(t) /\ NamedByPeers(t)' = NamedByPeers(t)
  BY <1>1 DEF Fine, PlanOf, NamedByPeers
<1>5. PoliciesMade'
  BY <1>1, <1>3, <1>4 DEF PoliciesInv, PoliciesMade
<1> QED
  BY <1>1, <1>2, <1>5 DEF PoliciesInv

(* The end of one: an error, or the policies of what it made.              *)
LEMMA ExecutionEnds ==
    ASSUME PoliciesInv, UnchangedInputs, Started, NEW r, results' = Append(results, r),
           r.raises \/ r.policies = OfRouteMap(Named1(me) \cup PairPolicies1(r.made))
    PROVE  PoliciesInv'
<1>1. w' = w /\ turn' = turn + 1 /\ turn \in Nat \ {0} /\ registry' = registry /\ world' = world
  BY DEF PoliciesInv, UnchangedInputs, Started, w
<1>2. Listed(results') /\ Len(results') = turn /\ DOMAIN results' = 1 .. turn
      /\ DOMAIN results = 1 .. turn - 1
      /\ results'[turn] = r /\ \A t \in 1 .. turn - 1 : results'[t] = results[t]
  <2>1. Listed(results) /\ Len(results) = turn - 1
    BY DEF PoliciesInv
  <2>2. results \in Seq(ToSet(results) \cup {r})
    BY <2>1, SeqMonotonic DEF Listed
  <2>3. Listed(results')
    BY <2>1, AppendElements
  <2> QED
    BY <1>1, <2>1, <2>2, <2>3, AppendProperties, SeqElements
<1>3. ASSUME NEW t \in DOMAIN results', ~results'[t].raises
      PROVE  results'[t].policies = OfRouteMap(Named1(PlanOf(t)) \cup PairPolicies1(results'[t].made))
  <2>1. CASE t = turn
    <3>1. PlanOf(t) = me
      BY <2>1 DEF PlanOf, me
    <3> QED
      BY <1>2, <1>3, <2>1, <3>1
  <2>2. CASE t # turn
    <3>1. t \in 1 .. turn - 1
      BY <1>1, <1>2, <2>2
    <3>2. Fine(t) /\ results'[t] = results[t]
      BY <1>2, <1>3, <3>1 DEF Fine
    <3>3. results[t].policies = OfRouteMap(Named1(PlanOf(t)) \cup NamedByPeers(t))
      BY <1>2, <3>1, <3>2 DEF PoliciesInv, PoliciesMade
    <3>4. NamedByPeers(t) = PairPolicies1(results'[t].made)
      BY <3>2 DEF NamedByPeers, PairPolicies1
    <3> QED
      BY <3>2, <3>3, <3>4
  <2> QED
    BY <2>1, <2>2
<1>4. PoliciesMade'
  <2> \A S : OfRouteMap(S)' = OfRouteMap(S)
    BY <1>1, SameRouteMap
  <2>1. \A d : Named1(d)' = Named1(d)
    BY <1>1 DEF Named1
  <2>2. \A t : NamedByPeers(t)' = PairPolicies1(results'[t].made) /\ PlanOf(t)' = PlanOf(t)
    BY <1>1 DEF NamedByPeers, PairPolicies1, PlanOf
  <2>3. \A t : Fine(t)' <=> t \in DOMAIN results' /\ ~results'[t].raises
    BY DEF Fine
  <2> QED
    BY <1>1, <1>3, <2>1, <2>2, <2>3 DEF PoliciesMade
<1>5. /\ stage' = "globals" /\ peers' = <<>> /\ made' = <<>>
      /\ Listed(peers') /\ Listed(made') /\ Policies(peers') = PairPolicies(made')
  <2>1. ToSet(<<>>) = {} /\ <<>> \in Seq({})
    BY DEF ToSet
  <2> QED
    BY <2>1 DEF Started, Listed, Policies, PairPolicies, PairPolicies1
<1> QED
  BY <1>1, <1>2, <1>4, <1>5 DEF PoliciesInv, w

LEMMA RaiseEnds == PoliciesInv /\ UnchangedInputs /\ Raise => PoliciesInv'
BY ExecutionEnds DEF Raise

LEMMA Configured ==
    ASSUME PoliciesInv, globals = GlobalsOf(me)
    PROVE  ExtractPolicies([globals |-> globals, peers |-> peers]) = Named1(me) \cup PairPolicies1(ToSet(made))
<1> DEFINE found == LookupGlobal(rules, Names, me)
<1>1. IsRegistry(registry)
  BY RegistryIs DEF PoliciesInv
<1>2. IsRegistry(rules) /\ ToSet(found) = ToSet(LookupGlobal(registry, Names, me))
  BY <1>1, RulesAlike
<1>3. Listed(found) /\ \A r \in ToSet(found) : Listed(r.globals.tuples) /\ PoliciesPlaced(r.globals.settings)
  BY <1>2, GlobalRules DEF IsRegistry, Own
<1>4. globals = ToBgpGlobalOptions(MergeGlobals([i \in DOMAIN found |-> found[i].globals]))
  BY DEF GlobalsOf
<1> HIDE DEF found
<1>5. /\ {x.value : x \in {y \in globals.settings : y.path.field \in PolicyFields}} \cup UsedFamiliesPolicies(globals.tuples)
             = UNION {NamedBySettings(r) \cup NamedByTuples(r) : r \in ToSet(found)}
      /\ globals.settings \subseteq UNION {r.globals.settings : r \in ToSet(found)}
  BY <1>3, <1>4, MergedNames
<1>6. Named1(me) = UNION {NamedBySettings(r) \cup NamedByTuples(r) : r \in ToSet(found)}
  BY <1>1, <1>2, NamedIs
<1> DEFINE some == {x.value : x \in {y \in globals.settings : y.path.field \in PolicyFields}}
           used == UsedFamiliesPolicies(globals.tuples)
<1>7. ExtractPolicies([globals |-> globals, peers |-> peers]) = (some \cup Policies(peers)) \cup used
  <2>1. PoliciesPlaced(globals.settings)
    BY <1>3, <1>5 DEF PoliciesPlaced
  <2>2. UsedPolicies(globals.settings, ToSet(peers)) = some \cup Policies(peers)
    BY <2>1, AllPlaces DEF Policies
  <2>3. ExtractPolicies([globals |-> globals, peers |-> peers])
            = UsedPolicies(globals.settings, ToSet(peers)) \cup UsedFamiliesPolicies(globals.tuples)
    BY DEF ExtractPolicies
  <2> HIDE DEF some
  <2> QED
    BY <2>2, <2>3
<1>8. some \cup used = Named1(me)
  BY <1>5, <1>6
<1> HIDE DEF some, used
<1>9. Policies(peers) = PairPolicies1(ToSet(made))
  BY DEF PoliciesInv, PairPolicies
<1> QED
  BY <1>7, <1>8, <1>9

(* The policies of the sessions made and to be made are those of their     *)
(* pairs, throughout execute_for.                                          *)
THEOREM PoliciesInvHolds == Spec => []PoliciesInv
<1>1. Init => PoliciesInv
  <2>1. ToSet(<<>>) = {} /\ <<>> \in Seq({}) /\ Len(<<>>) = 0 /\ DOMAIN <<>> = {}
    BY DEF ToSet
  <2> QED
    BY <2>1 DEF Init, PoliciesInv, Listed, Policies, PairPolicies, PairPolicies1, PoliciesMade, Fine
<1>2. PoliciesInv /\ [Next]_vars => PoliciesInv'
  <2> SUFFICES ASSUME PoliciesInv, [Next]_vars PROVE PoliciesInv'
    OBVIOUS
  <2>1. CASE Globals
    <3>1. UnchangedInputs /\ (Raise \/ (globals' = GlobalsOf(me) /\ UNCHANGED <<turn, peers, made, results>>))
      BY <2>1 DEF Globals, GlobalsOf
    <3> QED
      BY <3>1, RaiseEnds, WithinExecution DEF PoliciesInv, UnchangedInputs
  <2>2. CASE RunPair
    <3>1. /\ UnchangedInputs /\ stage # "globals"
          /\ Raise \/ UNCHANGED <<turn, stage, globals, peers, made, results>>
      BY <2>2 DEF RunPair
    <3> QED
      BY <3>1, RaiseEnds, WithinExecution DEF PoliciesInv, UnchangedInputs
  <2>3. CASE RunVirtual
    <3>1. /\ UnchangedInputs /\ stage # "globals"
          /\ Raise \/ UNCHANGED <<turn, stage, globals, peers, made, results>>
      BY <2>3 DEF RunVirtual
    <3> QED
      BY <3>1, RaiseEnds, WithinExecution DEF PoliciesInv, UnchangedInputs
  <2>4. CASE ApplyPair
    <3> DEFINE pair == Head(pairs).pair
               Made(name) == /\ peers' = Append(peers, ToBgpPeer(pair.local, pair.connected, pair.device, name))
                             /\ made' = Append(made, [stage |-> stage, pair |-> pair, interface |-> name])
                             /\ UNCHANGED <<turn, stage, globals, results>>
    <3>1. UnchangedInputs /\ stage # "globals" /\ (Raise \/ \E name : Made(name))
      BY <2>4 DEF ApplyPair
    <3>2. CASE \E name : Made(name)
      <4>1. PICK name : Made(name)
        BY <3>2
      <4> DEFINE p == ToBgpPeer(pair.local, pair.connected, pair.device, name)
                 m == [stage |-> stage, pair |-> pair, interface |-> name]
      <4>2. p.import_policy = pair.local.import_policy /\ m.pair.local.import_policy = pair.local.import_policy
        BY DEF ToBgpPeer
      <4>3. peers' = Append(peers, p) /\ made' = Append(made, m)
        BY <4>1
      <4> HIDE DEF p, m, pair
      <4>4. /\ Listed(peers') /\ ToSet(peers') = ToSet(peers) \cup {p}
            /\ Listed(made') /\ ToSet(made') = ToSet(made) \cup {m}
        BY <4>3, AppendElements DEF PoliciesInv
      <4>5. /\ Policies(peers') = Policies(peers) \cup p.import_policy
            /\ PairPolicies(made') = PairPolicies(made) \cup m.pair.local.import_policy
        BY <4>4 DEF Policies, PairPolicies, PairPolicies1
      <4> QED
        BY <3>1, <4>1, <4>2, <4>4, <4>5, WithinExecution DEF PoliciesInv, UnchangedInputs
    <3> QED
      BY <3>1, <3>2, RaiseEnds
  <2>5. CASE NextStage
    <3>1. stage # "globals" /\ UNCHANGED <<world, registry, turn, globals, peers, made, results>>
      BY <2>5 DEF NextStage
    <3> QED
      BY <3>1, WithinExecution DEF PoliciesInv
  <2>6. CASE Finish
    <3> DEFINE config == [globals |-> globals, peers |-> peers]
               r == [raises |-> FALSE, peers |-> ToSet(peers), globals |-> globals, made |-> ToSet(made),
                     policies |-> OfRouteMap(ExtractPolicies(config)),
                     device |-> interfaces[me]]
    <3>1. UnchangedInputs /\ Started /\ results' = Append(results, r) /\ stage # "globals"
      BY <2>6 DEF Finish
    <3>2. ExtractPolicies(config) = Named1(me) \cup PairPolicies1(ToSet(made))
      BY <3>1, Configured DEF PoliciesInv
    <3> HIDE DEF config
    <3>3. r.made = ToSet(made) /\ r.policies = OfRouteMap(ExtractPolicies(config))
      OBVIOUS
    <3> HIDE DEF r
    <3>4. r.policies = OfRouteMap(Named1(me) \cup PairPolicies1(r.made))
      BY <3>2, <3>3
    <3> QED
      BY <3>1, <3>4, ExecutionEnds
  <2>7. CASE UNCHANGED vars
    BY <2>7, WithinExecution DEF vars, PoliciesInv
  <2> QED
    BY <2>1, <2>2, <2>3, <2>4, <2>5, <2>6, <2>7 DEF Next
<1> QED
  BY <1>1, <1>2, PTL DEF Spec

(* A routing policy that a handler names anywhere in the configuration of  *)
(* a device is made for it, and no other, in the order of the route map:   *)
(* for any rules in any order, any handlers and any devices.               *)
THEOREM PoliciesAreMade == Spec => []PoliciesMade
<1>1. PoliciesInv => PoliciesMade
  BY DEF PoliciesInv
<1> QED
  BY <1>1, PoliciesInvHolds, PTL

-----------------------------------------------------------------------------
(* The sessions and their interfaces.  Every port has an interface, and a  *)
(* pair has ports that lead to its device, and one vrf and one lag at most.*)
PortsTo(d)  == ToSet(Locals(Connections(me, d)))
HasPorts(d, ifs) == \A p \in ToSet(w.ports[d]) : Physical(p) \in DOMAIN ifs

GoodJob(job) == ToSet(job.ports) \subseteq ToSet(Connections(me, Other(job.m)))
GoodPair(p)  == ToSet(p.ports) \subseteq PortsTo(p.device) /\ ~Many(p.connected.vrf) /\ ~Many(p.local.lag)
GoodPairs(ps) == \A x \in ps : GoodPair(x.pair) /\ (stage # "virtual" => x.key.fqdn = x.pair.device)
GoodMade(ms, ifs) == /\ \A m \in ms : GoodPair(m.pair) /\ (HasLag(m) => LagOf(m) \in DOMAIN ifs)
                     /\ StandThere(ms, ifs) /\ StandInVrf(ms, ifs)

Current ==
    /\ stage \in {"direct", "indirect"} => \A job \in ToSet(jobs) : GoodJob(job)
    /\ GoodPairs(ToSet(pairs)) /\ GoodMade(ToSet(made), interfaces[me])

StoodIn(rs, ifs) == \A t \in DOMAIN rs : ~rs[t].raises => StandThere(rs[t].made, ifs[PlanOf(t)])
Stood == StoodIn(results, interfaces)

StandInv ==
    /\ world \in DOMAIN Worlds /\ registry \in w.registries
    /\ turn \in 1 .. Len(w.plan) + 1 /\ Listed(results) /\ Len(results) = turn - 1
    /\ Listed(jobs) /\ Listed(pairs) /\ Listed(made)
    /\ interfaces = [d \in DOMAIN w.ports |-> interfaces[d]]
    /\ \A d \in DOMAIN w.ports : HasPorts(d, interfaces[d])
    /\ Running => Current
    /\ Stood

(* What a session does to the interfaces of its device, and no more.       *)
Grown(ifs, new) ==
    DOMAIN ifs \subseteq DOMAIN new /\ \A i \in DOMAIN ifs : ifs[i].addrs \subseteq new[i].addrs
Into(m, ifs) == IF HasLag(m) /\ LagOf(m) \notin DOMAIN ifs THEN {Physical(p) : p \in ToSet(m.pair.ports)} ELSE {}
Sets(ifs, new, m) ==
    /\ Grown(ifs, new)
    /\ \A i \in DOMAIN ifs : /\ new[i].lag = IF i \in Into(m, ifs) THEN LagOf(m) ELSE ifs[i].lag
                             /\ i # m.interface \/ m.pair.connected.vrf = {} => new[i].vrf = ifs[i].vrf
    /\ HasLag(m) => LagOf(m) \in DOMAIN new
    /\ m.interface # <<>> =>
          /\ m.interface \in DOMAIN new
          /\ m.pair.connected.vrf # {} => new[m.interface].vrf = One(m.pair.connected.vrf, "")
          /\ m.pair.local.addr # {Unnumbered} =>
                 \A a \in m.pair.local.addr : \E b \in new[m.interface].addrs : b.ip = a.ip

LEMMA InterfaceAdded ==
    ASSUME NEW ifs, NEW name
    PROVE  /\ DOMAIN AddInterface(ifs, name) = DOMAIN ifs \cup {name}
           /\ \A i \in DOMAIN ifs : AddInterface(ifs, name)[i] = ifs[i]
BY DEF AddInterface

WithLag(ifs, new, name, into) ==
    /\ DOMAIN new = DOMAIN ifs \cup {name}
    /\ \A i \in DOMAIN ifs :
          /\ new[i].addrs = ifs[i].addrs /\ new[i].vrf = ifs[i].vrf
          /\ new[i].lag = IF name \notin DOMAIN ifs /\ i \in into THEN name ELSE ifs[i].lag

LEMMA LagMade ==
    ASSUME NEW ifs, NEW lag, NEW ports
    PROVE  WithLag(ifs, MakeLag(ifs, lag, ports), <<"lag", lag>>, {Physical(p) : p \in ToSet(ports)})
<1> DEFINE new  == MakeLag(ifs, lag, ports)
           name == <<"lag", lag>>
           into == {Physical(p) : p \in ToSet(ports)}
           had  == [i \in DOMAIN ifs |-> [lag |-> IF i \in into THEN name ELSE ifs[i].lag, addrs |-> ifs[i].addrs,
                                          vrf |-> ifs[i].vrf, links |-> ifs[i].links]]
<1>1. CASE name \in DOMAIN ifs
  BY <1>1 DEF MakeLag, WithLag
<1>2. CASE name \notin DOMAIN ifs
  <2>1. new = AddInterface(had, name)
    BY <1>2 DEF MakeLag
  <2> HIDE DEF new
  <2>2. DOMAIN had = DOMAIN ifs
    OBVIOUS
  <2>3. ASSUME NEW i \in DOMAIN ifs
        PROVE  /\ had[i].addrs = ifs[i].addrs /\ had[i].vrf = ifs[i].vrf
               /\ had[i].lag = IF i \in into THEN name ELSE ifs[i].lag
    <3> HIDE DEF into, name
    <3> QED
      OBVIOUS
  <2> HIDE DEF had, name, into
  <2>4. DOMAIN new = DOMAIN ifs \cup {name} /\ \A i \in DOMAIN ifs : new[i] = had[i]
    <3>1. /\ DOMAIN AddInterface(had, name) = DOMAIN had \cup {name}
          /\ \A i \in DOMAIN had : AddInterface(had, name)[i] = had[i]
      BY InterfaceAdded
    <3> QED
      BY <2>1, <2>2, <3>1
  <2> QED
    BY <1>2, <2>3, <2>4 DEF name, into, new, WithLag
<1> QED
  BY <1>1, <1>2

(* add_addr and set_vrf on an interface that may have to be made.          *)
Changed(ifs, new, name, c) ==
    /\ DOMAIN new = DOMAIN ifs \cup {name} /\ Grown(ifs, new)
    /\ \A i \in DOMAIN ifs : /\ new[i].lag = ifs[i].lag
                             /\ i # name \/ c.vrf = {} => new[i].vrf = ifs[i].vrf
    /\ c.vrf # {} => new[name].vrf = One(c.vrf, "")
    /\ c.addr # {Unnumbered} => \A a \in c.addr : \E b \in new[name].addrs : b.ip = a.ip

LEMMA ChangesMade ==
    ASSUME NEW ifs, NEW name, NEW c
    PROVE  Changed(ifs, On(ifs, name, c).ifs, name, c)
<1> DEFINE had == AddInterface(ifs, name)
           old == had[name]
           new == On(ifs, name, c).ifs
<1>1. DOMAIN had = DOMAIN ifs \cup {name} /\ \A i \in DOMAIN ifs : had[i] = ifs[i]
  BY InterfaceAdded
<1>2. new = [had EXCEPT ![name] = WithChanges(old, c)]
  BY DEF On, Address
<1> HIDE DEF had, new
<1>3. /\ DOMAIN new = DOMAIN had /\ new[name] = WithChanges(old, c)
      /\ \A i \in DOMAIN had : i # name => new[i] = had[i]
  BY <1>1, <1>2
<1>4. WithChanges(old, c) = [lag |-> old.lag, links |-> old.links, vrf |-> One(c.vrf, old.vrf),
                            addrs |-> IF HasAddr(old, c) THEN old.addrs ELSE old.addrs \cup c.addr]
  BY DEF WithChanges
<1>5. /\ new[name].lag = old.lag /\ new[name].vrf = One(c.vrf, old.vrf)
      /\ new[name].addrs = IF HasAddr(old, c) THEN old.addrs ELSE old.addrs \cup c.addr
  BY <1>3, <1>4
<1>6. ASSUME c.addr # {Unnumbered}, NEW a \in c.addr PROVE \E b \in new[name].addrs : b.ip = a.ip
  <2>1. CASE HasAddr(old, c)
    <3>1. PICK b \in old.addrs : {b.ip} = {x.ip : x \in c.addr}
      BY <1>6, <2>1 DEF HasAddr
    <3>2. a.ip \in {x.ip : x \in c.addr}
      OBVIOUS
    <3> QED
      BY <1>5, <2>1, <3>1, <3>2
  <2>2. CASE ~HasAddr(old, c)
    BY <1>5, <2>2
  <2> QED
    BY <2>1, <2>2
<1>7. ASSUME NEW i \in DOMAIN ifs
      PROVE  /\ ifs[i].addrs \subseteq new[i].addrs /\ new[i].lag = ifs[i].lag
             /\ i # name \/ c.vrf = {} => new[i].vrf = ifs[i].vrf
  <2>1. CASE i = name
    BY <1>1, <1>5, <2>1 DEF One
  <2>2. CASE i # name
    BY <1>1, <1>3, <2>2
  <2> QED
    BY <2>1, <2>2
<1> QED
  BY <1>1, <1>3, <1>5, <1>6, <1>7 DEF Changed, Grown, One, new

(* The same for a session, when the lag of it has been made.               *)
LEMMA SessionSets ==
    ASSUME NEW ifs, NEW had, NEW m,
           DOMAIN ifs \subseteq DOMAIN had,
           \A i \in DOMAIN ifs :
               /\ had[i].addrs = ifs[i].addrs /\ had[i].vrf = ifs[i].vrf
               /\ had[i].lag = IF i \in Into(m, ifs) THEN LagOf(m) ELSE ifs[i].lag,
           HasLag(m) => LagOf(m) \in DOMAIN had
    PROVE  Sets(ifs, On(had, m.interface, InterfaceChanges(m.pair.local, m.pair.connected)).ifs, m)
<1> DEFINE c   == InterfaceChanges(m.pair.local, m.pair.connected)
           new == On(had, m.interface, c).ifs
<1>1. c.addr = m.pair.local.addr /\ c.vrf = m.pair.connected.vrf
  BY DEF InterfaceChanges
<1> HIDE DEF c
<1>2. Changed(had, new, m.interface, c)
  BY ChangesMade
<1> HIDE DEF new
<1>3. Grown(ifs, new)
  BY <1>2 DEF Changed, Grown
<1>4. Sets(ifs, new, m)
  BY <1>1, <1>2, <1>3 DEF Changed, Sets
<1> QED
  BY <1>4 DEF new, c

LEMMA PortsAre ==
    ASSUME NEW pair, Listed(Locals(Connections(me, pair.device))), GoodPair(pair)
    PROVE  Listed(PortsOf(pair)) /\ ToSet(PortsOf(pair)) = ToSet(pair.ports)
<1> DEFINE s == Locals(Connections(me, pair.device))
           A == ToSet(pair.ports)
<1>1. PortsOf(pair) = FlattenSeq([i \in DOMAIN s |-> IF s[i] \in A THEN <<s[i]>> ELSE <<>>])
  BY DEF PortsOf, Those, Collect
<1>2. A \subseteq ToSet(s)
  BY DEF GoodPair, PortsTo
<1> HIDE DEF s, A
<1>3. LET those == FlattenSeq([i \in DOMAIN s |-> IF s[i] \in A THEN <<s[i]>> ELSE <<>>])
      IN Listed(those) /\ ToSet(those) = ToSet(s) \cap A
  BY Chosen DEF s
<1> QED
  BY <1>1, <1>2, <1>3 DEF A

LEMMA DirectSets ==
    ASSUME NEW pair, Listed(Locals(Connections(me, pair.device))), GoodPair(pair),
           NEW c, c = InterfaceChanges(pair.local, pair.connected),
           NEW got, got = DirectInterface(pair, c), ~got.raises,
           NEW m, m = [stage |-> stage, pair |-> pair, interface |-> got.name]
    PROVE  Sets(interfaces[me], got.ifs, m)
<1> DEFINE ifs   == interfaces[me]
           ports == PortsOf(pair)
           had   == IF c.lag = {} THEN ifs ELSE MakeLag(ifs, One(c.lag, ""), ports)
           base  == IF c.lag # {} THEN <<"lag", One(c.lag, "")>> ELSE Physical(ports[1])
           name  == IF c.svi # {} THEN <<"svi", One(c.svi, "")>> ELSE Subif(base, c)
<1>1. m.pair = pair /\ m.interface = got.name /\ c.lag = pair.local.lag
  BY DEF InterfaceChanges
<1>2. got = On(had, name, c)
  <2>1. Refused.raises
    BY DEF Refused
  <2> HIDE DEF had, name
  <2>2. got = IF ChangesRaise(c) \/ (c.lag = {} /\ c.svi = {} /\ Len(ports) # 1) THEN Refused ELSE On(had, name, c)
    BY DEF DirectInterface, had, name
  <2> QED
    BY <2>1, <2>2
<1>3. On(had, name, c).name = name
  BY DEF On
<1> HIDE DEF had, name
<1>4. got.ifs = On(had, m.interface, InterfaceChanges(m.pair.local, m.pair.connected)).ifs
  BY <1>1, <1>2, <1>3
<1>5. (HasLag(m) <=> c.lag # {}) /\ LagOf(m) = <<"lag", One(c.lag, "")>>
  BY <1>1 DEF HasLag, LagOf
<1>6. /\ DOMAIN ifs \subseteq DOMAIN had
      /\ \A i \in DOMAIN ifs :
            /\ had[i].addrs = ifs[i].addrs /\ had[i].vrf = ifs[i].vrf
            /\ had[i].lag = IF i \in Into(m, ifs) THEN LagOf(m) ELSE ifs[i].lag
      /\ HasLag(m) => LagOf(m) \in DOMAIN had
  <2>1. CASE c.lag = {}
    BY <1>5, <2>1 DEF had, Into
  <2>2. CASE c.lag # {}
    <3> DEFINE lag == One(c.lag, "")
    <3>1. had = MakeLag(ifs, lag, ports) /\ LagOf(m) = <<"lag", lag>>
      BY <1>5, <2>2 DEF had
    <3>2. ToSet(ports) = ToSet(m.pair.ports)
      BY <1>1, PortsAre
    <3> HIDE DEF ports, ifs, lag
    <3>3. WithLag(ifs, had, LagOf(m), {Physical(p) : p \in ToSet(ports)})
      BY <1>5, <3>1, LagMade
    <3> HIDE DEF had
    <3> QED
      BY <1>5, <2>2, <3>2, <3>3 DEF WithLag, Into
  <2> QED
    BY <2>1, <2>2
<1> HIDE DEF ifs
<1>7. Sets(ifs, got.ifs, m)
  BY <1>4, <1>6, SessionSets
<1> QED
  BY <1>7 DEF ifs

LEMMA NondirectSets ==
    ASSUME NEW pair, NEW c, c = InterfaceChanges(pair.local, pair.connected),
           NEW got, got = NondirectInterface(pair, c), ~got.raises,
           NEW m, m = [stage |-> stage, pair |-> pair, interface |-> got.name]
    PROVE  Sets(interfaces[me], got.ifs, m) /\ ~HasLag(m)
<1> DEFINE ifs    == interfaces[me]
           ifname == One(pair.local.ifname, <<>>)
           name   == IF c.svi # {} THEN <<"svi", One(c.svi, "")>> ELSE Subif(ifname, c)
           none   == [raises |-> FALSE, ifs |-> ifs, name |-> <<>>]
<1>1. m.pair = pair /\ m.interface = got.name /\ c.lag = pair.local.lag
  BY DEF InterfaceChanges
<1>2. c.lag = {} /\ got = IF name = <<>> THEN none ELSE On(ifs, name, c)
  <2>1. Refused.raises
    BY DEF Refused
  <2> HIDE DEF ifs, name, ifname
  <2>2. got = IF \/ ChangesRaise(c) \/ c.lag # {} \/ (c.subif # {} /\ ifname = <<>>)
                 \/ c.subif = {} /\ c.svi = {} /\ ifname \notin DOMAIN ifs \cup {<<>>}
              THEN Refused ELSE IF name = <<>> THEN none ELSE On(ifs, name, c)
    BY DEF NondirectInterface, ifs, name, ifname
  <2> HIDE DEF none
  <2> QED
    BY <2>1, <2>2
<1> HIDE DEF name, ifs
<1>3. ~HasLag(m) /\ Into(m, ifs) = {}
  BY <1>1, <1>2 DEF HasLag, Into
<1>4. CASE name = <<>>
  <2>1. got.ifs = ifs /\ m.interface = <<>>
    BY <1>1, <1>2, <1>4
  <2>2. Sets(ifs, got.ifs, m)
    BY <1>3, <2>1 DEF Sets, Grown
  <2> QED
    BY <1>3, <2>2 DEF ifs
<1>5. CASE name # <<>>
  <2>1. On(ifs, name, c).name = name
    BY DEF On
  <2>2. got.ifs = On(ifs, m.interface, InterfaceChanges(m.pair.local, m.pair.connected)).ifs
    BY <1>1, <1>2, <1>5, <2>1
  <2>3. Sets(ifs, got.ifs, m)
    BY <1>3, <2>2, SessionSets
  <2> QED
    BY <1>3, <2>3 DEF ifs
<1> QED
  BY <1>4, <1>5

LEMMA AppliedGrows ==
    ASSUME NEW pair, Listed(Locals(Connections(me, pair.device))), GoodPair(pair),
           NEW c, c = InterfaceChanges(pair.local, pair.connected),
           NEW got, got = DirectInterface(pair, c) \/ got = NondirectInterface(pair, c)
    PROVE  Grown(interfaces[me], got.ifs)
<1>1. CASE got = Refused
  <2>1. got.ifs = interfaces[me]
    BY <1>1 DEF Refused
  <2> QED
    BY <2>1 DEF Grown
<1>2. CASE got # Refused
  <2> DEFINE m == [stage |-> stage, pair |-> pair, interface |-> got.name]
  <2>1. ~got.raises
    <3>1. \A i, n : ~On(i, n, c).raises
      BY DEF On
    <3>2. CASE got = DirectInterface(pair, c)
      <4>1. \E i, n : got = On(i, n, c)
        BY <1>2, <3>2 DEF DirectInterface
      <4> QED
        BY <3>1, <4>1
    <3>3. CASE got = NondirectInterface(pair, c)
      <4>1. got = [raises |-> FALSE, ifs |-> interfaces[me], name |-> <<>>] \/ \E i, n : got = On(i, n, c)
        BY <1>2, <3>3 DEF NondirectInterface
      <4> QED
        BY <3>1, <4>1
    <3> QED
      BY <3>2, <3>3
  <2> HIDE DEF m
  <2>2. Sets(interfaces[me], got.ifs, m)
    BY <2>1, DirectSets, NondirectSets DEF m
  <2> QED
    BY <2>2 DEF Sets
<1> QED
  BY <1>1, <1>2

(* The only lag that comes of a session is its own.                        *)
LEMMA LagsOfDirect ==
    ASSUME NEW pair, Listed(Locals(Connections(me, pair.device))), GoodPair(pair), "lag" \notin PortsTo(pair.device),
           NEW c, c = InterfaceChanges(pair.local, pair.connected),
           NEW got, got = DirectInterface(pair, c), ~got.raises,
           NEW l, <<"lag", l>> \in DOMAIN got.ifs \ DOMAIN interfaces[me]
    PROVE  pair.local.lag # {} /\ <<"lag", l>> = <<"lag", One(pair.local.lag, "")>>
<1> DEFINE ifs   == interfaces[me]
           ports == PortsOf(pair)
           lag   == <<"lag", One(c.lag, "")>>
           had   == IF c.lag = {} THEN ifs ELSE MakeLag(ifs, One(c.lag, ""), ports)
           base  == IF c.lag # {} THEN lag ELSE Physical(ports[1])
           name  == IF c.svi # {} THEN <<"svi", One(c.svi, "")>> ELSE Subif(base, c)
<1>1. c.lag = pair.local.lag
  BY DEF InterfaceChanges
<1>2. got = On(had, name, c) /\ ~(c.lag = {} /\ c.svi = {} /\ Len(ports) # 1)
  <2>1. Refused.raises
    BY DEF Refused
  <2> HIDE DEF had, name
  <2>2. got = IF ChangesRaise(c) \/ (c.lag = {} /\ c.svi = {} /\ Len(ports) # 1) THEN Refused ELSE On(had, name, c)
    BY DEF DirectInterface, had, name, base, lag
  <2> QED
    BY <2>1, <2>2
<1> HIDE DEF name
<1>3. DOMAIN had \subseteq DOMAIN ifs \cup (IF c.lag = {} THEN {} ELSE {lag})
  <2> HIDE DEF ports, ifs
  <2>1. CASE c.lag = {}
    BY <2>1
  <2>2. CASE c.lag # {}
    <3> DEFINE x == One(c.lag, "")
    <3>1. had = MakeLag(ifs, x, ports)
      BY <2>2
    <3> HIDE DEF x, had
    <3>2. DOMAIN had = DOMAIN ifs \cup {<<"lag", x>>}
      BY <3>1, LagMade DEF WithLag
    <3> QED
      BY <2>2, <3>2 DEF x
  <2> QED
    BY <2>1, <2>2
<1> HIDE DEF had
<1>4. DOMAIN got.ifs = DOMAIN had \cup {name}
  <2>1. DOMAIN On(had, name, c).ifs = DOMAIN had \cup {name}
    BY ChangesMade DEF Changed
  <2> QED
    BY <1>2, <2>1
<1>5. CASE <<"lag", l>> = name
  <2>1. c.svi = {}
    BY <1>5 DEF name
  <2>2. <<"lag", l>> = Subif(base, c)
    BY <1>5, <2>1 DEF name
  <2>3. CASE c.lag # {}
    <3>1. <<"lag", l>> = Subif(lag, c)
      BY <2>2, <2>3
    <3> DEFINE x == One(c.lag, "")  s == One(c.subif, "")
    <3>2. <<"lag", l>> = <<"lag", x>> \/ <<"lag", l>> = Append(<<"lag", x>>, s)
      BY <3>1 DEF Subif
    <3> HIDE DEF x, s
    <3>3. l = x
      BY <3>2
    <3> QED
      BY <1>1, <2>3, <3>3 DEF x
  <2>4. CASE c.lag = {}
    <3>1. Len(ports) = 1
      BY <1>2, <2>1, <2>4
    <3>2. Listed(ports) /\ ToSet(ports) \subseteq PortsTo(pair.device)
      BY PortsAre DEF GoodPair
    <3>3. ports[1] \in ToSet(ports)
      <4> HIDE DEF ports
      <4>1. DOMAIN ports = 1 .. 1 /\ ToSet(ports) = {ports[i] : i \in 1 .. 1}
        BY <3>1, <3>2, ListIs
      <4> QED
        BY <4>1
    <3> DEFINE q == ports[1]  s == One(c.subif, "")
    <3>4. <<"lag", l>> = <<q>> \/ <<"lag", l>> = Append(<<q>>, s)
      BY <2>2, <2>4 DEF Subif, Physical
    <3>5. q # "lag"
      BY <3>2, <3>3
    <3> HIDE DEF q, s
    <3>6. <<"lag", l>> # <<q>>
      OBVIOUS
    <3>7. <<"lag", l>> = Append(<<q>>, s) => q = "lag"
      OBVIOUS
    <3> QED
      BY <3>4, <3>5, <3>6, <3>7
  <2> QED
    BY <2>3, <2>4
<1>6. CASE <<"lag", l>> # name
  BY <1>1, <1>3, <1>4, <1>6
<1> QED
  BY <1>5, <1>6

(* A session more, on the interfaces that it has changed.                  *)
LEMMA OneOfOne == \A S, d : S # {} /\ ~Many(S) => S = {One(S, d)}
BY DEF Many, One

LEMMA SessionAdded ==
    ASSUME NEW ms, NEW ifs, NEW new, NEW m, GoodMade(ms, ifs), Sets(ifs, new, m), GoodPair(m.pair)
    PROVE  GoodMade(ms \cup {m}, new)
<1> DEFINE all == ms \cup {m}
<1>1. \A i \in DOMAIN ifs : i \in DOMAIN new /\ ifs[i].addrs \subseteq new[i].addrs
  BY DEF Sets, Grown
<1>2. ASSUME NEW x \in all PROVE GoodPair(x.pair) /\ (HasLag(x) => LagOf(x) \in DOMAIN new)
  <2>1. CASE x = m
    BY <2>1 DEF Sets
  <2>2. CASE x \in ms
    BY <1>1, <2>2 DEF GoodMade
  <2> QED
    BY <2>1, <2>2
<1>3. StandThere(all, new)
  <2> SUFFICES ASSUME NEW x \in all, x.interface # <<>>
               PROVE  /\ x.interface \in DOMAIN new
                      /\ x.pair.local.addr # {Unnumbered} =>
                             \A a \in x.pair.local.addr : \E b \in new[x.interface].addrs : b.ip = a.ip
    BY DEF StandThere
  <2>1. CASE x = m
    BY <2>1 DEF Sets
  <2>2. CASE x \in ms
    <3>1. /\ x.interface \in DOMAIN ifs
          /\ x.pair.local.addr # {Unnumbered} =>
                 \A a \in x.pair.local.addr : \E b \in ifs[x.interface].addrs : b.ip = a.ip
      BY <2>2 DEF GoodMade, StandThere
    <3> QED
      BY <1>1, <3>1
  <2> QED
    BY <2>1, <2>2
<1>4. StandInVrf(all, new)
  <2> SUFFICES ASSUME NEW x \in all, x.interface # <<>>, x.pair.connected.vrf # {}, OneVrf(all, x)
               PROVE  {new[x.interface].vrf} = x.pair.connected.vrf
    BY DEF StandInVrf
  <2>1. CASE x.interface = m.interface
    <3>1. m.pair.connected.vrf = x.pair.connected.vrf
      BY <2>1 DEF OneVrf
    <3>2. new[m.interface].vrf = One(m.pair.connected.vrf, "")
      BY <2>1, <3>1 DEF Sets
    <3>3. ~Many(m.pair.connected.vrf)
      BY DEF GoodPair
    <3>4. m.pair.connected.vrf = {One(m.pair.connected.vrf, "")}
      BY <3>1, <3>3, OneOfOne
    <3> QED
      BY <2>1, <3>1, <3>2, <3>4
  <2>2. CASE x.interface # m.interface
    <3>1. x \in ms /\ OneVrf(ms, x)
      BY <2>2 DEF OneVrf
    <3>2. x.interface \in DOMAIN ifs /\ {ifs[x.interface].vrf} = x.pair.connected.vrf
      BY <3>1 DEF GoodMade, StandThere, StandInVrf
    <3> QED
      BY <2>2, <3>2 DEF Sets
  <2> QED
    BY <2>1, <2>2
<1> QED
  BY <1>2, <1>3, <1>4 DEF GoodMade

-----------------------------------------------------------------------------
(* What the storage and the registries give are lists.                     *)
LEMMA WorldIs ==
    ASSUME world \in DOMAIN Worlds
    PROVE  /\ Listed(w.plan) /\ \A t \in DOMAIN w.plan : w.plan[t].device \in DOMAIN w.ports
           /\ IsFiniteSet(DOMAIN w.ports)
           /\ \A d \in DOMAIN w.ports : Listed(w.ports[d]) /\ "lag" \notin ToSet(w.ports[d])
BY WorldsAssumption DEF w, IsList, Listed

LEMMA LocalsAre ==
    ASSUME NEW s
    PROVE  /\ ToSet(Locals(s)) = {e[1] : e \in ToSet(s)}
           /\ Listed(s) => Listed(Locals(s))
<1>1. DOMAIN Locals(s) = DOMAIN s /\ \A i \in DOMAIN s : Locals(s)[i] = s[i][1]
  BY DEF Locals
<1> DEFINE t == Locals(s)
<1>2. ToSet(t) = {e[1] : e \in ToSet(s)}
  <2> HIDE DEF t
  <2>1. ASSUME NEW x \in ToSet(t) PROVE \E e \in ToSet(s) : x = e[1]
    <3>1. PICK i \in DOMAIN t : x = t[i]
      BY DEF ToSet
    <3>2. i \in DOMAIN s /\ x = s[i][1] /\ s[i] \in ToSet(s)
      BY <1>1, <3>1 DEF t, ToSet
    <3> QED
      BY <3>2
  <2>2. ASSUME NEW e \in ToSet(s) PROVE e[1] \in ToSet(t)
    <3>1. PICK i \in DOMAIN s : e = s[i]
      BY DEF ToSet
    <3>2. i \in DOMAIN t /\ t[i] = e[1]
      BY <1>1, <3>1 DEF t
    <3> QED
      BY <3>2 DEF ToSet
  <2> QED
    BY <2>1, <2>2
<1>3. ASSUME Listed(s) PROVE Listed(t)
  <2>1. Len(s) \in Nat /\ DOMAIN s = 1 .. Len(s)
    BY <1>3, ListIs
  <2>2. t = [i \in 1 .. Len(s) |-> t[i]]
    BY <2>1 DEF Locals
  <2> HIDE DEF t
  <2> QED
    BY <2>1, <2>2, Indexed
<1> QED
  BY <1>2, <1>3

LEMMA ConnectionsAre ==
    ASSUME NEW d, Listed(w.ports[d]), NEW n
    PROVE  /\ Listed(Connections(d, n)) /\ Listed(Locals(Connections(d, n)))
           /\ ToSet(Locals(Connections(d, n))) \subseteq ToSet(w.ports[d])
<1> DEFINE ports == w.ports[d]
           of(p) == LET to == {e \in Ends(d, p) : e[1] = n}
                    IN IF to = {} THEN <<>> ELSE <<<<p, (CHOOSE e \in to : TRUE)[2]>>>>
           parts == [i \in DOMAIN ports |-> of(ports[i])]
<1>1. Connections(d, n) = FlattenSeq(parts)
  BY DEF Connections, Collect
<1>2. Len(ports) \in Nat /\ DOMAIN ports = 1 .. Len(ports) /\ ToSet(ports) = {ports[i] : i \in 1 .. Len(ports)}
  BY ListIs
<1>3. ASSUME NEW p PROVE Listed(of(p)) /\ \A e \in ToSet(of(p)) : e[1] = p
  <2>1. CASE of(p) = <<>>
    BY <2>1, NoElements
  <2>2. CASE \E q : of(p) = <<<<p, q>>>>
    <3>1. PICK q : of(p) = <<<<p, q>>>>
      BY <2>2
    <3>2. Listed(of(p)) /\ ToSet(of(p)) = {<<p, q>>}
      <4> HIDE DEF of
      <4> QED
        BY <3>1, OneElement
    <3> HIDE DEF of
    <3> QED
      BY <3>2
  <2> QED
    BY <2>1, <2>2
<1> HIDE DEF of
<1>4. parts = [i \in 1 .. Len(ports) |-> parts[i]] /\ \A i \in 1 .. Len(ports) : parts[i] = of(ports[i])
  BY <1>2
<1> HIDE DEF parts, ports
<1>5. /\ Listed(FlattenSeq(parts))
      /\ ToSet(FlattenSeq(parts)) = UNION {ToSet(parts[i]) : i \in 1 .. Len(ports)}
  BY <1>2, <1>3, <1>4, Collected
<1>6. \A e \in ToSet(FlattenSeq(parts)) : e[1] \in ToSet(ports)
  BY <1>2, <1>3, <1>4, <1>5
<1> QED
  BY <1>1, <1>5, <1>6, LocalsAre DEF ports

LEMMA NeighborsListed ==
    ASSUME NEW d, Listed(w.ports[d])
    PROVE  Listed(NeighborsOf(d))
<1> DEFINE ports == w.ports[d]
           of(p) == IF Ends(d, p) = {} THEN <<>> ELSE <<(CHOOSE e \in Ends(d, p) : TRUE)[1]>>
           parts == [i \in DOMAIN ports |-> of(ports[i])]
<1>1. NeighborsOf(d) = FlattenSeq(parts)
  BY DEF NeighborsOf, Collect
<1>2. Len(ports) \in Nat /\ DOMAIN ports = 1 .. Len(ports)
  BY ListIs
<1>3. \A p : Listed(of(p))
  BY OneElement, NoElements
<1> HIDE DEF of
<1>4. parts = [i \in 1 .. Len(ports) |-> parts[i]] /\ \A i \in 1 .. Len(ports) : parts[i] = of(ports[i])
  BY <1>2
<1> HIDE DEF parts, ports
<1> QED
  BY <1>1, <1>2, <1>3, <1>4, Collected

LEMMA PairsListed ==
    ASSUME NEW reg, NEW rs, NEW names, NEW device, NEW others, Listed(rs), Listed(others)
    PROVE  Listed(OwnPairs(reg, rs, names, device, others))
<1> DEFINE ways(n, rule) == BothWays(rule, Normalize(reg, names[device]), Normalize(reg, names[n]), device, n)
           of(n) == FlattenSeq([i \in DOMAIN rs |-> ways(n, rs[i])])
           parts == [i \in DOMAIN others |-> of(others[i])]
<1>1. OwnPairs(reg, rs, names, device, others) = FlattenSeq(parts)
  BY DEF OwnPairs, Collect
<1>2. /\ Len(rs) \in Nat /\ DOMAIN rs = 1 .. Len(rs)
      /\ Len(others) \in Nat /\ DOMAIN others = 1 .. Len(others)
  BY ListIs
<1>3. ASSUME NEW n, NEW rule PROVE Listed(ways(n, rule))
  <2> DEFINE norm == Normalize(reg, names[device])
             other == Normalize(reg, names[n])
             a == IF MatchPair(rule, norm, other)
                  THEN <<[rule |-> rule, direct_order |-> TRUE, left |-> device, right |-> n]>> ELSE <<>>
             b == IF MatchPair(rule, other, norm)
                  THEN <<[rule |-> rule, direct_order |-> FALSE, left |-> n, right |-> device]>> ELSE <<>>
             S == ToSet(a) \cup ToSet(b)
  <2>1. ways(n, rule) = a \o b
    BY DEF BothWays
  <2>2. Listed(a) /\ Listed(b)
    <3> HIDE DEF norm, other
    <3> QED
      BY OneElement, NoElements
  <2> HIDE DEF ways, a, b
  <2>3. a \in Seq(S) /\ b \in Seq(S)
    BY <2>2, SeqMonotonic DEF Listed
  <2> HIDE DEF S
  <2>4. a \o b \in Seq(S)
    BY <2>3, ConcatElements
  <2> QED
    BY <2>1, <2>4, SeqElements
<1>4. ASSUME NEW n PROVE Listed(of(n))
  <2> DEFINE each == [i \in DOMAIN rs |-> ways(n, rs[i])]
  <2> HIDE DEF ways
  <2>1. each = [i \in 1 .. Len(rs) |-> each[i]] /\ \A i \in 1 .. Len(rs) : Listed(each[i])
    BY <1>2, <1>3
  <2> HIDE DEF each
  <2>2. Listed(FlattenSeq(each))
    BY <1>2, <2>1, Collected
  <2> QED
    BY <2>2 DEF each
<1> HIDE DEF of
<1>5. parts = [i \in 1 .. Len(others) |-> parts[i]] /\ \A i \in 1 .. Len(others) : parts[i] = of(others[i])
  BY <1>2
<1> HIDE DEF parts
<1> QED
  BY <1>1, <1>2, <1>4, <1>5, Collected

LEMMA LookupsListed ==
    ASSUME NEW reg, IsRegistry(reg), NEW names, NEW device
    PROVE  /\ \A others : Listed(others) => /\ Listed(LookupDirect(reg, names, device, others))
                                           /\ Listed(LookupIndirect(reg, names, device, others))
           /\ Listed(LookupVirtual(reg, names, device))
           /\ \A r \in ToSet(LookupVirtual(reg, names, device)) : Listed(r.num)
<1> DEFINE regs == Registries(reg)
           n    == Len(regs)
<1>1. Listed(regs)
  BY RegistriesAre DEF IsRegistry
<1>2. n \in Nat /\ DOMAIN regs = 1 .. n /\ \A i \in 1 .. n : regs[i] \in ToSet(regs)
  <2> HIDE DEF regs
  <2>1. n \in Nat /\ DOMAIN regs = 1 .. n /\ ToSet(regs) = {regs[i] : i \in 1 .. n}
    BY <1>1, ListIs
  <2> QED
    BY <2>1
<1>3. \A i \in 1 .. n : /\ Listed(regs[i].direct) /\ Listed(regs[i].indirect) /\ Listed(regs[i].virtual)
                        /\ \A rule \in ToSet(regs[i].virtual) : Listed(rule.num)
  BY <1>2 DEF IsRegistry
<1>4. ASSUME NEW others, Listed(others) PROVE Listed(LookupDirect(reg, names, device, others))
  <2> DEFINE parts == [i \in DOMAIN regs |-> OwnPairs(regs[i], regs[i].direct, names, device, others)]
  <2>1. LookupDirect(reg, names, device, others) = FlattenSeq(parts)
    BY DEF LookupDirect, Collect
  <2> HIDE DEF regs
  <2>2. parts = [i \in 1 .. n |-> parts[i]] /\ \A i \in 1 .. n : Listed(parts[i])
    BY <1>2, <1>3, <1>4, PairsListed
  <2> HIDE DEF parts
  <2> QED
    BY <1>2, <2>1, <2>2, Collected
<1>5. ASSUME NEW others, Listed(others) PROVE Listed(LookupIndirect(reg, names, device, others))
  <2> DEFINE parts == [i \in DOMAIN regs |-> OwnPairs(regs[i], regs[i].indirect, names, device, others)]
  <2>1. LookupIndirect(reg, names, device, others) = FlattenSeq(parts)
    BY DEF LookupIndirect, Collect
  <2> HIDE DEF regs
  <2>2. parts = [i \in 1 .. n |-> parts[i]] /\ \A i \in 1 .. n : Listed(parts[i])
    BY <1>2, <1>3, <1>5, PairsListed
  <2> HIDE DEF parts
  <2> QED
    BY <1>2, <2>1, <2>2, Collected
<1>6. /\ Listed(LookupVirtual(reg, names, device))
      /\ \A r \in ToSet(LookupVirtual(reg, names, device)) : Listed(r.num)
  <2> DEFINE parts == [i \in DOMAIN regs |-> OwnOnes(regs[i], regs[i].virtual, names, device)]
  <2>1. LookupVirtual(reg, names, device) = FlattenSeq(parts)
    BY DEF LookupVirtual, Collect
  <2> HIDE DEF regs
  <2>2. parts = [i \in 1 .. n |-> parts[i]]
    BY <1>2
  <2>3. ASSUME NEW i \in 1 .. n PROVE Listed(parts[i]) /\ ToSet(parts[i]) \subseteq ToSet(regs[i].virtual)
    BY <1>2, <1>3, OwnOnesAre
  <2> HIDE DEF parts
  <2>4. /\ Listed(FlattenSeq(parts))
        /\ ToSet(FlattenSeq(parts)) = UNION {ToSet(parts[i]) : i \in 1 .. n}
    BY <1>2, <2>2, <2>3, Collected
  <2>5. \A r \in ToSet(FlattenSeq(parts)) : \E i \in 1 .. n : r \in ToSet(regs[i].virtual)
    BY <2>3, <2>4
  <2> QED
    BY <1>3, <2>1, <2>4, <2>5
<1> QED
  BY <1>4, <1>5, <1>6
(* The jobs of a stage run for ports that lead to the neighbour.           *)
GoodJobs(js) == Listed(js) /\ \A job \in ToSet(js) : GoodJob(job)

LEMMA JobsOfMatch ==
    ASSUME NEW m, Listed(Connections(me, Other(m)))
    PROVE  GoodJobs(DirectJobs(m))
<1> DEFINE all  == Connections(me, Other(m))
           none == [m |-> m, ports |-> <<>>]
           one  == [m |-> m, ports |-> all]
           each == [i \in DOMAIN all |-> [m |-> m, ports |-> <<all[i]>>]]
<1>1. CASE Other(m) \in w.lost
  <2>1. DirectJobs(m) = <<none>>
    BY <1>1 DEF DirectJobs
  <2>2. GoodJob(none)
    BY NoElements DEF GoodJob
  <2> HIDE DEF none
  <2> QED
    BY <2>1, <2>2, OneElement DEF GoodJobs
<1>2. CASE Other(m) \notin w.lost /\ ~m.rule.separate
  <2>1. DirectJobs(m) = <<one>>
    BY <1>2 DEF DirectJobs
  <2>2. GoodJob(one)
    BY DEF GoodJob
  <2> HIDE DEF one
  <2> QED
    BY <2>1, <2>2, OneElement DEF GoodJobs
<1>3. CASE Other(m) \notin w.lost /\ m.rule.separate
  <2>1. DirectJobs(m) = each
    BY <1>3 DEF DirectJobs
  <2>2. Len(all) \in Nat /\ DOMAIN all = 1 .. Len(all) /\ ToSet(all) = {all[i] : i \in 1 .. Len(all)}
    BY ListIs
  <2>3. each = [i \in 1 .. Len(all) |-> each[i]]
    BY <2>2
  <2>4. ASSUME NEW i \in 1 .. Len(all) PROVE GoodJob(each[i])
    <3>1. each[i].m = m /\ each[i].ports = <<all[i]>>
      BY <2>2
    <3>2. ToSet(<<all[i]>>) = {all[i]}
      BY OneElement
    <3> QED
      BY <2>2, <3>1, <3>2 DEF GoodJob
  <2> HIDE DEF each
  <2>5. Listed(each) /\ ToSet(each) = {each[i] : i \in 1 .. Len(all)}
    BY <2>2, <2>3, Indexed
  <2> QED
    BY <2>1, <2>4, <2>5 DEF GoodJobs
<1> QED
  BY <1>1, <1>2, <1>3

LEMMA DirectStage ==
    ASSUME IsRegistry(registry), Listed(w.ports[me])
    PROVE  GoodJobs(Collect(LookupDirect(rules, Names, me, NeighborsOf(me)), DirectJobs))
<1> DEFINE found == LookupDirect(rules, Names, me, NeighborsOf(me))
           parts == [i \in DOMAIN found |-> DirectJobs(found[i])]
<1>1. Listed(found)
  BY RulesAlike, NeighborsListed, LookupsListed
<1>2. Len(found) \in Nat /\ DOMAIN found = 1 .. Len(found)
  BY <1>1, ListIs
<1>3. parts = [i \in 1 .. Len(found) |-> parts[i]]
  BY <1>2
<1>4. ASSUME NEW i \in 1 .. Len(found) PROVE GoodJobs(parts[i])
  BY <1>2, ConnectionsAre, JobsOfMatch
<1>5. Collect(found, DirectJobs) = FlattenSeq(parts)
  BY DEF Collect
<1> HIDE DEF found, parts
<1>6. /\ Listed(FlattenSeq(parts))
      /\ ToSet(FlattenSeq(parts)) = UNION {ToSet(parts[i]) : i \in 1 .. Len(found)}
  BY <1>2, <1>3, <1>4, Collected DEF GoodJobs
<1>7. GoodJobs(FlattenSeq(parts))
  BY <1>4, <1>6 DEF GoodJobs
<1> QED
  BY <1>5, <1>7 DEF found

LEMMA VirtualStage ==
    ASSUME IsRegistry(registry)
    PROVE  Listed(Collect(LookupVirtual(rules, Names, me), VirtualJobs))
<1> DEFINE found == LookupVirtual(rules, Names, me)
           parts == [i \in DOMAIN found |-> VirtualJobs(found[i])]
<1>1. Listed(found) /\ \A r \in ToSet(found) : Listed(r.num)
  BY RulesAlike, LookupsListed
<1>2. Len(found) \in Nat /\ DOMAIN found = 1 .. Len(found) /\ ToSet(found) = {found[i] : i \in 1 .. Len(found)}
  BY <1>1, ListIs
<1>3. parts = [i \in 1 .. Len(found) |-> parts[i]]
  BY <1>2
<1>4. ASSUME NEW r, Listed(r.num) PROVE Listed(VirtualJobs(r))
  <2>1. Len(r.num) \in Nat /\ DOMAIN r.num = 1 .. Len(r.num)
    BY <1>4, ListIs
  <2>2. VirtualJobs(r) = [i \in 1 .. Len(r.num) |-> VirtualJobs(r)[i]]
    BY <2>1 DEF VirtualJobs
  <2> QED
    BY <2>1, <2>2, Indexed
<1>5. \A i \in 1 .. Len(found) : Listed(parts[i])
  BY <1>1, <1>2, <1>4
<1>6. Collect(found, VirtualJobs) = FlattenSeq(parts)
  BY DEF Collect
<1> HIDE DEF found, parts
<1>7. Listed(FlattenSeq(parts))
  BY <1>2, <1>3, <1>5, Collected
<1> QED
  BY <1>6, <1>7 DEF found

LEMMA IndirectStage ==
    ASSUME IsRegistry(registry), IsFiniteSet(DOMAIN w.ports), NEW found,
           found = LookupIndirect(rules, Names, me, SetToSeq(DOMAIN w.ports))
    PROVE  GoodJobs([i \in DOMAIN found |-> [m |-> found[i], ports |-> <<>>]])
<1> DEFINE js == [i \in DOMAIN found |-> [m |-> found[i], ports |-> <<>>]]
<1>1. Listed(found)
  BY RulesAlike, SetListed, LookupsListed
<1>2. Len(found) \in Nat /\ DOMAIN found = 1 .. Len(found)
  BY <1>1, ListIs
<1>3. js = [i \in 1 .. Len(found) |-> js[i]] /\ \A i \in 1 .. Len(found) : js[i].ports = <<>>
  BY <1>2
<1> HIDE DEF js
<1>4. Listed(js) /\ ToSet(js) = {js[i] : i \in 1 .. Len(found)}
  BY <1>2, <1>3, Indexed
<1>5. \A i \in 1 .. Len(found) : GoodJob(js[i])
  BY <1>3, NoElements DEF GoodJob
<1> QED
  BY <1>4, <1>5 DEF GoodJobs, js
(* A pair put with those of its key has ports that lead to its device.     *)
LEMMA Clashless ==
    ASSUME NEW p, ~PairClash(p)
    PROVE  ~Many(p.connected.vrf) /\ ~Many(p.local.lag)
<1>1. ~Clash(p.local) /\ ~Clash(p.connected)
  BY DEF PairClash
<1>2. {"vrf", "lag"} \subseteq PeerFields \ {"families", "family_options"}
  BY DEF PeerFields, SessionFields
<1>3. ~Many(p.connected["vrf"]) /\ ~Many(p.local["lag"])
  BY <1>1, <1>2 DEF Clash
<1> QED
  BY <1>3

LEMMA WithIs ==
    ASSUME Listed(pairs), GoodPairs(ToSet(pairs)), stage # "virtual", NEW key, NEW pair,
           key.fqdn = pair.device, ToSet(pair.ports) \subseteq PortsTo(pair.device),
           NEW next, next = With(key, pair), \A i \in DOMAIN next : ~PairClash(next[i].pair)
    PROVE  Listed(next) /\ GoodPairs(ToSet(next))
<1> DEFINE Aimed(x) == ToSet(x.pair.ports) \subseteq PortsTo(x.pair.device) /\ x.key.fqdn = x.pair.device
           new    == [key |-> key, pair |-> pair]
           old(x) == [key |-> key, pair |-> MergePairs(x.pair, pair)]
<1>1. \A x \in ToSet(pairs) : Aimed(x)
  BY DEF GoodPairs, GoodPair
<1>2. Listed(next) /\ \A x \in ToSet(next) : Aimed(x)
  <2>1. CASE Keyed(key) = {}
    <3>1. next = Append(pairs, new)
      BY <2>1 DEF With
    <3>2. Aimed(new)
      OBVIOUS
    <3> HIDE DEF new, Aimed
    <3>3. Listed(next) /\ ToSet(next) = ToSet(pairs) \cup {new}
      BY <3>1, AppendElements
    <3> QED
      BY <1>1, <3>2, <3>3
  <2>2. CASE Keyed(key) # {}
    <3>1. next = [i \in DOMAIN pairs |-> IF pairs[i].key = key THEN old(pairs[i]) ELSE pairs[i]]
      BY <2>2 DEF With
    <3>2. ASSUME NEW x, Aimed(x), x.key = key PROVE Aimed(old(x))
      <4>1. old(x).key = key /\ old(x).pair.ports = x.pair.ports /\ old(x).pair.device = pair.device
        BY DEF MergePairs
      <4>2. pair.device = x.pair.device
        BY <3>2
      <4> HIDE DEF old
      <4> QED
        BY <3>2, <4>1, <4>2
    <3> HIDE DEF old, Aimed
    <3>3. Len(pairs) \in Nat /\ DOMAIN pairs = 1 .. Len(pairs) /\ ToSet(pairs) = {pairs[i] : i \in 1 .. Len(pairs)}
      BY ListIs
    <3>4. next = [i \in 1 .. Len(pairs) |-> next[i]]
      BY <3>1, <3>3
    <3>5. Listed(next) /\ ToSet(next) = {next[i] : i \in 1 .. Len(pairs)}
      BY <3>3, <3>4, Indexed
    <3>6. \A i \in 1 .. Len(pairs) : Aimed(next[i])
      BY <1>1, <3>1, <3>2, <3>3
    <3> QED
      BY <3>5, <3>6
  <2> QED
    BY <2>1, <2>2
<1>3. \A x \in ToSet(next) : ~PairClash(x.pair)
  BY DEF ToSet
<1>4. \A x \in ToSet(next) : ~Many(x.pair.connected.vrf) /\ ~Many(x.pair.local.lag)
  BY <1>3, Clashless
<1> QED
  BY <1>2, <1>4 DEF GoodPairs, GoodPair

-----------------------------------------------------------------------------
(* What a step leaves: the world, the device at work and what it had.      *)
LEMMA SameWorld ==
    ASSUME w' = w, me' = me
    PROVE  /\ \A d : PortsTo(d)' = PortsTo(d)
           /\ \A job : GoodJob(job)' <=> GoodJob(job)
           /\ \A p : GoodPair(p)' <=> GoodPair(p)
<1>1. \A d, p : Ends(d, p)' = Ends(d, p)
  BY DEF Ends
<1>2. \A d, n : Connections(d, n)' = Connections(d, n)
  BY <1>1 DEF Connections, Collect
<1>3. \A d : PortsTo(d)' = PortsTo(d)
  BY <1>2 DEF PortsTo, Locals
<1> QED
  BY <1>2, <1>3 DEF GoodJob, GoodPair, Other

LEMMA SameMoment ==
    ASSUME w' = w, turn' = turn
    PROVE  me' = me /\ (Running' <=> Running)
BY DEF me, Running

LEMMA AtWork ==
    ASSUME StandInv, Running
    PROVE  turn \in DOMAIN w.plan /\ me \in DOMAIN w.ports /\ Listed(w.ports[me]) /\ "lag" \notin ToSet(w.ports[me])
           /\ IsRegistry(registry) /\ IsFiniteSet(DOMAIN w.ports) /\ turn \in Nat
<1>1. /\ Listed(w.plan) /\ \A t \in DOMAIN w.plan : w.plan[t].device \in DOMAIN w.ports
      /\ IsFiniteSet(DOMAIN w.ports)
      /\ \A d \in DOMAIN w.ports : Listed(w.ports[d]) /\ "lag" \notin ToSet(w.ports[d])
  BY WorldIs DEF StandInv
<1>2. Len(w.plan) \in Nat /\ DOMAIN w.plan = 1 .. Len(w.plan)
  BY <1>1, ListIs
<1>3. turn \in DOMAIN w.plan
  BY <1>2 DEF StandInv, Running
<1>4. IsRegistry(registry)
  BY RegistryIs DEF StandInv
<1> QED
  BY <1>1, <1>2, <1>3, <1>4 DEF me

(* Sessions made keep standing when interfaces only grow.                  *)
LEMMA ThereGrows ==
    ASSUME NEW ms, NEW ifs, NEW new, StandThere(ms, ifs), Grown(ifs, new)
    PROVE  StandThere(ms, new)
BY DEF StandThere, Grown

LEMMA StoodGrows ==
    ASSUME StandInv, Running, NEW new, Grown(interfaces[me], new)
    PROVE  StoodIn(results, [interfaces EXCEPT ![me] = new])
<1> DEFINE ifs == [interfaces EXCEPT ![me] = new]
<1>1. DOMAIN interfaces = DOMAIN w.ports
  BY DEF StandInv
<1>2. ifs[me] = new /\ \A d : d # me /\ d \in DOMAIN w.ports => ifs[d] = interfaces[d]
  BY <1>1, AtWork
<1> HIDE DEF ifs
<1>3. DOMAIN results = 1 .. turn - 1 /\ turn \in Nat
  BY AtWork, ListIs DEF StandInv
<1>4. Listed(w.plan) /\ \A t \in DOMAIN w.plan : PlanOf(t) \in DOMAIN w.ports
  BY WorldIs DEF StandInv, PlanOf
<1>5. Len(w.plan) \in Nat /\ DOMAIN w.plan = 1 .. Len(w.plan)
  BY <1>4, ListIs
<1>6. ASSUME NEW t \in DOMAIN results PROVE t \in DOMAIN w.plan /\ t # turn /\ PlanOf(t) \in DOMAIN w.ports
  BY <1>3, <1>4, <1>5, AtWork
<1>7. ASSUME NEW t \in DOMAIN results, ~results[t].raises
      PROVE  StandThere(results[t].made, ifs[PlanOf(t)])
  <2>1. StandThere(results[t].made, interfaces[PlanOf(t)])
    BY <1>7 DEF StandInv, Stood, StoodIn
  <2> QED
    BY <1>2, <1>6, <2>1, ThereGrows
<1>8. StoodIn(results, ifs)
  BY <1>7 DEF StoodIn
<1> QED
  BY <1>8 DEF ifs

(* A step within an execution that leaves the interfaces.                  *)
LEMMA StandWithin ==
    ASSUME StandInv, UNCHANGED <<world, registry, turn, interfaces, made, results>>,
           Listed(jobs'), Listed(pairs'),
           Running => /\ stage' \in {"direct", "indirect"} => \A job \in ToSet(jobs') : GoodJob(job)
                      /\ \A x \in ToSet(pairs') : GoodPair(x.pair) /\ (stage' # "virtual" => x.key.fqdn = x.pair.device)
    PROVE  StandInv'
<1>1. w' = w
  BY DEF w
<1>2. me' = me /\ (Running' <=> Running)
  BY <1>1, SameMoment
<1>3. /\ \A job : GoodJob(job)' <=> GoodJob(job)
      /\ \A p : GoodPair(p)' <=> GoodPair(p)
  BY <1>1, <1>2, SameWorld
<1>4. Stood'
  <2>1. \A t : PlanOf(t)' = PlanOf(t)
    BY <1>1 DEF PlanOf
  <2> QED
    BY <2>1 DEF StandInv, Stood, StoodIn
<1>5. ASSUME Running PROVE Current'
  <2>1. Current
    BY <1>5 DEF StandInv
  <2>2. GoodMade(ToSet(made), interfaces[me])'
    BY <1>2, <1>3, <2>1 DEF Current, GoodMade
  <2>3. GoodPairs(ToSet(pairs))' /\ (stage' \in {"direct", "indirect"} => \A job \in ToSet(jobs') : GoodJob(job)')
    BY <1>3, <1>5 DEF GoodPairs
  <2> QED
    BY <2>2, <2>3 DEF Current
<1>6. \A d : HasPorts(d, interfaces[d])' <=> HasPorts(d, interfaces[d])
  BY <1>1 DEF HasPorts
<1> QED
  BY <1>1, <1>2, <1>4, <1>5, <1>6 DEF StandInv
(* The interfaces of the device at work become others.                     *)
Become(all, new) ==
    /\ all[me] = new /\ \A d \in DOMAIN w.ports : d # me => all[d] = interfaces[d]
    /\ all = [d \in DOMAIN w.ports |-> all[d]]
    /\ \A d \in DOMAIN w.ports : HasPorts(d, all[d])

LEMMA InterfacesBecome ==
    ASSUME StandInv, Running, NEW new, Grown(interfaces[me], new)
    PROVE  Become([interfaces EXCEPT ![me] = new], new)
<1> DEFINE all == [interfaces EXCEPT ![me] = new]
<1>1. DOMAIN interfaces = DOMAIN w.ports /\ me \in DOMAIN w.ports
  BY AtWork DEF StandInv
<1>2. /\ all[me] = new /\ \A d \in DOMAIN w.ports : d # me => all[d] = interfaces[d]
      /\ all = [d \in DOMAIN w.ports |-> all[d]]
  BY <1>1
<1> HIDE DEF all
<1>3. ASSUME NEW d \in DOMAIN w.ports PROVE HasPorts(d, all[d])
  <2>1. HasPorts(d, interfaces[d])
    BY DEF StandInv
  <2> QED
    BY <1>2, <2>1 DEF HasPorts, Grown
<1>4. Become(all, new)
  BY <1>2, <1>3 DEF Become
<1> QED
  BY <1>4 DEF all

LEMMA AsTheyAre ==
    ASSUME StandInv, Running
    PROVE  interfaces = [interfaces EXCEPT ![me] = interfaces[me]] /\ Grown(interfaces[me], interfaces[me])
<1>1. interfaces = [d \in DOMAIN w.ports |-> interfaces[d]]
  BY DEF StandInv
<1>2. interfaces = [interfaces EXCEPT ![me] = interfaces[me]]
  BY <1>1
<1> QED
  BY <1>2 DEF Grown

(* The end of an execution, by an error or with the sessions it made.      *)
LEMMA StandEnds ==
    ASSUME StandInv, Running, UnchangedInputs, Started, NEW r, results' = Append(results, r),
           NEW new, Grown(interfaces[me], new), interfaces' = [interfaces EXCEPT ![me] = new],
           r.raises \/ (r.made = ToSet(made) /\ new = interfaces[me])
    PROVE  StandInv'
<1>1. w' = w /\ turn' = turn + 1 /\ registry' = registry /\ world' = world
      /\ stage' = "globals" /\ jobs' = <<>> /\ pairs' = <<>> /\ made' = <<>>
  BY DEF UnchangedInputs, Started, w
<1>2. turn \in Nat /\ turn \in DOMAIN w.plan /\ me \in DOMAIN w.ports /\ PlanOf(turn) = me
  BY AtWork DEF PlanOf, me
<1>3. turn' \in (1 .. Len(w.plan) + 1)'
  <2>1. Len(w.plan) \in Nat /\ turn <= Len(w.plan)
    BY WorldIs, ListIs DEF StandInv, Running
  <2> QED
    BY <1>1, <1>2, <2>1
<1>4. Listed(results') /\ Len(results') = turn /\ DOMAIN results' = 1 .. turn
      /\ DOMAIN results = 1 .. turn - 1
      /\ results'[turn] = r /\ \A t \in 1 .. turn - 1 : results'[t] = results[t]
  <2>1. Listed(results) /\ Len(results) = turn - 1
    BY DEF StandInv
  <2>2. results \in Seq(ToSet(results) \cup {r})
    BY <2>1, SeqMonotonic DEF Listed
  <2>3. Listed(results')
    BY <2>1, AppendElements
  <2> QED
    BY <1>2, <2>1, <2>2, <2>3, AppendProperties, SeqElements
<1>5. /\ interfaces'[me] = new /\ \A d \in DOMAIN w.ports : d # me => interfaces'[d] = interfaces[d]
      /\ interfaces' = [d \in DOMAIN w.ports |-> interfaces'[d]]
      /\ \A d \in DOMAIN w.ports : HasPorts(d, interfaces'[d])
  BY InterfacesBecome DEF Become
<1>6. StoodIn(results, interfaces')
  BY StoodGrows
<1>7. ASSUME ~r.raises PROVE StandThere(r.made, interfaces'[me])
  <2>1. GoodMade(ToSet(made), interfaces[me])
    BY DEF StandInv, Current
  <2> QED
    BY <1>5, <1>7, <2>1 DEF GoodMade
<1>8. StoodIn(results', interfaces')
  <2>1. ASSUME NEW t \in DOMAIN results', ~results'[t].raises
        PROVE  StandThere(results'[t].made, interfaces'[PlanOf(t)])
    <3>1. CASE t = turn
      BY <1>2, <1>4, <1>7, <2>1, <3>1
    <3>2. CASE t # turn
      <4>1. t \in DOMAIN results /\ results'[t] = results[t]
        BY <1>2, <1>4, <3>2
      <4> QED
        BY <1>6, <2>1, <4>1 DEF StoodIn
    <3> QED
      BY <3>1, <3>2
  <2> QED
    BY <2>1 DEF StoodIn
<1>9. Stood'
  <2>1. \A t : PlanOf(t)' = PlanOf(t)
    BY <1>1 DEF PlanOf
  <2> QED
    BY <1>8, <2>1 DEF Stood, StoodIn
<1>10. Current'
  <2>1. ToSet(jobs') = {} /\ ToSet(pairs') = {} /\ ToSet(made') = {}
    BY <1>1, NoElements
  <2>2. GoodMade(ToSet(made), interfaces[me])'
    BY <2>1 DEF GoodMade, StandThere, StandInVrf
  <2> QED
    BY <1>1, <2>1, <2>2 DEF Current, GoodPairs
<1>11. Listed(jobs') /\ Listed(pairs') /\ Listed(made')
  BY <1>1, NoElements
<1>12. \A d \in DOMAIN w.ports : HasPorts(d, interfaces[d])'
  BY <1>1, <1>5 DEF HasPorts
<1>13. world \in DOMAIN Worlds /\ registry \in w.registries
  BY DEF StandInv
<1>14. (Len(results) = turn - 1)'
  BY <1>1, <1>2, <1>4
<1> QED
  BY <1>1, <1>3, <1>4, <1>5, <1>9, <1>10, <1>11, <1>12, <1>13, <1>14 DEF StandInv

LEMMA StandRaises ==
    ASSUME StandInv, Running, UnchangedInputs, Raise,
           NEW new, Grown(interfaces[me], new), interfaces' = [interfaces EXCEPT ![me] = new]
    PROVE  StandInv'
<1> DEFINE r == [raises |-> TRUE, peers |-> {}, globals |-> NoGlobals, made |-> {}, policies |-> <<>>,
                 device |-> interfaces'[me]]
<1>1. Started /\ results' = Append(results, r) /\ r.raises
  BY DEF Raise
<1> HIDE DEF r
<1> QED
  BY <1>1, StandEnds

(* A session made on an interface of the device at work.                   *)
LEMMA StandApplied ==
    ASSUME StandInv, Running, UNCHANGED <<world, registry, turn, stage, jobs, results>>, jobs = <<>>, pairs # <<>>,
           pairs' = Tail(pairs), NEW m, m.pair = Head(pairs).pair, made' = Append(made, m),
           NEW new, interfaces' = [interfaces EXCEPT ![me] = new], Sets(interfaces[me], new, m)
    PROVE  StandInv'
<1>1. w' = w /\ me' = me /\ Running' /\ Current
  <2>1. w' = w
    BY DEF w
  <2> QED
    BY <2>1, SameMoment DEF StandInv
<1>2. /\ \A job : GoodJob(job)' <=> GoodJob(job)
      /\ \A p : GoodPair(p)' <=> GoodPair(p)
  BY <1>1, SameWorld
<1>3. Grown(interfaces[me], new) /\ me \in DOMAIN w.ports
  BY AtWork DEF Sets
<1>4. /\ interfaces'[me] = new /\ \A d \in DOMAIN w.ports : d # me => interfaces'[d] = interfaces[d]
      /\ interfaces' = [d \in DOMAIN w.ports |-> interfaces'[d]]
      /\ \A d \in DOMAIN w.ports : HasPorts(d, interfaces'[d])
  BY <1>3, InterfacesBecome DEF Become
<1>5. StoodIn(results, interfaces')
  BY <1>3, StoodGrows
<1>6. Stood'
  <2>1. \A t : PlanOf(t)' = PlanOf(t)
    BY <1>1 DEF PlanOf
  <2> QED
    BY <1>5, <2>1 DEF Stood, StoodIn
<1>7. Listed(made') /\ ToSet(made') = ToSet(made) \cup {m}
  BY AppendElements DEF StandInv
<1>8. Head(pairs) \in ToSet(pairs) /\ Listed(pairs') /\ ToSet(pairs') \subseteq ToSet(pairs)
  BY HeadAndTail DEF StandInv
<1>9. GoodPairs(ToSet(pairs)) /\ GoodPairs(ToSet(pairs))' /\ GoodPair(m.pair)
  BY <1>1, <1>2, <1>8 DEF Current, GoodPairs
<1>10. GoodMade(ToSet(made) \cup {m}, new)
  BY <1>1, <1>9, SessionAdded DEF Current
<1>11. Current'
  <2>1. GoodMade(ToSet(made), interfaces[me])'
    BY <1>1, <1>2, <1>4, <1>7, <1>10 DEF GoodMade
  <2>2. ToSet(jobs') = {}
    BY NoElements
  <2> QED
    BY <1>9, <2>1, <2>2 DEF Current
<1>12. \A d \in DOMAIN w.ports : HasPorts(d, interfaces[d])'
  BY <1>1, <1>4 DEF HasPorts
<1> QED
  BY <1>1, <1>4, <1>6, <1>7, <1>8, <1>11, <1>12 DEF StandInv

LEMMA RunPairStands == StandInv /\ RunPair => StandInv'
<1> SUFFICES ASSUME StandInv, RunPair PROVE StandInv'
  OBVIOUS
<1> DEFINE job  == Head(jobs)
           s    == OnMySide(job.m, job.ports)
           pair == MadePair(s, Other(job.m), Locals(job.ports))
           key  == PeerKey(pair, Locals(job.ports))
           next == With(key, pair)
<1>1. /\ Running /\ stage \in {"direct", "indirect"} /\ jobs # <<>>
      /\ UnchangedInputs /\ UNCHANGED interfaces
      /\ \/ Raise
         \/ jobs' = Tail(jobs) /\ UNCHANGED <<turn, stage, pairs, globals, peers, made, results>>
         \/ /\ ~ \E i \in DOMAIN next : PairClash(next[i].pair)
            /\ jobs' = Tail(jobs) /\ pairs' = next
            /\ UNCHANGED <<turn, stage, globals, peers, made, results>>
  BY DEF RunPair
<1>2. Current
  BY <1>1 DEF StandInv
<1>3. /\ Head(jobs) \in ToSet(jobs) /\ Listed(Tail(jobs)) /\ ToSet(Tail(jobs)) \subseteq ToSet(jobs)
      /\ \A j \in ToSet(Tail(jobs)) : GoodJob(j)
      /\ GoodJob(job)
  BY <1>1, <1>2, HeadAndTail DEF StandInv, Current
<1>4. pair.device = Other(job.m) /\ pair.ports = Locals(job.ports) /\ key.fqdn = pair.device
  BY DEF MadePair, PeerKey
<1>5. ToSet(pair.ports) \subseteq PortsTo(pair.device)
  <2>1. ToSet(Locals(job.ports)) = {e[1] : e \in ToSet(job.ports)}
    BY LocalsAre
  <2>2. PortsTo(Other(job.m)) = {e[1] : e \in ToSet(Connections(me, Other(job.m)))}
    BY LocalsAre DEF PortsTo
  <2> QED
    BY <1>3, <1>4, <2>1, <2>2 DEF GoodJob
<1> HIDE DEF job, pair, key, s
<1>6. CASE Raise
  BY <1>1, <1>6, AsTheyAre, StandRaises
<1>7. CASE jobs' = Tail(jobs) /\ UNCHANGED <<turn, stage, pairs, globals, peers, made, results>>
  <2>1. \A x \in ToSet(pairs) : GoodPair(x.pair) /\ (stage # "virtual" => x.key.fqdn = x.pair.device)
    BY <1>2 DEF Current, GoodPairs
  <2>2. Listed(jobs') /\ Listed(pairs')
    BY <1>3, <1>7 DEF StandInv
  <2>3. UNCHANGED <<world, registry, turn, interfaces, made, results>>
    BY <1>1, <1>7 DEF UnchangedInputs
  <2> QED
    BY <1>3, <1>7, <2>1, <2>2, <2>3, StandWithin
<1>8. CASE /\ ~ \E i \in DOMAIN next : PairClash(next[i].pair)
           /\ jobs' = Tail(jobs) /\ pairs' = next
           /\ UNCHANGED <<turn, stage, globals, peers, made, results>>
  <2>1. Listed(pairs) /\ GoodPairs(ToSet(pairs)) /\ stage # "virtual"
    BY <1>1, <1>2 DEF StandInv, Current
  <2>2. \A i \in DOMAIN next : ~PairClash(next[i].pair)
    BY <1>8
  <2>3. Listed(next) /\ GoodPairs(ToSet(next))
    BY <1>4, <1>5, <2>1, <2>2, WithIs
  <2> HIDE DEF next
  <2>4. \A x \in ToSet(pairs') : GoodPair(x.pair) /\ (stage # "virtual" => x.key.fqdn = x.pair.device)
    BY <1>8, <2>3 DEF GoodPairs
  <2>5. Listed(jobs') /\ Listed(pairs')
    BY <1>3, <1>8, <2>3
  <2>6. UNCHANGED <<world, registry, turn, interfaces, made, results>>
    BY <1>1, <1>8 DEF UnchangedInputs
  <2> QED
    BY <1>3, <1>8, <2>4, <2>5, <2>6, StandWithin
<1> QED
  BY <1>1, <1>6, <1>7, <1>8

LEMMA RunVirtualStands == StandInv /\ RunVirtual => StandInv'
<1> SUFFICES ASSUME StandInv, RunVirtual PROVE StandInv'
  OBVIOUS
<1> DEFINE Made(s) == MadePair([s EXCEPT !.theirs.addr = {[a EXCEPT !.ip = Append(@, Head(jobs).num)] : a \in @}], "", <<>>)
<1>1. /\ Running /\ stage = "virtual" /\ jobs # <<>>
      /\ UnchangedInputs /\ UNCHANGED interfaces
      /\ \/ Raise
         \/ /\ jobs' = Tail(jobs)
            /\ pairs' = pairs \/ \E s : /\ ~(Clash(Made(s).local) \/ Clash(Made(s).connected))
                                        /\ pairs' = Append(pairs, [key |-> <<>>, pair |-> Made(s)])
            /\ UNCHANGED <<turn, stage, globals, peers, made, results>>
  BY DEF RunVirtual
<1>2. Current
  BY <1>1 DEF StandInv
<1>3. Listed(Tail(jobs))
  BY <1>1, HeadAndTail DEF StandInv
<1>4. CASE Raise
  BY <1>1, <1>4, AsTheyAre, StandRaises
<1>5. CASE ~Raise
  <2>1. UNCHANGED <<world, registry, turn, interfaces, made, results>> /\ stage' = "virtual" /\ Listed(jobs')
    BY <1>1, <1>3, <1>5 DEF UnchangedInputs
  <2>2. Listed(pairs) /\ \A x \in ToSet(pairs) : GoodPair(x.pair)
    BY <1>2 DEF StandInv, Current, GoodPairs
  <2>3. Listed(pairs') /\ \A x \in ToSet(pairs') : GoodPair(x.pair)
    <3>1. CASE pairs' = pairs
      BY <2>2, <3>1
    <3>2. CASE \E s : /\ ~(Clash(Made(s).local) \/ Clash(Made(s).connected))
                      /\ pairs' = Append(pairs, [key |-> <<>>, pair |-> Made(s)])
      <4>1. PICK s : /\ ~(Clash(Made(s).local) \/ Clash(Made(s).connected))
                     /\ pairs' = Append(pairs, [key |-> <<>>, pair |-> Made(s)])
        BY <3>2
      <4> DEFINE x == [key |-> <<>>, pair |-> Made(s)]
      <4>2. x.pair.samePorts /\ x.pair.ports = <<>> /\ ~Clash(x.pair.local) /\ ~Clash(x.pair.connected)
        BY <4>1 DEF MadePair
      <4>3. pairs' = Append(pairs, x)
        BY <4>1
      <4> HIDE DEF x
      <4>4. GoodPair(x.pair)
        BY <4>2, Clashless, NoElements DEF GoodPair, PairClash
      <4>5. Listed(pairs') /\ ToSet(pairs') = ToSet(pairs) \cup {x}
        BY <2>2, <4>3, AppendElements
      <4> QED
        BY <2>2, <4>4, <4>5
    <3> QED
      BY <1>1, <1>5, <3>1, <3>2
  <2> QED
    BY <2>1, <2>3, StandWithin
<1> QED
  BY <1>4, <1>5

LEMMA ApplyPairStands == StandInv /\ ApplyPair => StandInv'
<1> SUFFICES ASSUME StandInv, ApplyPair PROVE StandInv'
  OBVIOUS
<1> DEFINE pair == Head(pairs).pair
           c    == InterfaceChanges(pair.local, pair.connected)
           got  == IF stage = "direct" THEN DirectInterface(pair, c) ELSE NondirectInterface(pair, c)
           m    == [stage |-> stage, pair |-> pair, interface |-> got.name]
<1>1. /\ Running /\ stage # "globals" /\ jobs = <<>> /\ pairs # <<>>
      /\ UnchangedInputs
      /\ interfaces' = [interfaces EXCEPT ![me] = got.ifs]
      /\ \/ Raise
         \/ /\ ~got.raises /\ made' = Append(made, m) /\ pairs' = Tail(pairs)
            /\ UNCHANGED <<turn, stage, jobs, globals, results>>
  BY DEF ApplyPair
<1>2. m.pair = pair /\ m.interface = got.name
  OBVIOUS
<1>3. GoodPair(pair)
  <2>1. Head(pairs) \in ToSet(pairs)
    BY <1>1, HeadAndTail DEF StandInv
  <2> QED
    BY <1>1, <2>1 DEF StandInv, Current, GoodPairs
<1>4. Listed(w.ports[me]) /\ "lag" \notin ToSet(w.ports[me])
  BY <1>1, AtWork
<1>5. Listed(Locals(Connections(me, pair.device))) /\ "lag" \notin PortsTo(pair.device)
  BY <1>4, ConnectionsAre DEF PortsTo
<1> HIDE DEF pair, c, m
<1>6. Grown(interfaces[me], got.ifs)
  BY <1>3, <1>5, AppliedGrows DEF c
<1>7. CASE Raise
  BY <1>1, <1>6, <1>7, StandRaises
<1>8. CASE /\ ~got.raises /\ made' = Append(made, m) /\ pairs' = Tail(pairs)
           /\ UNCHANGED <<turn, stage, jobs, globals, results>>
  <2>1. CASE stage = "direct"
    <3>1. got = DirectInterface(pair, c)
      BY <2>1
    <3>2. Sets(interfaces[me], got.ifs, m)
      BY <1>3, <1>5, <1>8, <3>1, DirectSets DEF c, m
    <3> HIDE DEF got
    <3> QED
      BY <1>1, <1>2, <1>8, <2>1, <3>2, StandApplied DEF UnchangedInputs, pair
  <2>2. CASE stage # "direct"
    <3>1. got = NondirectInterface(pair, c)
      BY <2>2
    <3>2. Sets(interfaces[me], got.ifs, m) /\ ~HasLag(m)
      BY <1>8, <3>1, NondirectSets DEF c, m
    <3> HIDE DEF got
    <3> QED
      BY <1>1, <1>2, <1>8, <2>2, <3>2, StandApplied DEF UnchangedInputs, pair
  <2> QED
    BY <2>1, <2>2
<1> QED
  BY <1>1, <1>7, <1>8

LEMMA NextStageStands == StandInv /\ NextStage => StandInv'
<1> SUFFICES ASSUME StandInv, NextStage PROVE StandInv'
  OBVIOUS
<1>1. /\ Running /\ stage \in {"direct", "virtual"} /\ pairs = <<>>
      /\ UNCHANGED <<world, registry, turn, interfaces, pairs, globals, peers, made, results>>
  BY DEF NextStage
<1>2. IsRegistry(registry) /\ IsFiniteSet(DOMAIN w.ports)
  BY <1>1, AtWork
<1>3. ToSet(pairs') = {} /\ Listed(pairs')
  BY <1>1, NoElements
<1>4. stage' \in {"virtual", "indirect"} /\ Listed(jobs') /\ (stage' = "indirect" => \A job \in ToSet(jobs') : GoodJob(job))
  <2>1. CASE stage = "direct"
    <3>1. stage' = "virtual" /\ jobs' = Collect(LookupVirtual(rules, Names, me), VirtualJobs)
      BY <2>1 DEF NextStage
    <3>2. Listed(Collect(LookupVirtual(rules, Names, me), VirtualJobs))
      BY <1>2, VirtualStage
    <3> QED
      BY <3>1, <3>2
  <2>2. CASE stage # "direct"
    <3> DEFINE found == LookupIndirect(rules, Names, me, SetToSeq(DOMAIN w.ports))
    <3>1. stage' = "indirect" /\ jobs' = [i \in DOMAIN found |-> [m |-> found[i], ports |-> <<>>]]
      BY <2>2 DEF NextStage
    <3>2. GoodJobs([i \in DOMAIN found |-> [m |-> found[i], ports |-> <<>>]])
      BY <1>2, IndirectStage
    <3> QED
      BY <3>1, <3>2 DEF GoodJobs
  <2> QED
    BY <2>1, <2>2
<1> QED
  BY <1>1, <1>3, <1>4, StandWithin

LEMMA GlobalsStands == StandInv /\ Globals => StandInv'
<1> SUFFICES ASSUME StandInv, Globals PROVE StandInv'
  OBVIOUS
<1> DEFINE direct == LookupDirect(rules, Names, me, NeighborsOf(me))
<1>1. /\ Running /\ stage = "globals" /\ UnchangedInputs /\ UNCHANGED interfaces
      /\ \/ Raise
         \/ /\ stage' = "direct" /\ jobs' = Collect(direct, DirectJobs)
            /\ UNCHANGED <<turn, pairs, peers, made, results>>
  BY DEF Globals
<1>2. CASE Raise
  BY <1>1, <1>2, AsTheyAre, StandRaises
<1>3. CASE /\ stage' = "direct" /\ jobs' = Collect(direct, DirectJobs)
           /\ UNCHANGED <<turn, pairs, peers, made, results>>
  <2>1. GoodJobs(Collect(direct, DirectJobs))
    BY <1>1, AtWork, DirectStage
  <2>2. Listed(jobs') /\ \A job \in ToSet(jobs') : GoodJob(job)
    BY <1>3, <2>1 DEF GoodJobs
  <2>3. \A x \in ToSet(pairs') : GoodPair(x.pair) /\ (stage' # "virtual" => x.key.fqdn = x.pair.device)
    BY <1>1, <1>3 DEF StandInv, Current, GoodPairs
  <2>4. UNCHANGED <<world, registry, turn, interfaces, made, results>> /\ Listed(pairs')
    BY <1>1, <1>3 DEF UnchangedInputs, StandInv
  <2> QED
    BY <1>1, <1>3, <2>2, <2>3, <2>4, StandWithin
<1> QED
  BY <1>1, <1>2, <1>3

LEMMA FinishStands == StandInv /\ Finish => StandInv'
<1> SUFFICES ASSUME StandInv, Finish PROVE StandInv'
  OBVIOUS
<1> DEFINE r == [raises |-> FALSE, peers |-> ToSet(peers), globals |-> globals, made |-> ToSet(made),
                 policies |-> OfRouteMap(ExtractPolicies([globals |-> globals, peers |-> peers])),
                 device |-> interfaces[me]]
<1>1. /\ Running /\ UnchangedInputs /\ UNCHANGED interfaces /\ Started
      /\ results' = Append(results, r) /\ r.made = ToSet(made)
  BY DEF Finish
<1> HIDE DEF r
<1> QED
  BY <1>1, AsTheyAre, StandEnds

(* Sessions made so far stand on their interfaces, in every execution of   *)
(* execute_for, and interfaces only get more.                              *)
THEOREM StandInvHolds == Spec => []StandInv
<1>1. Init => StandInv
  <2> SUFFICES ASSUME Init PROVE StandInv
    OBVIOUS
  <2>1. /\ world \in DOMAIN Worlds /\ registry \in w.registries /\ turn = 1
        /\ interfaces = [d \in DOMAIN w.ports |-> NewInterfaces(d)]
        /\ jobs = <<>> /\ pairs = <<>> /\ made = <<>> /\ results = <<>>
    BY DEF Init
  <2>2. turn \in 1 .. Len(w.plan) + 1
    BY <2>1, WorldIs, ListIs
  <2>3. ToSet(<<>>) = {} /\ Listed(<<>>) /\ Len(<<>>) = 0 /\ DOMAIN <<>> = {}
    BY NoElements
  <2>4. \A d \in DOMAIN w.ports : interfaces[d] = NewInterfaces(d)
    BY <2>1
  <2>5. interfaces = [d \in DOMAIN w.ports |-> interfaces[d]]
    BY <2>1
  <2>6. ASSUME NEW d \in DOMAIN w.ports PROVE HasPorts(d, interfaces[d])
    <3>1. DOMAIN interfaces[d] = {Physical(p) : p \in ToSet(w.ports[d])}
      BY <2>4 DEF NewInterfaces
    <3> QED
      BY <3>1 DEF HasPorts
  <2>7. GoodMade({}, interfaces[me])
    BY DEF GoodMade, StandThere, StandInVrf
  <2>8. Current
    BY <2>1, <2>3, <2>6, <2>7 DEF Current, GoodPairs
  <2>9. Stood
    BY <2>1, <2>3 DEF Stood, StoodIn
  <2>10. Listed(results) /\ Len(results) = turn - 1 /\ Listed(jobs) /\ Listed(pairs) /\ Listed(made)
    BY <2>1, <2>3
  <2>11. world \in DOMAIN Worlds /\ registry \in w.registries
    BY <2>1
  <2>12. \A d \in DOMAIN w.ports : HasPorts(d, interfaces[d])
    BY <2>6
  <2> QED
    BY <2>2, <2>5, <2>8, <2>9, <2>10, <2>11, <2>12 DEF StandInv
<1>2. StandInv /\ [Next]_vars => StandInv'
  <2> SUFFICES ASSUME StandInv, UNCHANGED vars PROVE StandInv'
    BY RunPairStands, RunVirtualStands, ApplyPairStands, NextStageStands, GlobalsStands, FinishStands DEF Next
  <2>1. UNCHANGED <<world, registry, turn, interfaces, made, results, stage, jobs, pairs>>
    BY DEF vars
  <2>2. Listed(jobs') /\ Listed(pairs')
    BY <2>1 DEF StandInv
  <2>3. Running => /\ stage' \in {"direct", "indirect"} => \A job \in ToSet(jobs') : GoodJob(job)
                   /\ \A x \in ToSet(pairs') : GoodPair(x.pair) /\ (stage' # "virtual" => x.key.fqdn = x.pair.device)
    BY <2>1 DEF StandInv, Current, GoodPairs
  <2> QED
    BY <2>1, <2>2, <2>3, StandWithin
<1> QED
  BY <1>1, <1>2, PTL DEF Spec

-----------------------------------------------------------------------------
(***************************************************************************)
(* No twins.  A pair has the key it is found by, whatever was merged into  *)
(* it; pairs have different keys; and sessions of one place have one key.  *)
(***************************************************************************)
KeyOf(p) == PeerKey(p, p.ports)

LEMMA OneOfBoth ==
    ASSUME NEW S, NEW T, NEW d, ~Many(S \cup T)
    PROVE  /\ One(S, d) = One(T, d) => One(S \cup T, d) = One(T, d)
           /\ One(S \cup T, d) = d <=> One(S, d) = d /\ One(T, d) = d
<1>1. CASE S = {}
  <2>1. S \cup T = T /\ One(S, d) = d
    BY <1>1 DEF One
  <2> QED
    BY <2>1
<1>2. CASE T = {}
  <2>1. S \cup T = S /\ One(T, d) = d
    BY <1>2 DEF One
  <2> QED
    BY <2>1
<1>3. CASE S # {} /\ T # {}
  <2>1. S = S \cup T /\ T = S \cup T
    BY <1>3 DEF Many
  <2> QED
    BY <2>1
<1> QED
  BY <1>1, <1>2, <1>3

(* What a key is made of.                                                  *)
PortFor(local, ports) ==
    IF One(local.svi, "0") # "0" \/ One(local.lag, "0") # "0" \/ Len(ports) # 1 THEN "" ELSE ports[1]
Alike(a, b) ==
    /\ a.device = b.device
    /\ One(a.connected.addr, Unnumbered) = One(b.connected.addr, Unnumbered)
    /\ One(a.connected.vrf, "") = One(b.connected.vrf, "")
    /\ One(a.local.subif, "") = One(b.local.subif, "")
    /\ One(a.local.svi, "") = One(b.local.svi, "")
    /\ One(a.local.lag, "") = One(b.local.lag, "")
    /\ PortFor(a.local, a.ports) = PortFor(b.local, b.ports)

LEMMA KeyIs ==
    ASSUME NEW a, NEW b
    PROVE  KeyOf(a) = KeyOf(b) <=> Alike(a, b)
<1> DEFINE key(p) == [fqdn |-> p.device, addr |-> One(p.connected.addr, Unnumbered), vrf |-> One(p.connected.vrf, ""),
                      interface |-> [subif |-> One(p.local.subif, ""), svi |-> One(p.local.svi, ""),
                                     lag |-> One(p.local.lag, ""), port |-> PortFor(p.local, p.ports)]]
<1>1. KeyOf(a) = key(a) /\ KeyOf(b) = key(b)
  BY DEF KeyOf, PeerKey, TargetInterface, PortFor
<1>2. key(a) = key(b) => Alike(a, b)
  <2> SUFFICES ASSUME key(a) = key(b) PROVE Alike(a, b)
    OBVIOUS
  <2>1. /\ key(a).fqdn = key(b).fqdn /\ key(a).addr = key(b).addr /\ key(a).vrf = key(b).vrf
        /\ key(a).interface = key(b).interface
    OBVIOUS
  <2>2. /\ key(a).interface.subif = key(b).interface.subif /\ key(a).interface.svi = key(b).interface.svi
        /\ key(a).interface.lag = key(b).interface.lag /\ key(a).interface.port = key(b).interface.port
    BY <2>1
  <2> QED
    BY <2>1, <2>2 DEF Alike
<1>3. Alike(a, b) => key(a) = key(b)
  BY DEF Alike
<1> QED
  BY <1>1, <1>2, <1>3

(* The key is kept when a pair of the same key is merged into one.         *)
LEMMA MergedKey ==
    ASSUME NEW a, NEW b, KeyOf(a) = KeyOf(b), NEW c, c = MergePairs(a, b), ~PairClash(c)
    PROVE  KeyOf(c) = KeyOf(b) /\ c.ports = b.ports /\ c.device = b.device
<1>1. /\ c.device = b.device /\ c.ports = a.ports /\ c.samePorts = (a.samePorts /\ a.ports = b.ports)
      /\ c.local = MergeDto(a.local, b.local) /\ c.connected = MergeDto(a.connected, b.connected)
  BY DEF MergePairs
<1>2. a.ports = b.ports /\ ~Clash(c.local) /\ ~Clash(c.connected)
  BY <1>1 DEF PairClash
<1>3. {"addr", "vrf", "subif", "svi", "lag"} \subseteq PeerFields \ {"families", "family_options"}
  BY DEF PeerFields, SessionFields
<1>4. /\ c.connected.addr = a.connected.addr \cup b.connected.addr /\ ~Many(c.connected.addr)
      /\ c.connected.vrf = a.connected.vrf \cup b.connected.vrf /\ ~Many(c.connected.vrf)
      /\ c.local.subif = a.local.subif \cup b.local.subif /\ ~Many(c.local.subif)
      /\ c.local.svi = a.local.svi \cup b.local.svi /\ ~Many(c.local.svi)
      /\ c.local.lag = a.local.lag \cup b.local.lag /\ ~Many(c.local.lag)
  <2>1. ASSUME NEW f \in {"addr", "vrf", "subif", "svi", "lag"}
        PROVE  /\ c.connected[f] = a.connected[f] \cup b.connected[f] /\ ~Many(c.connected[f])
               /\ c.local[f] = a.local[f] \cup b.local[f] /\ ~Many(c.local[f])
    BY <1>1, <1>2, <1>3 DEF MergeDto, Clash
  <2>2. /\ c.connected["addr"] = a.connected["addr"] \cup b.connected["addr"] /\ ~Many(c.connected["addr"])
        /\ c.connected["vrf"] = a.connected["vrf"] \cup b.connected["vrf"] /\ ~Many(c.connected["vrf"])
        /\ c.local["subif"] = a.local["subif"] \cup b.local["subif"] /\ ~Many(c.local["subif"])
        /\ c.local["svi"] = a.local["svi"] \cup b.local["svi"] /\ ~Many(c.local["svi"])
        /\ c.local["lag"] = a.local["lag"] \cup b.local["lag"] /\ ~Many(c.local["lag"])
    BY <2>1
  <2> QED
    BY <2>2
<1>5. Alike(a, b)
  BY KeyIs
<1>6. /\ One(c.connected.addr, Unnumbered) = One(b.connected.addr, Unnumbered)
      /\ One(c.connected.vrf, "") = One(b.connected.vrf, "")
      /\ One(c.local.subif, "") = One(b.local.subif, "") /\ One(c.local.svi, "") = One(b.local.svi, "")
      /\ One(c.local.lag, "") = One(b.local.lag, "")
  <2> DEFINE none == ""
  <2>1. ASSUME NEW S, NEW T, NEW V, NEW d, V = S \cup T, ~Many(V), One(S, d) = One(T, d) PROVE One(V, d) = One(T, d)
    BY <2>1, OneOfBoth
  <2>2. /\ One(a.connected.addr, Unnumbered) = One(b.connected.addr, Unnumbered)
        /\ One(a.connected.vrf, none) = One(b.connected.vrf, none)
        /\ One(a.local.subif, none) = One(b.local.subif, none) /\ One(a.local.svi, none) = One(b.local.svi, none)
        /\ One(a.local.lag, none) = One(b.local.lag, none)
    BY <1>5 DEF Alike
  <2> HIDE DEF none
  <2>3. /\ One(c.connected.addr, Unnumbered) = One(b.connected.addr, Unnumbered)
        /\ One(c.connected.vrf, none) = One(b.connected.vrf, none)
        /\ One(c.local.subif, none) = One(b.local.subif, none) /\ One(c.local.svi, none) = One(b.local.svi, none)
        /\ One(c.local.lag, none) = One(b.local.lag, none)
    BY <1>4, <2>1, <2>2
  <2> QED
    BY <2>3 DEF none
<1>7. /\ One(c.local.svi, "0") = "0" <=> One(a.local.svi, "0") = "0" /\ One(b.local.svi, "0") = "0"
      /\ One(c.local.lag, "0") = "0" <=> One(a.local.lag, "0") = "0" /\ One(b.local.lag, "0") = "0"
  BY <1>4, OneOfBoth
<1>8. PortFor(c.local, c.ports) = PortFor(b.local, b.ports)
  BY <1>1, <1>2, <1>5, <1>7 DEF Alike, PortFor
<1>9. Alike(c, b)
  BY <1>1, <1>6, <1>8 DEF Alike
<1> QED
  BY <1>1, <1>2, <1>9, KeyIs

-----------------------------------------------------------------------------
(* Where a session is: on the interface that its pair asks for.  A direct  *)
(* session of neither a lag nor an svi has one port.                       *)
Subbed(base, local) == IF local.subif = {} THEN base ELSE Append(base, One(local.subif, ""))
Placed(m) ==
    LET l == m.pair.local
    IN /\ l.svi # {} => l.lag = {} /\ l.subif = {} /\ m.interface = <<"svi", One(l.svi, "")>>
       /\ l.svi = {} /\ l.lag # {} => m.stage = "direct" /\ m.interface = Subbed(<<"lag", One(l.lag, "")>>, l)
       /\ l.svi = {} /\ l.lag = {} /\ m.stage = "direct" =>
              \E p : m.pair.ports = <<p>> /\ m.interface = Subbed(<<p>>, l)
       /\ l.svi = {} /\ l.lag = {} /\ m.stage # "direct" =>
              \E name : Listed(name) /\ m.pair.ports = <<>> /\ m.interface = Subbed(name, l)
       /\ m.stage # "direct" => m.pair.ports = <<>>

LEMMA NotZero ==
    ASSUME NEW l, NEW ports, ~Zero(l), l.svi # {} \/ l.lag # {}
    PROVE  PortFor(l, ports) = ""
<1>1. One(l.svi, "0") # "0" \/ One(l.lag, "0") # "0"
  BY DEF Zero, One
<1> QED
  BY <1>1 DEF PortFor

LEMMA Tuples == /\ \A a, b, c, d : <<a, b>> = <<c, d>> => b = d
                /\ \A a, b, c : <<a, b>> # <<c>>
OBVIOUS

(* Sessions of one place, made alike, have one key.                        *)
OnePlace(m, n) ==
    /\ m.stage = n.stage /\ m.pair.device = n.pair.device
    /\ m.interface = n.interface /\ m.pair.connected.vrf = n.pair.connected.vrf
    /\ m.pair.connected.addr = n.pair.connected.addr
    /\ ~Zero(m.pair.local) /\ ~Zero(n.pair.local) /\ MadeAlike(m.pair.local, n.pair.local)

LEMMA OnePlaceOneKey ==
    ASSUME NEW m, NEW n, Placed(m), Placed(n), OnePlace(m, n)
    PROVE  KeyOf(m.pair) = KeyOf(n.pair)
<1> DEFINE l == m.pair.local
           k == n.pair.local
<1>1. /\ (l.svi = {} <=> k.svi = {}) /\ (l.subif = {} <=> k.subif = {}) /\ ~Zero(l) /\ ~Zero(k)
      /\ m.interface = n.interface /\ m.stage = n.stage
  BY DEF OnePlace, MadeAlike
<1> DEFINE Same == /\ One(l.subif, "") = One(k.subif, "") /\ One(l.svi, "") = One(k.svi, "")
                   /\ One(l.lag, "") = One(k.lag, "")
                   /\ PortFor(l, m.pair.ports) = PortFor(k, n.pair.ports)
<1>2. \A S, d : S = {} => One(S, d) = d
  BY DEF One
<1>3. ASSUME l.svi # {} PROVE Same
  <2>1. /\ l.lag = {} /\ l.subif = {} /\ m.interface = <<"svi", One(l.svi, "")>>
        /\ k.lag = {} /\ k.subif = {} /\ n.interface = <<"svi", One(k.svi, "")>>
    BY <1>1, <1>3 DEF Placed
  <2>2. One(l.svi, "") = One(k.svi, "")
    <3> DEFINE a == One(l.svi, "")
               b == One(k.svi, "")
    <3>1. <<"svi", a>> = <<"svi", b>>
      BY <1>1, <2>1
    <3> HIDE DEF a, b
    <3>2. a = b
      BY <3>1, Tuples
    <3> QED
      BY <3>2 DEF a, b
  <2>3. PortFor(l, m.pair.ports) = "" /\ PortFor(k, n.pair.ports) = ""
    BY <1>1, <1>3, NotZero
  <2> QED
    BY <2>1, <2>2, <2>3
<1>4. ASSUME NEW x, NEW y, Listed(x), Listed(y), Subbed(x, l) = Subbed(y, k)
      PROVE  x = y /\ One(l.subif, "") = One(k.subif, "")
  <2>1. CASE l.subif = {}
    BY <1>1, <1>4, <2>1 DEF Subbed
  <2>2. CASE l.subif # {}
    <3> DEFINE s == One(l.subif, "")
               t == One(k.subif, "")
    <3>1. Append(x, s) = Append(y, t)
      BY <1>1, <1>4, <2>2 DEF Subbed
    <3> HIDE DEF s, t
    <3>2. x = y /\ s = t
      BY <1>4, <3>1, AppendedAlike
    <3> QED
      BY <3>2 DEF s, t
  <2> QED
    BY <2>1, <2>2
<1>5. ASSUME l.svi = {} /\ m.stage = "direct" PROVE Same
  <2> DEFINE lag(h) == <<"lag", One(h, "")>>
  <2>1. PICK x : /\ Listed(x) /\ m.interface = Subbed(x, l)
                 /\ IF l.lag # {} THEN x = lag(l.lag) ELSE \E p : x = <<p>> /\ m.pair.ports = <<p>>
    <3>1. \A p : Listed(<<p>>) /\ Listed(lag(p))
      BY OneElement, TwoElements
    <3> QED
      BY <1>5, <3>1 DEF Placed
  <2>2. PICK y : /\ Listed(y) /\ n.interface = Subbed(y, k)
                 /\ IF k.lag # {} THEN y = lag(k.lag) ELSE \E p : y = <<p>> /\ n.pair.ports = <<p>>
    <3>1. \A p : Listed(<<p>>) /\ Listed(lag(p))
      BY OneElement, TwoElements
    <3> QED
      BY <1>1, <1>5, <3>1 DEF Placed
  <2>3. x = y /\ One(l.subif, "") = One(k.subif, "")
    BY <1>1, <1>4, <2>1, <2>2
  <2>4. CASE l.lag # {}
    <3>1. k.lag # {} /\ One(l.lag, "") = One(k.lag, "")
      <4> DEFINE a == One(l.lag, "")
                 b == One(k.lag, "")
      <4>1. x = <<"lag", a>> /\ (k.lag # {} => y = <<"lag", b>>) /\ (k.lag = {} => \E p : y = <<p>>)
        BY <2>1, <2>2, <2>4
      <4> HIDE DEF a, b, lag
      <4>2. k.lag # {}
        BY <2>3, <4>1, Tuples
      <4>3. a = b
        BY <2>3, <4>1, <4>2, Tuples
      <4> QED
        BY <4>2, <4>3 DEF a, b
    <3>2. PortFor(l, m.pair.ports) = "" /\ PortFor(k, n.pair.ports) = ""
      BY <1>1, <2>4, <3>1, NotZero
    <3> QED
      BY <1>1, <1>2, <1>5, <2>3, <3>1, <3>2
  <2>5. CASE l.lag = {}
    <3>1. PICK p : x = <<p>> /\ m.pair.ports = <<p>>
      BY <2>1, <2>5
    <3>2. k.lag = {}
      BY <2>2, <2>3, <3>1, Tuples
    <3>3. n.pair.ports = <<p>>
      BY <2>2, <2>3, <3>1, <3>2
    <3>4. PortFor(l, m.pair.ports) = PortFor(k, n.pair.ports)
      BY <1>1, <1>5, <2>5, <3>1, <3>2, <3>3 DEF PortFor, One
    <3> QED
      BY <1>1, <1>2, <1>5, <2>3, <2>5, <3>2, <3>4
  <2> QED
    BY <2>4, <2>5
<1>6. ASSUME l.svi = {} /\ m.stage # "direct" PROVE Same
  <2>1. l.lag = {} /\ k.lag = {} /\ m.pair.ports = <<>> /\ n.pair.ports = <<>>
    BY <1>1, <1>6 DEF Placed
  <2>2. PICK x : Listed(x) /\ m.interface = Subbed(x, l)
    BY <1>6, <2>1 DEF Placed
  <2>3. PICK y : Listed(y) /\ n.interface = Subbed(y, k)
    BY <1>1, <1>6, <2>1 DEF Placed
  <2>4. One(l.subif, "") = One(k.subif, "")
    BY <1>1, <1>4, <2>2, <2>3
  <2>5. PortFor(l, m.pair.ports) = "" /\ PortFor(k, n.pair.ports) = ""
    BY <2>1 DEF PortFor
  <2> QED
    BY <1>1, <1>2, <1>6, <2>1, <2>4, <2>5
<1> HIDE DEF Same
<1>7. Same
  BY <1>3, <1>5, <1>6
<1> QED
  BY <1>7, KeyIs DEF Alike, OnePlace, Same

(* A direct session that has one port had it when its key was made.        *)
Whole(ports, d) == ports = <<>> \/ (\E p : ports = <<p>>) \/ ports = Locals(Connections(me, d))

LEMMA OnePort ==
    ASSUME NEW pair, Listed(Locals(Connections(me, pair.device))), GoodPair(pair), Whole(pair.ports, pair.device),
           Len(PortsOf(pair)) = 1
    PROVE  pair.ports = <<PortsOf(pair)[1]>>
<1> DEFINE s     == Locals(Connections(me, pair.device))
           A     == ToSet(pair.ports)
           ports == PortsOf(pair)
<1>1. Listed(ports) /\ ToSet(ports) = A
  BY PortsAre
<1>2. ports = <<ports[1]>> /\ A = {ports[1]}
  BY <1>1, OnlyElement
<1>3. CASE pair.ports = <<>>
  BY <1>2, <1>3, NoElements
<1>4. ASSUME NEW p, pair.ports = <<p>> PROVE pair.ports = <<ports[1]>>
  <2>1. A = {p}
    BY <1>4, OneElement
  <2> QED
    BY <1>2, <1>4, <2>1
<1>5. CASE pair.ports = s
  <2>1. ports = FlattenSeq([i \in DOMAIN s |-> IF s[i] \in A THEN <<s[i]>> ELSE <<>>])
    BY DEF PortsOf, Those, Collect
  <2>2. Len(s) \in Nat /\ DOMAIN s = 1 .. Len(s) /\ A = {s[i] : i \in 1 .. Len(s)}
    BY <1>5, ListIs
  <2> HIDE DEF s, A, ports
  <2>3. [i \in DOMAIN s |-> IF s[i] \in A THEN <<s[i]>> ELSE <<>>] = [i \in 1 .. Len(s) |-> <<s[i]>>]
    BY <2>2
  <2>4. FlattenSeq([i \in 1 .. Len(s) |-> <<s[i]>>]) = s
    BY FlattenOnes DEF s
  <2>5. ports = s
    BY <2>1, <2>3, <2>4
  <2> QED
    BY <1>2, <1>5, <2>5 DEF ports
<1> QED
  BY <1>3, <1>4, <1>5 DEF Whole

LEMMA DirectPlace ==
    ASSUME NEW pair, Listed(Locals(Connections(me, pair.device))), GoodPair(pair), Whole(pair.ports, pair.device),
           NEW c, c = InterfaceChanges(pair.local, pair.connected),
           NEW got, got = DirectInterface(pair, c), ~got.raises,
           NEW m, m.stage = "direct", m.pair = pair, m.interface = got.name
    PROVE  Placed(m)
<1> DEFINE l     == pair.local
           ports == PortsOf(pair)
           had   == IF c.lag = {} THEN interfaces[me] ELSE MakeLag(interfaces[me], One(c.lag, ""), ports)
           base  == IF c.lag # {} THEN <<"lag", One(c.lag, "")>> ELSE Physical(ports[1])
           name  == IF c.svi # {} THEN <<"svi", One(c.svi, "")>> ELSE Subif(base, c)
<1>1. c.lag = l.lag /\ c.svi = l.svi /\ c.subif = l.subif
  BY DEF InterfaceChanges
<1>2. got = On(had, name, c) /\ ~ChangesRaise(c) /\ ~(c.lag = {} /\ c.svi = {} /\ Len(ports) # 1)
  <2>1. Refused.raises
    BY DEF Refused
  <2> HIDE DEF had, name
  <2>2. got = IF ChangesRaise(c) \/ (c.lag = {} /\ c.svi = {} /\ Len(ports) # 1) THEN Refused ELSE On(had, name, c)
    BY DEF DirectInterface, had, name
  <2> QED
    BY <2>1, <2>2
<1>3. m.interface = name
  <2> HIDE DEF name, had
  <2>1. On(had, name, c).name = name
    BY DEF On
  <2> QED
    BY <1>2, <2>1
<1>4. l.svi # {} => l.lag = {} /\ l.subif = {}
  BY <1>1, <1>2 DEF ChangesRaise
<1>5. l.svi = {} /\ l.lag = {} => pair.ports = <<ports[1]>>
  BY <1>1, <1>2, OnePort
<1> QED
  BY <1>1, <1>3, <1>4, <1>5 DEF Placed, Subif, Subbed, Physical

LEMMA NondirectPlace ==
    ASSUME NEW pair, pair.ports = <<>>, \A n \in pair.local.ifname : Listed(n),
           NEW c, c = InterfaceChanges(pair.local, pair.connected),
           NEW got, got = NondirectInterface(pair, c), ~got.raises,
           NEW m, m.stage # "direct", m.pair = pair, m.interface = got.name
    PROVE  Placed(m)
<1> DEFINE l      == pair.local
           ifs    == interfaces[me]
           ifname == One(pair.local.ifname, <<>>)
           name   == IF c.svi # {} THEN <<"svi", One(c.svi, "")>> ELSE Subif(ifname, c)
           none   == [raises |-> FALSE, ifs |-> ifs, name |-> <<>>]
<1>1. c.lag = l.lag /\ c.svi = l.svi /\ c.subif = l.subif
  BY DEF InterfaceChanges
<1>2. ~ChangesRaise(c) /\ c.lag = {} /\ got = IF name = <<>> THEN none ELSE On(ifs, name, c)
  <2>1. Refused.raises
    BY DEF Refused
  <2> HIDE DEF ifs, name, ifname, none
  <2>2. got = IF \/ ChangesRaise(c) \/ c.lag # {} \/ (c.subif # {} /\ ifname = <<>>)
                 \/ c.subif = {} /\ c.svi = {} /\ ifname \notin DOMAIN ifs \cup {<<>>}
              THEN Refused ELSE IF name = <<>> THEN none ELSE On(ifs, name, c)
    BY DEF NondirectInterface, ifs, name, ifname, none
  <2> QED
    BY <2>1, <2>2
<1>3. m.interface = name
  <2> HIDE DEF name
  <2>1. On(ifs, name, c).name = name /\ none.name = <<>>
    BY DEF On
  <2> QED
    BY <1>2, <2>1
<1>4. Listed(ifname)
  BY NoElements DEF One
<1>5. l.svi # {} => l.subif = {}
  BY <1>1, <1>2 DEF ChangesRaise
<1> QED
  BY <1>1, <1>2, <1>3, <1>4, <1>5 DEF Placed, Subif, Subbed

-----------------------------------------------------------------------------
(* What the rules give a stage to run.                                     *)
FitJob(st, job) ==
    /\ st = "direct" => job.ports = <<>> \/ (\E e : job.ports = <<e>>) \/ job.ports = Connections(me, Other(job.m))
    /\ st = "indirect" => job.ports = <<>> /\ NamesListed(job.m.rule.handler)
FitJobs(st, js) == \A job \in js : FitJob(st, job)

LEMMA DirectFits ==
    ASSUME NEW m, Listed(Connections(me, Other(m)))
    PROVE  Listed(DirectJobs(m)) /\ FitJobs("direct", ToSet(DirectJobs(m)))
<1> DEFINE all  == Connections(me, Other(m))
           none == [m |-> m, ports |-> <<>>]
           one  == [m |-> m, ports |-> all]
           each == [i \in DOMAIN all |-> [m |-> m, ports |-> <<all[i]>>]]
<1>1. Listed(DirectJobs(m))
  BY JobsOfMatch DEF GoodJobs
<1>2. CASE Other(m) \in w.lost
  <2>1. DirectJobs(m) = <<none>> /\ FitJob("direct", none)
    BY <1>2 DEF DirectJobs, FitJob
  <2> HIDE DEF none
  <2> QED
    BY <1>1, <2>1, OneElement DEF FitJobs
<1>3. CASE Other(m) \notin w.lost /\ ~m.rule.separate
  <2>1. DirectJobs(m) = <<one>> /\ FitJob("direct", one)
    BY <1>3 DEF DirectJobs, FitJob
  <2> HIDE DEF one
  <2> QED
    BY <1>1, <2>1, OneElement DEF FitJobs
<1>4. CASE Other(m) \notin w.lost /\ m.rule.separate
  <2>1. DirectJobs(m) = each
    BY <1>4 DEF DirectJobs
  <2>2. ASSUME NEW job \in ToSet(each) PROVE FitJob("direct", job)
    <3>1. PICK i \in DOMAIN all : job = [m |-> m, ports |-> <<all[i]>>]
      BY DEF ToSet
    <3> QED
      BY <3>1 DEF FitJob
  <2> HIDE DEF each
  <2> QED
    BY <1>1, <2>1, <2>2 DEF FitJobs
<1> QED
  BY <1>2, <1>3, <1>4

LEMMA DirectStageFits ==
    ASSUME IsRegistry(registry), Listed(w.ports[me])
    PROVE  FitJobs("direct", ToSet(Collect(LookupDirect(rules, Names, me, NeighborsOf(me)), DirectJobs)))
<1> DEFINE found  == LookupDirect(rules, Names, me, NeighborsOf(me))
           pieces == [i \in DOMAIN found |-> DirectJobs(found[i])]
<1>1. Listed(found)
  BY RulesAlike, NeighborsListed, LookupsListed
<1>2. Len(found) \in Nat /\ DOMAIN found = 1 .. Len(found)
  BY <1>1, ListIs
<1>3. pieces = [i \in 1 .. Len(found) |-> pieces[i]]
  BY <1>2
<1>4. ASSUME NEW i \in 1 .. Len(found) PROVE Listed(pieces[i]) /\ FitJobs("direct", ToSet(pieces[i]))
  BY <1>2, ConnectionsAre, DirectFits
<1>5. Collect(found, DirectJobs) = FlattenSeq(pieces)
  BY DEF Collect
<1> HIDE DEF found, pieces
<1>6. ToSet(FlattenSeq(pieces)) = UNION {ToSet(pieces[i]) : i \in 1 .. Len(found)}
  BY <1>2, <1>3, <1>4, Collected
<1>7. FitJobs("direct", ToSet(FlattenSeq(pieces)))
  BY <1>4, <1>6 DEF FitJobs
<1> QED
  BY <1>5, <1>7 DEF found

(* Whom a rule is found for, it is a rule of the registry.                 *)
OfRules(ms, rs) == \A m \in ms : m.rule \in rs

LEMMA WaysOfRule ==
    ASSUME NEW rule, NEW norm, NEW other, NEW device, NEW n
    PROVE  /\ Listed(BothWays(rule, norm, other, device, n))
           /\ OfRules(ToSet(BothWays(rule, norm, other, device, n)), {rule})
<1> DEFINE there == [rule |-> rule, direct_order |-> TRUE, left |-> device, right |-> n]
           back  == [rule |-> rule, direct_order |-> FALSE, left |-> n, right |-> device]
           a == IF MatchPair(rule, norm, other) THEN <<there>> ELSE <<>>
           b == IF MatchPair(rule, other, norm) THEN <<back>> ELSE <<>>
<1>1. there.rule = rule /\ back.rule = rule
  OBVIOUS
<1>2. BothWays(rule, norm, other, device, n) = a \o b
  BY DEF BothWays
<1> HIDE DEF there, back
<1>3. Listed(a) /\ ToSet(a) \subseteq {there} /\ Listed(b) /\ ToSet(b) \subseteq {back}
  BY OneElement, NoElements
<1> HIDE DEF a, b
<1>4. Listed(a \o b) /\ ToSet(a \o b) = ToSet(a) \cup ToSet(b)
  BY <1>3, ListsJoined
<1> QED
  BY <1>1, <1>2, <1>3, <1>4 DEF OfRules

LEMMA PairsOfRules ==
    ASSUME NEW reg, NEW rs, NEW names, NEW device, NEW others, Listed(rs), Listed(others)
    PROVE  OfRules(ToSet(OwnPairs(reg, rs, names, device, others)), ToSet(rs))
<1> DEFINE ways(n, rule) == BothWays(rule, Normalize(reg, names[device]), Normalize(reg, names[n]), device, n)
           of(n)  == FlattenSeq([i \in DOMAIN rs |-> ways(n, rs[i])])
           pieces == [i \in DOMAIN others |-> of(others[i])]
<1>1. OwnPairs(reg, rs, names, device, others) = FlattenSeq(pieces)
  BY DEF OwnPairs, Collect
<1>2. /\ Len(rs) \in Nat /\ DOMAIN rs = 1 .. Len(rs) /\ ToSet(rs) = {rs[i] : i \in 1 .. Len(rs)}
      /\ Len(others) \in Nat /\ DOMAIN others = 1 .. Len(others)
  BY ListIs
<1>3. ASSUME NEW n, NEW rule PROVE Listed(ways(n, rule)) /\ OfRules(ToSet(ways(n, rule)), {rule})
  BY WaysOfRule
<1>4. ASSUME NEW n PROVE Listed(of(n)) /\ OfRules(ToSet(of(n)), ToSet(rs))
  <2> DEFINE each == [i \in DOMAIN rs |-> ways(n, rs[i])]
  <2> HIDE DEF ways
  <2>1. each = [i \in 1 .. Len(rs) |-> each[i]]
        /\ \A i \in 1 .. Len(rs) : Listed(each[i]) /\ OfRules(ToSet(each[i]), {rs[i]})
    BY <1>2, <1>3
  <2> HIDE DEF each
  <2>2. Listed(FlattenSeq(each)) /\ ToSet(FlattenSeq(each)) = UNION {ToSet(each[i]) : i \in 1 .. Len(rs)}
    BY <1>2, <2>1, Collected
  <2>3. OfRules(ToSet(FlattenSeq(each)), ToSet(rs))
    BY <1>2, <2>1, <2>2 DEF OfRules
  <2> QED
    BY <2>2, <2>3 DEF each
<1> HIDE DEF of
<1>5. pieces = [i \in 1 .. Len(others) |-> pieces[i]]
      /\ \A i \in 1 .. Len(others) : Listed(pieces[i]) /\ OfRules(ToSet(pieces[i]), ToSet(rs))
  BY <1>2, <1>4
<1> HIDE DEF pieces
<1>6. ToSet(FlattenSeq(pieces)) = UNION {ToSet(pieces[i]) : i \in 1 .. Len(others)}
  BY <1>2, <1>5, Collected
<1> QED
  BY <1>1, <1>5, <1>6 DEF OfRules

LEMMA IndirectStageFits ==
    ASSUME IsRegistry(registry), IsFiniteSet(DOMAIN w.ports), NEW found,
           found = LookupIndirect(rules, Names, me, SetToSeq(DOMAIN w.ports))
    PROVE  FitJobs("indirect", ToSet([i \in DOMAIN found |-> [m |-> found[i], ports |-> <<>>]]))
<1> DEFINE regs   == Registries(rules)
           others == SetToSeq(DOMAIN w.ports)
           n      == Len(regs)
           pieces == [i \in DOMAIN regs |-> OwnPairs(regs[i], regs[i].indirect, Names, me, others)]
<1>1. IsRegistry(rules) /\ Listed(others)
  BY RulesAlike, SetListed
<1>2. Listed(regs)
  BY <1>1, RegistriesAre DEF IsRegistry
<1>3. n \in Nat /\ DOMAIN regs = 1 .. n /\ \A i \in 1 .. n : regs[i] \in ToSet(regs)
  <2> HIDE DEF regs
  <2>1. n \in Nat /\ DOMAIN regs = 1 .. n /\ ToSet(regs) = {regs[i] : i \in 1 .. n}
    BY <1>2, ListIs
  <2> QED
    BY <2>1
<1>4. \A i \in 1 .. n : Listed(regs[i].indirect) /\ \A rule \in ToSet(regs[i].indirect) : NamesListed(rule.handler)
  BY <1>1, <1>3 DEF IsRegistry
<1>5. found = FlattenSeq(pieces)
  BY DEF LookupIndirect, Collect
<1> HIDE DEF others
<1>6. pieces = [i \in 1 .. n |-> pieces[i]]
      /\ \A i \in 1 .. n : Listed(pieces[i]) /\ OfRules(ToSet(pieces[i]), ToSet(regs[i].indirect))
  <2> HIDE DEF regs
  <2> QED
    BY <1>1, <1>3, <1>4, PairsListed, PairsOfRules
<1> HIDE DEF pieces, regs
<1>7. ToSet(found) = UNION {ToSet(pieces[i]) : i \in 1 .. n}
  BY <1>3, <1>5, <1>6, Collected
<1>8. ASSUME NEW m \in ToSet(found) PROVE NamesListed(m.rule.handler)
  BY <1>4, <1>6, <1>7 DEF OfRules
<1> DEFINE js == [i \in DOMAIN found |-> [m |-> found[i], ports |-> <<>>]]
<1>9. ASSUME NEW job \in ToSet(js) PROVE FitJob("indirect", job)
  <2>1. PICK i \in DOMAIN found : job = [m |-> found[i], ports |-> <<>>]
    BY DEF ToSet
  <2>2. found[i] \in ToSet(found)
    BY DEF ToSet
  <2> QED
    BY <1>8, <2>1, <2>2 DEF FitJob
<1> HIDE DEF js
<1> QED
  BY <1>9 DEF FitJobs, js

(* The pairs of a stage: each with the key it has, and no key twice.       *)
FitPair(st, x) ==
    /\ x.key = KeyOf(x.pair)
    /\ st = "direct" => Whole(x.pair.ports, x.pair.device)
    /\ st = "indirect" => x.pair.ports = <<>> /\ \A n \in x.pair.local.ifname : Listed(n)
FitPairs(st, ps) == \A x \in ps : FitPair(st, x)
Apart(ps) == \A i, j \in DOMAIN ps : ps[i].key = ps[j].key => i = j

LEMMA MadeFits ==
    ASSUME NEW job, NEW st, FitJob(st, job), NEW pair,
           pair = MadePair(OnMySide(job.m, job.ports), Other(job.m), Locals(job.ports))
    PROVE  FitPair(st, [key |-> PeerKey(pair, Locals(job.ports)), pair |-> pair])
<1> DEFINE s == OnMySide(job.m, job.ports)
           x == [key |-> PeerKey(pair, Locals(job.ports)), pair |-> pair]
<1>1. /\ pair.ports = Locals(job.ports) /\ pair.device = Other(job.m)
      /\ pair.local = MergeDto(s.mine, s.session)
  BY DEF MadePair
<1>2. x.pair = pair /\ x.key = KeyOf(pair)
  BY <1>1 DEF KeyOf
<1> HIDE DEF x, s
<1>3. Locals(<<>>) = <<>> /\ \A e : Locals(<<e>>) = <<e[1]>>
  BY DEF Locals
<1>4. ASSUME st = "direct" PROVE Whole(pair.ports, pair.device)
  BY <1>1, <1>3, <1>4 DEF FitJob, Whole
<1>5. ASSUME st = "indirect" PROVE pair.ports = <<>> /\ \A n \in pair.local.ifname : Listed(n)
  <2> DEFINE h == job.m.rule.handler
  <2>1. job.ports = <<>> /\ NamesListed(h)
    BY <1>5 DEF FitJob
  <2>2. Locals(job.ports) = <<>> /\ Remotes(job.ports) = <<>>
    BY <1>3, <2>1 DEF Remotes
  <2>3. Sides(h, <<>>) = [left |-> h.left, right |-> h.right, session |-> h.session]
    BY DEF Sides
  <2> HIDE DEF h
  <2>4. s.mine \in {h.left, h.right} /\ s.session = h.session
    <3>1. s = IF job.m.direct_order THEN [mine |-> h.left, theirs |-> h.right, session |-> h.session]
                                    ELSE [mine |-> h.right, theirs |-> h.left, session |-> h.session]
      BY <2>2, <2>3 DEF OnMySide, s, h
    <3> QED
      BY <3>1
  <2>5. pair.local.ifname = s.mine.ifname \cup s.session.ifname
    <3>1. "ifname" \in PeerFields
      BY DEF PeerFields
    <3>2. pair.local["ifname"] = s.mine["ifname"] \cup s.session["ifname"]
      BY <1>1, <3>1 DEF MergeDto
    <3> QED
      BY <3>2
  <2>6. \A n \in h.left.ifname \cup h.right.ifname \cup h.session.ifname : Listed(n)
    BY <2>1 DEF NamesListed, IsList, Listed
  <2> QED
    BY <1>1, <2>2, <2>4, <2>5, <2>6
<1> QED
  BY <1>2, <1>4, <1>5 DEF FitPair, x

LEMMA MergedFits ==
    ASSUME NEW st, NEW x, NEW y, FitPair(st, x), FitPair(st, y), x.key = y.key, NEW z,
           z = [key |-> y.key, pair |-> MergePairs(x.pair, y.pair)], ~PairClash(z.pair)
    PROVE  FitPair(st, z)
<1> DEFINE p == MergePairs(x.pair, y.pair)
<1>1. z.key = y.key /\ z.pair = p
  OBVIOUS
<1>2. KeyOf(p) = KeyOf(y.pair) /\ p.ports = y.pair.ports /\ p.device = y.pair.device
  <2>1. KeyOf(x.pair) = KeyOf(y.pair) /\ ~PairClash(p)
    BY <1>1 DEF FitPair
  <2> HIDE DEF p
  <2>2. p = MergePairs(x.pair, y.pair)
    BY DEF p
  <2> QED
    BY <2>1, <2>2, MergedKey
<1>3. p.local.ifname = x.pair.local.ifname \cup y.pair.local.ifname
  <2>1. "ifname" \in PeerFields /\ p.local = MergeDto(x.pair.local, y.pair.local)
    BY DEF PeerFields, MergePairs
  <2>2. p.local["ifname"] = x.pair.local["ifname"] \cup y.pair.local["ifname"]
    BY <2>1 DEF MergeDto
  <2> QED
    BY <2>2
<1> HIDE DEF p
<1> QED
  BY <1>1, <1>2, <1>3 DEF FitPair

(* A pair put with those of its key leaves them apart.                     *)
LEMMA WithFits ==
    ASSUME NEW st, Listed(pairs), FitPairs(st, ToSet(pairs)), Apart(pairs), NEW x, FitPair(st, x),
           NEW next, next = With(x.key, x.pair), \A i \in DOMAIN next : ~PairClash(next[i].pair)
    PROVE  FitPairs(st, ToSet(next)) /\ Apart(next)
<1> DEFINE n   == Len(pairs)
           new == [key |-> x.key, pair |-> x.pair]
           with(y) == [key |-> x.key, pair |-> MergePairs(y.pair, x.pair)]
<1>1. n \in Nat /\ DOMAIN pairs = 1 .. n /\ ToSet(pairs) = {pairs[i] : i \in 1 .. n}
  BY ListIs
<1>2. CASE Keyed(x.key) = {}
  <2>1. next = Append(pairs, new) /\ new.key = x.key /\ FitPair(st, new)
    BY <1>2 DEF With, FitPair
  <2> HIDE DEF new
  <2>2. ToSet(next) = ToSet(pairs) \cup {new}
    BY <2>1, AppendElements
  <2>3. FitPairs(st, ToSet(next))
    BY <2>1, <2>2 DEF FitPairs
  <2>4. DOMAIN next = 1 .. n + 1 /\ next[n + 1] = new /\ \A i \in 1 .. n : next[i] = pairs[i]
    <3>1. pairs \in Seq(ToSet(pairs) \cup {new})
      BY SeqMonotonic DEF Listed
    <3>2. Append(pairs, new) \in Seq(ToSet(pairs) \cup {new}) /\ Len(Append(pairs, new)) = n + 1
          /\ Append(pairs, new)[n + 1] = new /\ \A i \in 1 .. n : Append(pairs, new)[i] = pairs[i]
      BY <3>1, AppendProperties
    <3> QED
      BY <2>1, <3>2, SeqElements
  <2>5. \A i \in 1 .. n : pairs[i].key # x.key
    BY <1>1, <1>2 DEF Keyed
  <2>6. Apart(next)
    <3> SUFFICES ASSUME NEW i \in 1 .. n + 1, NEW j \in 1 .. n + 1, next[i].key = next[j].key PROVE i = j
      BY <2>4 DEF Apart
    <3>1. CASE i \in 1 .. n /\ j \in 1 .. n
      BY <1>1, <2>4, <3>1 DEF Apart
    <3>2. CASE i = n + 1 \/ j = n + 1
      BY <1>1, <2>1, <2>4, <2>5, <3>2
    <3> QED
      BY <1>1, <3>1, <3>2
  <2> QED
    BY <2>3, <2>6
<1>3. CASE Keyed(x.key) # {}
  <2>1. next = [i \in DOMAIN pairs |-> IF pairs[i].key = x.key THEN with(pairs[i]) ELSE pairs[i]]
    BY <1>3 DEF With
  <2>2. \A y : with(y).key = x.key
    OBVIOUS
  <2>3. DOMAIN next = 1 .. n /\ \A i \in 1 .. n : next[i].key = pairs[i].key
    <3> HIDE DEF with
    <3> QED
      BY <1>1, <2>1, <2>2
  <2>4. Apart(next)
    BY <1>1, <2>3 DEF Apart
  <2>5. ASSUME NEW i \in 1 .. n PROVE FitPair(st, next[i])
    <3>1. FitPair(st, pairs[i]) /\ ~PairClash(next[i].pair)
      BY <1>1, <2>3 DEF FitPairs
    <3>2. CASE pairs[i].key # x.key
      BY <1>1, <2>1, <3>1, <3>2
    <3>3. CASE pairs[i].key = x.key
      <4>1. next[i] = with(pairs[i])
        BY <1>1, <2>1, <3>3
      <4> QED
        BY <3>1, <3>3, <4>1, MergedFits
    <3> QED
      BY <3>2, <3>3
  <2>6. FitPairs(st, ToSet(next))
    BY <2>3, <2>5 DEF FitPairs, ToSet
  <2> QED
    BY <2>4, <2>6
<1> QED
  BY <1>2, <1>3

LEMMA ApartTail ==
    ASSUME NEW ps, Listed(ps), ps # <<>>, Apart(ps)
    PROVE  Apart(Tail(ps)) /\ \A x \in ToSet(Tail(ps)) : x.key # Head(ps).key
<1> DEFINE n == Len(ps)
<1>1. ps \in Seq(ToSet(ps)) /\ n \in Nat /\ DOMAIN ps = 1 .. n
  BY ListIs DEF Listed
<1>2. /\ Head(ps) = ps[1] /\ DOMAIN Tail(ps) = 1 .. n - 1 /\ 1 \in 1 .. n
      /\ \A i \in 1 .. n - 1 : Tail(ps)[i] = ps[i + 1] /\ i + 1 \in 1 .. n
  BY <1>1
<1>3. Apart(Tail(ps))
  <2> SUFFICES ASSUME NEW i \in 1 .. n - 1, NEW j \in 1 .. n - 1, Tail(ps)[i].key = Tail(ps)[j].key PROVE i = j
    BY <1>2 DEF Apart
  <2>1. i + 1 = j + 1
    BY <1>1, <1>2 DEF Apart
  <2> QED
    BY <1>1, <2>1
<1>4. ASSUME NEW x \in ToSet(Tail(ps)) PROVE x.key # Head(ps).key
  <2>1. PICK i \in 1 .. n - 1 : x = ps[i + 1]
    BY <1>2 DEF ToSet
  <2>2. i + 1 # 1
    BY <1>1
  <2> QED
    BY <1>1, <1>2, <2>1, <2>2 DEF Apart
<1> QED
  BY <1>3, <1>4

LEMMA SameFits ==
    ASSUME w' = w, me' = me
    PROVE  /\ \A st, job : FitJob(st, job)' <=> FitJob(st, job)
           /\ \A st, x : FitPair(st, x)' <=> FitPair(st, x)
<1>1. \A d, p : Ends(d, p)' = Ends(d, p)
  BY DEF Ends
<1>2. \A d, n : Connections(d, n)' = Connections(d, n)
  BY <1>1 DEF Connections, Collect
<1>3. \A ports, d : Whole(ports, d)' <=> Whole(ports, d)
  BY <1>2 DEF Whole, Locals
<1> QED
  BY <1>2, <1>3 DEF FitJob, FitPair, Other

(* Of the sessions made so far, those of one key in one stage are one, and *)
(* the pairs of this stage that are left have keys of their own.           *)
MadeApart(ms) ==
    \A m, n \in ms : m.stage = n.stage /\ m.stage # "virtual" /\ KeyOf(m.pair) = KeyOf(n.pair) => m = n
MadeInPlace(ms) == \A m \in ms : m.stage # "virtual" => Placed(m)
Untwinned(ms)   == \A m, n \in ms : OnePlace(m, n) /\ m.stage # "virtual" => m = n

Stages   == {"globals", "direct", "virtual", "indirect"}
SoFar(st) ==
    {s \in {"direct", "virtual", "indirect"} :
         st # "globals" /\ (st = "direct" => s = "direct") /\ (st = "virtual" => s # "indirect")}
NotMade(st, ms)     == \A m \in ms : m.stage # st
NewKeys(st, ps, ms) == \A x \in ps, m \in ms : m.stage = st => KeyOf(m.pair) # x.key

TwinInv ==
    /\ stage \in Stages /\ (stage = "globals" => pairs = <<>>)
    /\ \A m \in ToSet(made) : m.stage \in SoFar(stage)
    /\ jobs # <<>> => NotMade(stage, ToSet(made))
    /\ stage \in {"direct", "indirect"} => /\ FitJobs(stage, ToSet(jobs)) /\ FitPairs(stage, ToSet(pairs))
                                           /\ Apart(pairs) /\ NewKeys(stage, ToSet(pairs), ToSet(made))
    /\ MadeApart(ToSet(made)) /\ MadeInPlace(ToSet(made))
    /\ \A t \in DOMAIN results : ~results[t].raises => Untwinned(results[t].made)

LEMMA UntwinnedMade == TwinInv => Untwinned(ToSet(made))
<1> SUFFICES ASSUME TwinInv, NEW m \in ToSet(made), NEW n \in ToSet(made), OnePlace(m, n), m.stage # "virtual"
             PROVE  m = n
  BY DEF Untwinned
<1>1. m.stage = n.stage /\ Placed(m) /\ Placed(n)
  BY DEF OnePlace, TwinInv, MadeInPlace
<1>2. KeyOf(m.pair) = KeyOf(n.pair)
  BY <1>1, OnePlaceOneKey
<1> QED
  BY <1>1, <1>2 DEF TwinInv, MadeApart

(* The end of an execution, and a step within one that makes no session.   *)
LEMMA TwinsEnd ==
    ASSUME TwinInv, Listed(results), Started, NEW r, results' = Append(results, r), r.raises \/ Untwinned(r.made)
    PROVE  TwinInv'
<1>1. stage' = "globals" /\ jobs' = <<>> /\ pairs' = <<>> /\ made' = <<>> /\ ToSet(<<>>) = {}
  BY NoElements DEF Started
<1>2. ASSUME NEW x \in ToSet(results') PROVE ~x.raises => Untwinned(x.made)
  <2>1. ToSet(results') = ToSet(results) \cup {r}
    BY AppendElements
  <2>2. \A y \in ToSet(results) : ~y.raises => Untwinned(y.made)
    BY DEF TwinInv, ToSet
  <2> QED
    BY <2>1, <2>2
<1>3. \A t \in DOMAIN results' : ~results'[t].raises => Untwinned(results'[t].made)
  BY <1>2 DEF ToSet
<1> QED
  BY <1>1, <1>3 DEF TwinInv, MadeApart, MadeInPlace, Stages

LEMMA TwinsRaise == TwinInv /\ Listed(results) /\ Raise => TwinInv'
<1> SUFFICES ASSUME TwinInv, Listed(results), Raise PROVE TwinInv'
  OBVIOUS
<1> DEFINE r == [raises |-> TRUE, peers |-> {}, globals |-> NoGlobals, made |-> {}, policies |-> <<>>,
                 device |-> interfaces'[me]]
<1>1. Started /\ results' = Append(results, r) /\ r.raises
  BY DEF Raise
<1> HIDE DEF r
<1> QED
  BY <1>1, TwinsEnd

LEMMA TwinsWithin ==
    ASSUME TwinInv, UNCHANGED <<world, turn, made, results>>,
           stage' \in Stages, stage' = "globals" => pairs' = <<>>, SoFar(stage) \subseteq SoFar(stage'),
           jobs' # <<>> => NotMade(stage', ToSet(made)),
           stage' \in {"direct", "indirect"} =>
               /\ FitJobs(stage', ToSet(jobs')) /\ FitPairs(stage', ToSet(pairs'))
               /\ Apart(pairs') /\ NewKeys(stage', ToSet(pairs'), ToSet(made))
    PROVE  TwinInv'
<1>1. w' = w /\ me' = me
  BY DEF w, me
<1>2. /\ \A st, job : FitJob(st, job)' <=> FitJob(st, job)
      /\ \A st, x : FitPair(st, x)' <=> FitPair(st, x)
  BY <1>1, SameFits
<1>3. stage' \in {"direct", "indirect"} => FitJobs(stage, ToSet(jobs))' /\ FitPairs(stage, ToSet(pairs))'
  BY <1>2 DEF FitJobs, FitPairs
<1>4. \A m \in ToSet(made)' : m.stage \in SoFar(stage)'
  BY DEF TwinInv
<1> QED
  BY <1>3, <1>4 DEF TwinInv

LEMMA RunPairTwins == StandInv /\ TwinInv /\ RunPair => TwinInv'
<1> SUFFICES ASSUME StandInv, TwinInv, RunPair PROVE TwinInv'
  OBVIOUS
<1> DEFINE job  == Head(jobs)
           s    == OnMySide(job.m, job.ports)
           pair == MadePair(s, Other(job.m), Locals(job.ports))
           x    == [key |-> PeerKey(pair, Locals(job.ports)), pair |-> pair]
           next == With(x.key, x.pair)
<1>1. /\ stage \in {"direct", "indirect"} /\ jobs # <<>> /\ UnchangedInputs
      /\ \/ Raise
         \/ jobs' = Tail(jobs) /\ UNCHANGED <<turn, stage, pairs, globals, peers, made, results>>
         \/ /\ ~ \E i \in DOMAIN next : PairClash(next[i].pair)
            /\ jobs' = Tail(jobs) /\ pairs' = next
            /\ UNCHANGED <<turn, stage, globals, peers, made, results>>
  BY DEF RunPair
<1>2. Listed(jobs) /\ Listed(pairs) /\ Listed(results)
  BY DEF StandInv
<1>3. job \in ToSet(jobs) /\ ToSet(Tail(jobs)) \subseteq ToSet(jobs)
  BY <1>1, <1>2, HeadAndTail
<1>4. FitJobs(stage, ToSet(jobs)) /\ FitPairs(stage, ToSet(pairs)) /\ Apart(pairs) /\ NotMade(stage, ToSet(made))
  BY <1>1 DEF TwinInv
<1>5. FitJob(stage, job) /\ FitJobs(stage, ToSet(Tail(jobs)))
  BY <1>3, <1>4 DEF FitJobs
<1>6. FitPair(stage, x)
  BY <1>5, MadeFits
<1> HIDE DEF x, job
<1>7. CASE Raise
  BY <1>2, <1>7, TwinsRaise
<1>8. CASE jobs' = Tail(jobs) /\ UNCHANGED <<turn, stage, pairs, globals, peers, made, results>>
  <2>1. NewKeys(stage, ToSet(pairs), ToSet(made)) /\ stage \in Stages
    BY <1>1 DEF TwinInv
  <2> QED
    BY <1>1, <1>4, <1>5, <1>8, <2>1, TwinsWithin DEF UnchangedInputs
<1>9. CASE /\ ~ \E i \in DOMAIN next : PairClash(next[i].pair)
           /\ jobs' = Tail(jobs) /\ pairs' = next
           /\ UNCHANGED <<turn, stage, globals, peers, made, results>>
  <2>1. FitPairs(stage, ToSet(next)) /\ Apart(next)
    <3>1. \A i \in DOMAIN next : ~PairClash(next[i].pair)
      BY <1>9
    <3> QED
      BY <1>2, <1>4, <1>6, <3>1, WithFits
  <2> HIDE DEF next
  <2>2. NewKeys(stage, ToSet(next), ToSet(made)) /\ stage \in Stages /\ stage # "globals"
    BY <1>1, <1>4 DEF NotMade, NewKeys, Stages
  <2>3. UNCHANGED <<world, turn, made, results>> /\ stage' = stage /\ pairs' = next /\ jobs' = Tail(jobs)
    BY <1>1, <1>9 DEF UnchangedInputs
  <2> QED
    BY <1>4, <1>5, <2>1, <2>2, <2>3, TwinsWithin
<1> QED
  BY <1>1, <1>7, <1>8, <1>9

LEMMA RunVirtualTwins == StandInv /\ TwinInv /\ RunVirtual => TwinInv'
<1> SUFFICES ASSUME StandInv, TwinInv, RunVirtual PROVE TwinInv'
  OBVIOUS
<1>1. /\ stage = "virtual" /\ jobs # <<>> /\ UnchangedInputs
      /\ Raise \/ UNCHANGED <<turn, stage, globals, peers, made, results>>
  BY DEF RunVirtual
<1>2. CASE Raise
  BY <1>2, TwinsRaise DEF StandInv
<1>3. CASE UNCHANGED <<turn, stage, globals, peers, made, results>>
  BY <1>1, <1>3, TwinsWithin DEF TwinInv, UnchangedInputs, Stages
<1> QED
  BY <1>1, <1>2, <1>3

LEMMA ApplyPairTwins == StandInv /\ TwinInv /\ ApplyPair => TwinInv'
<1> SUFFICES ASSUME StandInv, TwinInv, ApplyPair PROVE TwinInv'
  OBVIOUS
<1> DEFINE x    == Head(pairs)
           pair == x.pair
           c    == InterfaceChanges(pair.local, pair.connected)
           got  == IF stage = "direct" THEN DirectInterface(pair, c) ELSE NondirectInterface(pair, c)
           m    == [stage |-> stage, pair |-> pair, interface |-> got.name]
<1>1. /\ Running /\ stage # "globals" /\ jobs = <<>> /\ pairs # <<>> /\ UnchangedInputs
      /\ \/ Raise
         \/ /\ ~got.raises /\ made' = Append(made, m) /\ pairs' = Tail(pairs)
            /\ UNCHANGED <<turn, stage, jobs, globals, results>>
  BY DEF ApplyPair
<1>2. Listed(pairs) /\ Listed(made) /\ Listed(results)
  BY DEF StandInv
<1>3. x \in ToSet(pairs) /\ ToSet(Tail(pairs)) \subseteq ToSet(pairs)
  BY <1>1, <1>2, HeadAndTail
<1>4. m.stage = stage /\ m.pair = pair /\ m.interface = got.name
  OBVIOUS
<1>5. GoodPair(pair) /\ Listed(Locals(Connections(me, pair.device)))
  <2>1. Listed(w.ports[me])
    BY <1>1, AtWork
  <2> QED
    BY <1>1, <1>3, <2>1, ConnectionsAre DEF StandInv, Current, GoodPairs
<1>6. stage \in {"direct", "indirect"} => FitPair(stage, x)
  BY <1>3 DEF TwinInv, FitPairs
<1> HIDE DEF x, m
<1>7. CASE Raise
  BY <1>2, <1>7, TwinsRaise
<1>8. CASE /\ ~got.raises /\ made' = Append(made, m) /\ pairs' = Tail(pairs)
           /\ UNCHANGED <<turn, stage, jobs, globals, results>>
  <2>1. stage # "virtual" => Placed(m) /\ KeyOf(m.pair) = x.key
    <3>1. CASE stage = "direct"
      <4>1. Whole(pair.ports, pair.device) /\ KeyOf(pair) = x.key
        BY <1>6, <3>1 DEF FitPair
      <4>2. got = DirectInterface(pair, c)
        BY <3>1
      <4> HIDE DEF got, c, pair
      <4> QED
        BY <1>4, <1>5, <1>8, <3>1, <4>1, <4>2, DirectPlace DEF c
    <3>2. CASE stage = "indirect"
      <4>1. pair.ports = <<>> /\ (\A n \in pair.local.ifname : Listed(n)) /\ KeyOf(pair) = x.key
        BY <1>6, <3>2 DEF FitPair
      <4>2. got = NondirectInterface(pair, c)
        BY <3>2
      <4> HIDE DEF got, c, pair
      <4> QED
        BY <1>4, <1>8, <3>2, <4>1, <4>2, NondirectPlace DEF c
    <3>3. stage \in Stages
      BY DEF TwinInv
    <3> QED
      BY <1>1, <3>1, <3>2, <3>3 DEF Stages
  <2> HIDE DEF got, c, pair
  <2>2. ToSet(made') = ToSet(made) \cup {m}
    BY <1>2, <1>8, AppendElements
  <2>3. MadeInPlace(ToSet(made'))
    BY <1>4, <2>1, <2>2 DEF TwinInv, MadeInPlace
  <2>4. stage \in {"direct", "indirect"} =>
            /\ FitPairs(stage, ToSet(Tail(pairs))) /\ Apart(Tail(pairs))
            /\ NewKeys(stage, ToSet(Tail(pairs)), ToSet(made) \cup {m})
    <3> SUFFICES ASSUME stage \in {"direct", "indirect"}
                 PROVE  /\ FitPairs(stage, ToSet(Tail(pairs))) /\ Apart(Tail(pairs))
                        /\ NewKeys(stage, ToSet(Tail(pairs)), ToSet(made) \cup {m})
      OBVIOUS
    <3>1. FitPairs(stage, ToSet(pairs)) /\ Apart(pairs) /\ NewKeys(stage, ToSet(pairs), ToSet(made))
      BY DEF TwinInv
    <3>2. Apart(Tail(pairs)) /\ \A y \in ToSet(Tail(pairs)) : y.key # x.key
      BY <1>1, <1>2, <3>1, ApartTail DEF x
    <3> QED
      BY <1>3, <2>1, <3>1, <3>2 DEF FitPairs, NewKeys
  <2>5. MadeApart(ToSet(made'))
    <3>1. ASSUME NEW n \in ToSet(made), n.stage = stage, stage # "virtual" PROVE KeyOf(m.pair) # KeyOf(n.pair)
      <4>1. stage \in {"direct", "indirect"}
        BY <1>1, <3>1 DEF TwinInv, Stages
      <4>2. NewKeys(stage, ToSet(pairs), ToSet(made))
        BY <4>1 DEF TwinInv
      <4> QED
        BY <1>3, <2>1, <3>1, <4>2 DEF NewKeys
    <3> SUFFICES ASSUME NEW a \in ToSet(made) \cup {m}, NEW b \in ToSet(made) \cup {m},
                        a.stage = b.stage, a.stage # "virtual", KeyOf(a.pair) = KeyOf(b.pair)
                 PROVE  a = b
      BY <2>2 DEF MadeApart
    <3>2. CASE a \in ToSet(made) /\ b \in ToSet(made)
      BY <3>2 DEF TwinInv, MadeApart
    <3>3. CASE a = m \/ b = m
      BY <1>4, <3>1, <3>3
    <3> QED
      BY <3>2, <3>3
  <2>6. \A n \in ToSet(made') : n.stage \in SoFar(stage)
    BY <1>1, <1>4, <2>2 DEF TwinInv, SoFar, Stages
  <2>7. w' = w /\ me' = me
    BY <1>1, <1>8 DEF UnchangedInputs, w, me
  <2>8. /\ \A st, job : FitJob(st, job)' <=> FitJob(st, job)
        /\ \A st, y : FitPair(st, y)' <=> FitPair(st, y)
    BY <2>7, SameFits
  <2>9. stage' = stage /\ jobs' = jobs /\ jobs = <<>> /\ results' = results /\ pairs' = Tail(pairs)
    BY <1>1, <1>8
  <2>10. stage \in {"direct", "indirect"} => /\ FitJobs(stage, ToSet(jobs))' /\ FitPairs(stage, ToSet(pairs))'
                                             /\ Apart(pairs)' /\ NewKeys(stage, ToSet(pairs), ToSet(made))'
    <3>1. FitJobs(stage, ToSet(jobs))'
      BY <2>9, NoElements DEF FitJobs
    <3>2. FitPairs(stage, ToSet(Tail(pairs))) => FitPairs(stage, ToSet(pairs))'
      BY <2>8, <2>9 DEF FitPairs
    <3> QED
      BY <2>2, <2>4, <2>9, <3>1, <3>2
  <2>11. stage \in Stages /\ stage # "globals"
    BY <1>1 DEF TwinInv
  <2> QED
    BY <2>3, <2>5, <2>6, <2>9, <2>10, <2>11 DEF TwinInv
<1> QED
  BY <1>1, <1>7, <1>8

LEMMA NextStageTwins == StandInv /\ TwinInv /\ NextStage => TwinInv'
<1> SUFFICES ASSUME StandInv, TwinInv, NextStage PROVE TwinInv'
  OBVIOUS
<1>1. /\ Running /\ stage \in {"direct", "virtual"} /\ pairs = <<>>
      /\ stage' = IF stage = "direct" THEN "virtual" ELSE "indirect"
      /\ UNCHANGED <<world, turn, pairs, made, results>>
  BY DEF NextStage
<1>2. IsRegistry(registry) /\ IsFiniteSet(DOMAIN w.ports)
  BY <1>1, AtWork
<1>3. /\ SoFar(stage) \subseteq SoFar(stage') /\ stage' \notin SoFar(stage) /\ stage' \in Stages
      /\ stage' \notin {"globals", "direct"}
  BY <1>1 DEF SoFar, Stages
<1>4. NotMade(stage', ToSet(made))
  BY <1>3 DEF NotMade, TwinInv
<1>5. FitPairs(stage', ToSet(pairs')) /\ Apart(pairs') /\ NewKeys(stage', ToSet(pairs'), ToSet(made))
  BY <1>1, NoElements DEF FitPairs, Apart, NewKeys
<1>6. stage' = "indirect" => FitJobs(stage', ToSet(jobs'))
  <2> DEFINE found == LookupIndirect(rules, Names, me, SetToSeq(DOMAIN w.ports))
  <2>1. stage' = "indirect" => jobs' = [i \in DOMAIN found |-> [m |-> found[i], ports |-> <<>>]]
    BY DEF NextStage
  <2>2. FitJobs("indirect", ToSet([i \in DOMAIN found |-> [m |-> found[i], ports |-> <<>>]]))
    BY <1>2, IndirectStageFits
  <2> HIDE DEF found
  <2> QED
    BY <2>1, <2>2
<1> QED
  BY <1>1, <1>3, <1>4, <1>5, <1>6, TwinsWithin

LEMMA GlobalsTwins == StandInv /\ TwinInv /\ Globals => TwinInv'
<1> SUFFICES ASSUME StandInv, TwinInv, Globals PROVE TwinInv'
  OBVIOUS
<1> DEFINE direct == LookupDirect(rules, Names, me, NeighborsOf(me))
<1>1. /\ Running /\ stage = "globals" /\ UnchangedInputs
      /\ \/ Raise
         \/ /\ stage' = "direct" /\ jobs' = Collect(direct, DirectJobs)
            /\ UNCHANGED <<turn, pairs, peers, made, results>>
  BY DEF Globals
<1>2. CASE Raise
  BY <1>2, TwinsRaise DEF StandInv
<1>3. CASE /\ stage' = "direct" /\ jobs' = Collect(direct, DirectJobs)
           /\ UNCHANGED <<turn, pairs, peers, made, results>>
  <2>1. FitJobs("direct", ToSet(jobs'))
    <3>1. FitJobs("direct", ToSet(Collect(direct, DirectJobs)))
      BY <1>1, AtWork, DirectStageFits
    <3> QED
      BY <1>3, <3>1
  <2>2. pairs' = <<>> /\ SoFar(stage) = {}
    BY <1>1, <1>3 DEF TwinInv, SoFar
  <2>3. NotMade("direct", ToSet(made)) /\ stage' \in Stages
    BY <1>3, <2>2 DEF TwinInv, NotMade, Stages
  <2>4. FitPairs("direct", ToSet(pairs')) /\ Apart(pairs') /\ NewKeys("direct", ToSet(pairs'), ToSet(made))
    BY <2>2, NoElements DEF FitPairs, Apart, NewKeys
  <2>5. UNCHANGED <<world, turn, made, results>> /\ stage' = "direct"
    BY <1>1, <1>3 DEF UnchangedInputs
  <2> QED
    BY <2>1, <2>2, <2>3, <2>4, <2>5, TwinsWithin
<1> QED
  BY <1>1, <1>2, <1>3

LEMMA FinishTwins == StandInv /\ TwinInv /\ Finish => TwinInv'
<1> SUFFICES ASSUME StandInv, TwinInv, Finish PROVE TwinInv'
  OBVIOUS
<1> DEFINE r == [raises |-> FALSE, peers |-> ToSet(peers), globals |-> globals, made |-> ToSet(made),
                 policies |-> OfRouteMap(ExtractPolicies([globals |-> globals, peers |-> peers])),
                 device |-> interfaces[me]]
<1>1. Started /\ results' = Append(results, r) /\ r.made = ToSet(made)
  BY DEF Finish
<1> HIDE DEF r
<1>2. Listed(results) /\ Untwinned(ToSet(made))
  BY UntwinnedMade DEF StandInv
<1> QED
  BY <1>1, <1>2, TwinsEnd

(* Pairs have different keys and sessions of one key are one, in every     *)
(* execution of execute_for.                                               *)
THEOREM TwinInvHolds == Spec => []TwinInv
<1>1. Init => TwinInv
  BY NoElements DEF Init, TwinInv, Stages, MadeApart, MadeInPlace
<1>2. StandInv /\ TwinInv /\ [Next]_vars => TwinInv'
  <2> SUFFICES ASSUME StandInv, TwinInv, UNCHANGED vars PROVE TwinInv'
    BY RunPairTwins, RunVirtualTwins, ApplyPairTwins, NextStageTwins, GlobalsTwins, FinishTwins DEF Next
  <2>1. UNCHANGED <<world, turn, made, results, stage, jobs, pairs>>
    BY DEF vars
  <2> QED
    BY <2>1, TwinsWithin DEF TwinInv
<1> QED
  BY <1>1, <1>2, StandInvHolds, PTL DEF Spec

(* Two sessions of one device never end in one address of a neighbour on   *)
(* one interface, whatever the rules, the handlers, the devices and the    *)
(* links are.                                                              *)
THEOREM NoTwinsAreMade == Spec => []NoTwins
<1>1. TwinInv => NoTwins
  <2> SUFFICES ASSUME TwinInv, NEW t \in DOMAIN results, Fine(t), NEW m \in results[t].made, NEW n \in results[t].made,
                      OnePlace(m, n), m.stage # "virtual"
               PROVE  m = n
    BY DEF NoTwins, OnePlace
  <2>1. Untwinned(results[t].made)
    BY DEF TwinInv, Fine
  <2> QED
    BY <2>1 DEF Untwinned
<1> QED
  BY <1>1, TwinInvHolds, PTL

-----------------------------------------------------------------------------
(***************************************************************************)
(* What an execution comes to: the sessions of a stage are the jobs of the *)
(* device, those of one key merged, whatever order they ran in.            *)
(***************************************************************************)
(* Which rule is found for two devices, and in which order.                *)
Ways(rule, g, d, n, m) ==
    \/ /\ MatchPair(rule, Normalize(g, Names[d]), Normalize(g, Names[n]))
       /\ m = [rule |-> rule, direct_order |-> TRUE, left |-> d, right |-> n]
    \/ /\ MatchPair(rule, Normalize(g, Names[n]), Normalize(g, Names[d]))
       /\ m = [rule |-> rule, direct_order |-> FALSE, left |-> n, right |-> d]
OwnFound(g, rs, d, ns, m) == \E n \in ns, rule \in rs : Ways(rule, g, d, n, m)

LEMMA WaysAre ==
    ASSUME NEW rule, NEW g, NEW d, NEW n, NEW m
    PROVE  m \in ToSet(BothWays(rule, Normalize(g, Names[d]), Normalize(g, Names[n]), d, n)) <=> Ways(rule, g, d, n, m)
<1> DEFINE norm  == Normalize(g, Names[d])
           other == Normalize(g, Names[n])
           there == [rule |-> rule, direct_order |-> TRUE, left |-> d, right |-> n]
           back  == [rule |-> rule, direct_order |-> FALSE, left |-> n, right |-> d]
           a == IF MatchPair(rule, norm, other) THEN <<there>> ELSE <<>>
           b == IF MatchPair(rule, other, norm) THEN <<back>> ELSE <<>>
<1>1. BothWays(rule, norm, other, d, n) = a \o b
  BY DEF BothWays
<1>2. Ways(rule, g, d, n, m) <=> (MatchPair(rule, norm, other) /\ m = there) \/ (MatchPair(rule, other, norm) /\ m = back)
  BY DEF Ways
<1> HIDE DEF there, back, norm, other
<1>3. Listed(a) /\ Listed(b) /\ ToSet(a) = (IF MatchPair(rule, norm, other) THEN {there} ELSE {})
      /\ ToSet(b) = (IF MatchPair(rule, other, norm) THEN {back} ELSE {})
  BY OneElement, NoElements
<1> HIDE DEF a, b
<1>4. ToSet(a \o b) = ToSet(a) \cup ToSet(b)
  BY <1>3, ListsJoined
<1>5. ToSet(BothWays(rule, norm, other, d, n)) = ToSet(a) \cup ToSet(b)
  BY <1>1, <1>4
<1>6. m \in ToSet(a) \cup ToSet(b) <=> Ways(rule, g, d, n, m)
  BY <1>2, <1>3
<1> QED
  BY <1>5, <1>6 DEF norm, other

LEMMA OwnPairsAre ==
    ASSUME NEW g, NEW rs, NEW d, NEW others, Listed(rs), Listed(others), NEW m
    PROVE  m \in ToSet(OwnPairs(g, rs, Names, d, others)) <=> OwnFound(g, ToSet(rs), d, ToSet(others), m)
<1> DEFINE ways(n, rule) == BothWays(rule, Normalize(g, Names[d]), Normalize(g, Names[n]), d, n)
           of(n)  == FlattenSeq([i \in DOMAIN rs |-> ways(n, rs[i])])
           pieces == [i \in DOMAIN others |-> of(others[i])]
<1>1. OwnPairs(g, rs, Names, d, others) = FlattenSeq(pieces)
  BY DEF OwnPairs, Collect
<1>2. /\ Len(rs) \in Nat /\ DOMAIN rs = 1 .. Len(rs) /\ ToSet(rs) = {rs[i] : i \in 1 .. Len(rs)}
      /\ Len(others) \in Nat /\ DOMAIN others = 1 .. Len(others) /\ ToSet(others) = {others[i] : i \in 1 .. Len(others)}
  BY ListIs
<1>3. ASSUME NEW n, NEW rule PROVE Listed(ways(n, rule)) /\ (m \in ToSet(ways(n, rule)) <=> Ways(rule, g, d, n, m))
  BY WaysOfRule, WaysAre
<1>4. ASSUME NEW n PROVE Listed(of(n)) /\ (m \in ToSet(of(n)) <=> \E rule \in ToSet(rs) : Ways(rule, g, d, n, m))
  <2> DEFINE each == [i \in DOMAIN rs |-> ways(n, rs[i])]
  <2> HIDE DEF ways
  <2>1. each = [i \in 1 .. Len(rs) |-> each[i]]
        /\ \A i \in 1 .. Len(rs) : Listed(each[i]) /\ (m \in ToSet(each[i]) <=> Ways(rs[i], g, d, n, m))
    BY <1>2, <1>3
  <2> HIDE DEF each
  <2>2. Listed(FlattenSeq(each)) /\ ToSet(FlattenSeq(each)) = UNION {ToSet(each[i]) : i \in 1 .. Len(rs)}
    BY <1>2, <2>1, Collected
  <2>3. m \in ToSet(FlattenSeq(each)) <=> \E i \in 1 .. Len(rs) : Ways(rs[i], g, d, n, m)
    BY <2>1, <2>2
  <2>4. (\E i \in 1 .. Len(rs) : Ways(rs[i], g, d, n, m)) <=> \E rule \in ToSet(rs) : Ways(rule, g, d, n, m)
    BY <1>2
  <2> QED
    BY <2>2, <2>3, <2>4 DEF each
<1> HIDE DEF of
<1>5. pieces = [i \in 1 .. Len(others) |-> pieces[i]]
      /\ \A i \in 1 .. Len(others) :
            /\ Listed(pieces[i])
            /\ m \in ToSet(pieces[i]) <=> \E rule \in ToSet(rs) : Ways(rule, g, d, others[i], m)
  BY <1>2, <1>4
<1> HIDE DEF pieces
<1>6. ToSet(FlattenSeq(pieces)) = UNION {ToSet(pieces[i]) : i \in 1 .. Len(others)}
  BY <1>2, <1>5, Collected
<1>7. m \in ToSet(FlattenSeq(pieces)) <=> \E i \in 1 .. Len(others) : \E rule \in ToSet(rs) : Ways(rule, g, d, others[i], m)
  BY <1>5, <1>6
<1>8. (\E i \in 1 .. Len(others) : \E rule \in ToSet(rs) : Ways(rule, g, d, others[i], m))
          <=> OwnFound(g, ToSet(rs), d, ToSet(others), m)
  BY <1>2 DEF OwnFound
<1> QED
  BY <1>1, <1>7, <1>8

(* The rules of a registry for a stage, and what is found by them.         *)
RulesFor(st, g) == IF st = "direct" THEN g.direct ELSE g.indirect
FoundIn(st, reg, d, ns, m) == \E g \in ToSet(Registries(reg)) : OwnFound(g, ToSet(RulesFor(st, g)), d, ns, m)
Lookup(st, reg, d, others) ==
    IF st = "direct" THEN LookupDirect(reg, Names, d, others) ELSE LookupIndirect(reg, Names, d, others)

LEMMA LookupIs ==
    ASSUME NEW reg, IsRegistry(reg), NEW st, NEW d, NEW others, Listed(others), NEW m
    PROVE  m \in ToSet(Lookup(st, reg, d, others)) <=> FoundIn(st, reg, d, ToSet(others), m)
<1> DEFINE regs   == Registries(reg)
           n      == Len(regs)
           pieces == [i \in DOMAIN regs |-> OwnPairs(regs[i], RulesFor(st, regs[i]), Names, d, others)]
<1>1. Listed(regs) /\ \A g \in ToSet(regs) : Listed(RulesFor(st, g))
  BY RegistriesAre DEF IsRegistry, RulesFor
<1>2. n \in Nat /\ DOMAIN regs = 1 .. n /\ ToSet(regs) = {regs[i] : i \in 1 .. n}
  <2> HIDE DEF regs
  <2> QED
    BY <1>1, ListIs
<1>3. Lookup(st, reg, d, others) = FlattenSeq(pieces)
  BY DEF Lookup, LookupDirect, LookupIndirect, Collect, RulesFor
<1>4. FoundIn(st, reg, d, ToSet(others), m) <=> \E g \in ToSet(regs) : OwnFound(g, ToSet(RulesFor(st, g)), d, ToSet(others), m)
  BY DEF FoundIn
<1> HIDE DEF regs
<1>5. pieces = [i \in 1 .. n |-> pieces[i]]
      /\ \A i \in 1 .. n : /\ Listed(pieces[i])
                           /\ m \in ToSet(pieces[i]) <=> OwnFound(regs[i], ToSet(RulesFor(st, regs[i])), d, ToSet(others), m)
  BY <1>1, <1>2, PairsListed, OwnPairsAre
<1> HIDE DEF pieces
<1>6. ToSet(FlattenSeq(pieces)) = UNION {ToSet(pieces[i]) : i \in 1 .. n}
  BY <1>2, <1>5, Collected
<1>7. m \in ToSet(FlattenSeq(pieces)) <=> \E i \in 1 .. n : OwnFound(regs[i], ToSet(RulesFor(st, regs[i])), d, ToSet(others), m)
  BY <1>5, <1>6
<1>8. (\E i \in 1 .. n : OwnFound(regs[i], ToSet(RulesFor(st, regs[i])), d, ToSet(others), m))
          <=> \E g \in ToSet(regs) : OwnFound(g, ToSet(RulesFor(st, g)), d, ToSet(others), m)
  BY <1>2
<1> QED
  BY <1>3, <1>4, <1>7, <1>8

(* The same is found by the rules written the other way round.             *)
BackIs(back) ==
    /\ back.short = registry.short /\ back.nested = registry.nested
    /\ ToSet(back.direct) = ToSet(registry.direct) /\ ToSet(back.indirect) = ToSet(registry.indirect)
    /\ ToSet(back.virtual) = ToSet(registry.virtual) /\ Listed(back.virtual)
    /\ ToSet(Registries(registry)) = {registry} \cup ToSet(registry.nested)
    /\ ToSet(Registries(back)) = {back} \cup ToSet(registry.nested)

LEMMA RulesBack ==
    ASSUME IsRegistry(registry)
    PROVE  BackIs(rules)
<1>1. registry \in ToSet(Registries(registry)) /\ ToSet(Registries(registry)) = {registry} \cup ToSet(registry.nested)
  BY RegistriesAre DEF IsRegistry
<1>2. Listed(registry.direct) /\ Listed(registry.indirect) /\ Listed(registry.virtual)
  BY <1>1 DEF IsRegistry
<1>3. CASE ~w.plan[turn].backwards
  BY <1>1, <1>2, <1>3 DEF rules, BackIs
<1>4. CASE w.plan[turn].backwards
  <2>1. /\ rules.short = registry.short /\ rules.nested = registry.nested /\ rules.virtual = Reverse(registry.virtual)
        /\ rules.direct = Reverse(registry.direct) /\ rules.indirect = Reverse(registry.indirect)
    BY <1>4 DEF rules, Backwards
  <2>2. ToSet(Registries(rules)) = {rules} \cup ToSet(registry.nested)
    BY <2>1, RegistriesAre DEF IsRegistry
  <2> QED
    BY <1>1, <1>2, <2>1, <2>2, Reversed DEF BackIs
<1> QED
  BY <1>3, <1>4

LEMMA SameFound ==
    ASSUME IsRegistry(registry), NEW st, NEW d, NEW ns, NEW m
    PROVE  FoundIn(st, rules, d, ns, m) <=> FoundIn(st, registry, d, ns, m)
<1>1. BackIs(rules)
  BY RulesBack
<1>2. \A rule, n : Ways(rule, rules, d, n, m) <=> Ways(rule, registry, d, n, m)
  BY <1>1 DEF BackIs, Ways, Normalize
<1>3. ToSet(RulesFor(st, rules)) = ToSet(RulesFor(st, registry))
  BY <1>1 DEF BackIs, RulesFor
<1>4. OwnFound(rules, ToSet(RulesFor(st, rules)), d, ns, m) <=> OwnFound(registry, ToSet(RulesFor(st, registry)), d, ns, m)
  BY <1>2, <1>3 DEF OwnFound
<1> QED
  BY <1>1, <1>4 DEF FoundIn, BackIs

(* The jobs of a stage of the execution for a device.                      *)
Others(st, d)   == IF st = "direct" THEN ToSet(NeighborsOf(d)) ELSE DOMAIN w.ports
Found(st, d, m) == FoundIn(st, registry, d, Others(st, d), m)
RunsOn(d, m, ports) ==
    CASE Other(m) \in w.lost                        -> ports = <<>>
      [] Other(m) \notin w.lost /\ m.rule.separate  -> \E e \in ToSet(Connections(d, Other(m))) : ports = <<e>>
      [] Other(m) \notin w.lost /\ ~m.rule.separate -> ports = Connections(d, Other(m))
VirtualIn(reg, d, r) == \E g \in ToSet(Registries(reg)) : r \in ToSet(g.virtual) /\ MatchOne(r, Normalize(g, Names[d]))

DirectJob(d, job)   == \E m, ports : job = [m |-> m, ports |-> ports] /\ Found("direct", d, m) /\ RunsOn(d, m, ports)
IndirectJob(d, job) == \E m : job = [m |-> m, ports |-> <<>>] /\ Found("indirect", d, m)
VirtualJob(d, job)  == \E r : VirtualIn(registry, d, r) /\ \E i \in DOMAIN r.num : job = [rule |-> r, num |-> r.num[i]]
IsJob(st, d, job) ==
    CASE st = "direct" -> DirectJob(d, job) [] st = "indirect" -> IndirectJob(d, job) [] st = "virtual" -> VirtualJob(d, job)

LEMMA JobsOfOne ==
    ASSUME NEW m, Listed(Connections(me, Other(m))), NEW job
    PROVE  job \in ToSet(DirectJobs(m)) <=> \E ports : job = [m |-> m, ports |-> ports] /\ RunsOn(me, m, ports)
<1> DEFINE all  == Connections(me, Other(m))
           with(ports) == [m |-> m, ports |-> ports]
           each == [i \in DOMAIN all |-> with(<<all[i]>>)]
<1>1. CASE Other(m) \in w.lost
  <2>1. DirectJobs(m) = <<with(<<>>)>>
    BY <1>1 DEF DirectJobs
  <2>2. \A ports : RunsOn(me, m, ports) <=> ports = <<>>
    BY <1>1 DEF RunsOn
  <2> HIDE DEF with
  <2>3. ToSet(DirectJobs(m)) = {with(<<>>)}
    BY <2>1, OneElement
  <2>4. job \in ToSet(DirectJobs(m)) <=> \E ports : job = with(ports) /\ RunsOn(me, m, ports)
    BY <2>2, <2>3
  <2> QED
    BY <2>4 DEF with
<1>2. CASE Other(m) \notin w.lost /\ ~m.rule.separate
  <2>1. DirectJobs(m) = <<with(all)>>
    BY <1>2 DEF DirectJobs
  <2>2. \A ports : RunsOn(me, m, ports) <=> ports = all
    BY <1>2 DEF RunsOn
  <2> HIDE DEF with, all
  <2>3. ToSet(DirectJobs(m)) = {with(all)}
    BY <2>1, OneElement
  <2>4. job \in ToSet(DirectJobs(m)) <=> \E ports : job = with(ports) /\ RunsOn(me, m, ports)
    BY <2>2, <2>3
  <2> QED
    BY <2>4 DEF with
<1>3. CASE Other(m) \notin w.lost /\ m.rule.separate
  <2>1. DirectJobs(m) = each
    BY <1>3 DEF DirectJobs
  <2>2. \A ports : RunsOn(me, m, ports) <=> \E e \in ToSet(all) : ports = <<e>>
    BY <1>3 DEF RunsOn
  <2>3. Len(all) \in Nat /\ DOMAIN all = 1 .. Len(all) /\ ToSet(all) = {all[i] : i \in 1 .. Len(all)}
    BY ListIs
  <2>4. each = [i \in 1 .. Len(all) |-> each[i]] /\ \A i \in 1 .. Len(all) : each[i] = with(<<all[i]>>)
    BY <2>3
  <2> HIDE DEF each, with, all
  <2>5. ToSet(each) = {each[i] : i \in 1 .. Len(all)}
    BY <2>3, <2>4, Indexed
  <2>6. job \in ToSet(DirectJobs(m)) <=> \E i \in 1 .. Len(all) : job = with(<<all[i]>>)
    <3>1. job \in ToSet(each) <=> \E i \in 1 .. Len(all) : job = each[i]
      BY <2>5
    <3>2. (\E i \in 1 .. Len(all) : job = each[i]) <=> \E i \in 1 .. Len(all) : job = with(<<all[i]>>)
      BY <2>4
    <3> QED
      BY <2>1, <3>1, <3>2
  <2>7. (\E i \in 1 .. Len(all) : job = with(<<all[i]>>)) <=> \E ports : job = with(ports) /\ \E e \in ToSet(all) : ports = <<e>>
    BY <2>3
  <2>8. job \in ToSet(DirectJobs(m)) <=> \E ports : job = with(ports) /\ RunsOn(me, m, ports)
    BY <2>2, <2>6, <2>7
  <2> QED
    BY <2>8 DEF with
<1> QED
  BY <1>1, <1>2, <1>3

LEMMA DirectJobsAre ==
    ASSUME IsRegistry(registry), Listed(w.ports[me]), NEW job
    PROVE  job \in ToSet(Collect(LookupDirect(rules, Names, me, NeighborsOf(me)), DirectJobs)) <=> IsJob("direct", me, job)
<1> DEFINE found  == LookupDirect(rules, Names, me, NeighborsOf(me))
           pieces == [i \in DOMAIN found |-> DirectJobs(found[i])]
           Of(m)  == \E ports : job = [m |-> m, ports |-> ports] /\ RunsOn(me, m, ports)
<1>1. Listed(found)
  BY RulesAlike, NeighborsListed, LookupsListed
<1>2. Len(found) \in Nat /\ DOMAIN found = 1 .. Len(found) /\ ToSet(found) = {found[i] : i \in 1 .. Len(found)}
  BY <1>1, ListIs
<1>3. ASSUME NEW m PROVE Listed(DirectJobs(m)) /\ (job \in ToSet(DirectJobs(m)) <=> Of(m))
  BY ConnectionsAre, JobsOfMatch, JobsOfOne DEF GoodJobs
<1>4. pieces = [i \in 1 .. Len(found) |-> pieces[i]]
      /\ \A i \in 1 .. Len(found) : Listed(pieces[i]) /\ (job \in ToSet(pieces[i]) <=> Of(found[i]))
  BY <1>2, <1>3
<1>5. Collect(found, DirectJobs) = FlattenSeq(pieces)
  BY DEF Collect
<1>6. \A m : m \in ToSet(found) <=> Found("direct", me, m)
  <2>1. IsRegistry(rules) /\ Listed(NeighborsOf(me)) /\ found = Lookup("direct", rules, me, NeighborsOf(me))
    BY RulesAlike, NeighborsListed DEF Lookup
  <2> QED
    BY <2>1, LookupIs, SameFound DEF Found, Others
<1> HIDE DEF found, pieces
<1>7. ToSet(FlattenSeq(pieces)) = UNION {ToSet(pieces[i]) : i \in 1 .. Len(found)}
  BY <1>2, <1>4, Collected
<1>8. job \in ToSet(FlattenSeq(pieces)) <=> \E i \in 1 .. Len(found) : Of(found[i])
  BY <1>4, <1>7
<1>9. (\E i \in 1 .. Len(found) : Of(found[i])) <=> \E m : Found("direct", me, m) /\ Of(m)
  <2> HIDE DEF Of
  <2> QED
    BY <1>2, <1>6
<1>10. (\E m : Found("direct", me, m) /\ Of(m)) <=> DirectJob(me, job)
  BY DEF DirectJob
<1> HIDE DEF Of
<1> QED
  BY <1>5, <1>8, <1>9, <1>10 DEF found, IsJob

LEMMA IndirectJobsAre ==
    ASSUME IsRegistry(registry), IsFiniteSet(DOMAIN w.ports), NEW found,
           found = LookupIndirect(rules, Names, me, SetToSeq(DOMAIN w.ports)), NEW job
    PROVE  job \in ToSet([i \in DOMAIN found |-> [m |-> found[i], ports |-> <<>>]]) <=> IsJob("indirect", me, job)
<1> DEFINE js     == [i \in DOMAIN found |-> [m |-> found[i], ports |-> <<>>]]
           others == SetToSeq(DOMAIN w.ports)
<1>1. IsRegistry(rules) /\ Listed(others) /\ ToSet(others) = DOMAIN w.ports /\ found = Lookup("indirect", rules, me, others)
  BY RulesAlike, SetListed DEF Lookup
<1> HIDE DEF others
<1>2. \A m : m \in ToSet(found) <=> Found("indirect", me, m)
  BY <1>1, LookupIs, SameFound DEF Found, Others
<1>3. DOMAIN js = DOMAIN found /\ \A i \in DOMAIN found : js[i] = [m |-> found[i], ports |-> <<>>]
  OBVIOUS
<1> HIDE DEF js
<1>4. job \in ToSet(js) <=> \E i \in DOMAIN found : job = [m |-> found[i], ports |-> <<>>]
  BY <1>3 DEF ToSet
<1>5. (\E i \in DOMAIN found : job = [m |-> found[i], ports |-> <<>>]) <=> \E m \in ToSet(found) : job = [m |-> m, ports |-> <<>>]
  BY DEF ToSet
<1>6. job \in ToSet(js) <=> IndirectJob(me, job)
  BY <1>2, <1>4, <1>5 DEF IndirectJob
<1> QED
  BY <1>6 DEF IsJob, js

LEMMA VirtualRulesAre ==
    ASSUME IsRegistry(registry), NEW d, NEW r
    PROVE  r \in ToSet(LookupVirtual(rules, Names, d)) <=> VirtualIn(registry, d, r)
<1> DEFINE regs   == Registries(rules)
           n      == Len(regs)
           pieces == [i \in DOMAIN regs |-> OwnOnes(regs[i], regs[i].virtual, Names, d)]
           Has(g) == r \in ToSet(g.virtual) /\ MatchOne(r, Normalize(g, Names[d]))
<1>1. IsRegistry(rules)
  BY RulesAlike
<1>2. Listed(regs) /\ \A g \in ToSet(regs) : Listed(g.virtual)
  BY <1>1, RegistriesAre DEF IsRegistry
<1>3. n \in Nat /\ DOMAIN regs = 1 .. n /\ ToSet(regs) = {regs[i] : i \in 1 .. n}
  <2> HIDE DEF regs
  <2> QED
    BY <1>2, ListIs
<1>4. LookupVirtual(rules, Names, d) = FlattenSeq(pieces)
  BY DEF LookupVirtual, Collect
<1>5. VirtualIn(rules, d, r) <=> \E g \in ToSet(regs) : Has(g)
  BY DEF VirtualIn
<1> HIDE DEF regs
<1>6. pieces = [i \in 1 .. n |-> pieces[i]]
      /\ \A i \in 1 .. n : Listed(pieces[i]) /\ (r \in ToSet(pieces[i]) <=> Has(regs[i]))
  BY <1>2, <1>3, OwnOnesAre
<1> HIDE DEF pieces
<1>7. ToSet(FlattenSeq(pieces)) = UNION {ToSet(pieces[i]) : i \in 1 .. n}
  BY <1>3, <1>6, Collected
<1>8. r \in ToSet(FlattenSeq(pieces)) <=> \E i \in 1 .. n : Has(regs[i])
  BY <1>6, <1>7
<1>9. (\E i \in 1 .. n : Has(regs[i])) <=> \E g \in ToSet(regs) : Has(g)
  BY <1>3
<1>10. VirtualIn(rules, d, r) <=> VirtualIn(registry, d, r)
  <2>1. BackIs(rules)
    BY RulesBack
  <2>2. Has(rules) <=> Has(registry)
    BY <2>1 DEF BackIs, Normalize
  <2> HIDE DEF Has
  <2>3. (\E g \in ToSet(Registries(rules)) : Has(g)) <=> (\E g \in ToSet(Registries(registry)) : Has(g))
    BY <2>1, <2>2 DEF BackIs
  <2> QED
    BY <2>3 DEF VirtualIn, Has
<1> QED
  BY <1>4, <1>5, <1>8, <1>9, <1>10

LEMMA VirtualJobsAre ==
    ASSUME IsRegistry(registry), NEW job
    PROVE  job \in ToSet(Collect(LookupVirtual(rules, Names, me), VirtualJobs)) <=> IsJob("virtual", me, job)
<1> DEFINE found  == LookupVirtual(rules, Names, me)
           pieces == [i \in DOMAIN found |-> VirtualJobs(found[i])]
           Of(r)  == \E i \in DOMAIN r.num : job = [rule |-> r, num |-> r.num[i]]
<1>1. Listed(found) /\ \A r \in ToSet(found) : Listed(r.num)
  BY RulesAlike, LookupsListed
<1>2. Len(found) \in Nat /\ DOMAIN found = 1 .. Len(found) /\ ToSet(found) = {found[i] : i \in 1 .. Len(found)}
  BY <1>1, ListIs
<1>3. ASSUME NEW r, Listed(r.num) PROVE Listed(VirtualJobs(r)) /\ (job \in ToSet(VirtualJobs(r)) <=> Of(r))
  <2>1. Len(r.num) \in Nat /\ DOMAIN r.num = 1 .. Len(r.num)
    BY <1>3, ListIs
  <2>2. VirtualJobs(r) = [i \in 1 .. Len(r.num) |-> VirtualJobs(r)[i]]
        /\ \A i \in DOMAIN r.num : VirtualJobs(r)[i] = [rule |-> r, num |-> r.num[i]]
    BY <2>1 DEF VirtualJobs
  <2>3. Listed(VirtualJobs(r)) /\ ToSet(VirtualJobs(r)) = {VirtualJobs(r)[i] : i \in 1 .. Len(r.num)}
    BY <2>1, <2>2, Indexed
  <2>4. job \in ToSet(VirtualJobs(r)) <=> \E i \in DOMAIN r.num : job = VirtualJobs(r)[i]
    BY <2>1, <2>3
  <2> QED
    BY <2>2, <2>3, <2>4
<1>4. pieces = [i \in 1 .. Len(found) |-> pieces[i]]
      /\ \A i \in 1 .. Len(found) : Listed(pieces[i]) /\ (job \in ToSet(pieces[i]) <=> Of(found[i]))
  BY <1>1, <1>2, <1>3
<1>5. Collect(found, VirtualJobs) = FlattenSeq(pieces)
  BY DEF Collect
<1>6. \A r : r \in ToSet(found) <=> VirtualIn(registry, me, r)
  BY VirtualRulesAre
<1> HIDE DEF found, pieces
<1>7. ToSet(FlattenSeq(pieces)) = UNION {ToSet(pieces[i]) : i \in 1 .. Len(found)}
  BY <1>2, <1>4, Collected
<1>8. job \in ToSet(FlattenSeq(pieces)) <=> \E i \in 1 .. Len(found) : Of(found[i])
  BY <1>4, <1>7
<1>9. (\E i \in 1 .. Len(found) : Of(found[i])) <=> \E r : VirtualIn(registry, me, r) /\ Of(r)
  <2> HIDE DEF Of
  <2> QED
    BY <1>2, <1>6
<1>10. (\E r : VirtualIn(registry, me, r) /\ Of(r)) <=> VirtualJob(me, job)
  BY DEF VirtualJob
<1> HIDE DEF Of
<1> QED
  BY <1>5, <1>8, <1>9, <1>10 DEF found, IsJob

-----------------------------------------------------------------------------
(* What a job fills, and whether it raises by itself.                      *)
SidesOf(st, job) ==
    IF st = "virtual"
    THEN [mine |-> job.rule.handler.left, theirs |-> job.rule.handler.right, session |-> job.rule.handler.session]
    ELSE OnMySide(job.m, job.ports)
PairOf(st, job) ==
    IF st = "virtual"
    THEN LET s == SidesOf("virtual", job)
         IN MadePair([s EXCEPT !.theirs.addr = {[a EXCEPT !.ip = Append(@, job.num)] : a \in @}], "", <<>>)
    ELSE MadePair(SidesOf(st, job), Other(job.m), Locals(job.ports))
Idle(st, job)    == Nothing(SidesOf(st, job))
Clashes(p)       == Clash(p.local) \/ Clash(p.connected)
Wrong(st, job)   ==
    \/ st # "virtual" /\ Other(job.m) \in w.lost
    \/ ~Idle(st, job) /\ (Clashes(PairOf(st, job)) \/ (st # "virtual" /\ AddrsRaise(PairOf(st, job))))
Active(st, d, job) == IsJob(st, d, job) /\ ~Idle(st, job)

(* Jobs that come to one session; a virtual job has one of its own.        *)
Kin(st, a, b) == IF st = "virtual" THEN a = b ELSE KeyOf(PairOf(st, a)) = KeyOf(PairOf(st, b))

(* A pair that is what the jobs of G filled, for the same ports.           *)
Local(st, G, f) == UNION {PairOf(st, b).local[f] : b \in G}
There(st, G, f) == UNION {PairOf(st, b).connected[f] : b \in G}
IsMerge(st, p, G) ==
    /\ p = [local |-> [f \in PeerFields |-> Local(st, G, f)], connected |-> [f \in PeerFields |-> There(st, G, f)],
            device |-> p.device, ports |-> p.ports, samePorts |-> TRUE]
    /\ \A b \in G : p.device = PairOf(st, b).device /\ p.ports = PairOf(st, b).ports

(* A pair merged of job a and all its kin, but for jobs of js.             *)
Gathers(st, d, js, a, G) ==
    /\ a \in G /\ \A b \in G : Active(st, d, b) /\ Kin(st, a, b)
    /\ \A b : Active(st, d, b) /\ Kin(st, a, b) => b \in G \/ b \in js
From(st, d, js, p, a) == \E G : Gathers(st, d, js, a, G) /\ IsMerge(st, p, G)

LEMMA KinAre ==
    ASSUME NEW st, NEW a, NEW b
    PROVE  /\ Kin(st, a, a) /\ (Kin(st, a, b) <=> Kin(st, b, a))
           /\ \A c : Kin(st, a, b) /\ Kin(st, b, c) => Kin(st, a, c)
BY DEF Kin

LEMMA PairShape ==
    ASSUME NEW st, NEW job
    PROVE  LET p == PairOf(st, job)
           IN p = [local |-> [f \in PeerFields |-> p.local[f]], connected |-> [f \in PeerFields |-> p.connected[f]],
                   device |-> p.device, ports |-> p.ports, samePorts |-> TRUE]
<1>1. ASSUME NEW s, NEW device, NEW ports, NEW p, p = MadePair(s, device, ports)
      PROVE  p = [local |-> [f \in PeerFields |-> p.local[f]], connected |-> [f \in PeerFields |-> p.connected[f]],
                  device |-> p.device, ports |-> p.ports, samePorts |-> TRUE]
  <2>1. p = [local |-> MergeDto(s.mine, s.session), connected |-> MergeDto(s.theirs, s.session),
             device |-> device, ports |-> ports, samePorts |-> TRUE]
    BY <1>1 DEF MadePair
  <2>2. /\ MergeDto(s.mine, s.session) = [f \in PeerFields |-> MergeDto(s.mine, s.session)[f]]
        /\ MergeDto(s.theirs, s.session) = [f \in PeerFields |-> MergeDto(s.theirs, s.session)[f]]
    BY DEF MergeDto
  <2>3. p.local = MergeDto(s.mine, s.session) /\ p.connected = MergeDto(s.theirs, s.session)
        /\ p.device = device /\ p.ports = ports
    BY <2>1
  <2> QED
    BY <2>1, <2>2, <2>3
<1>2. \E s, device, ports : PairOf(st, job) = MadePair(s, device, ports)
  BY DEF PairOf
<1> QED
  BY <1>1, <1>2

(* One job makes a pair.                                                   *)
LEMMA MergeOfOne ==
    ASSUME NEW st, NEW job
    PROVE  IsMerge(st, PairOf(st, job), {job})
<1> DEFINE p == PairOf(st, job)
<1>1. p = [local |-> [f \in PeerFields |-> p.local[f]], connected |-> [f \in PeerFields |-> p.connected[f]],
           device |-> p.device, ports |-> p.ports, samePorts |-> TRUE]
  BY PairShape
<1>2. \A f : Local(st, {job}, f) = p.local[f] /\ There(st, {job}, f) = p.connected[f]
  BY DEF Local, There
<1> HIDE DEF p
<1>3. /\ [f \in PeerFields |-> p.local[f]] = [f \in PeerFields |-> Local(st, {job}, f)]
      /\ [f \in PeerFields |-> p.connected[f]] = [f \in PeerFields |-> There(st, {job}, f)]
  BY <1>2
<1> QED
  BY <1>1, <1>3 DEF IsMerge, p

LEMMA MergeOfMore ==
    ASSUME NEW st, NEW p, NEW G, IsMerge(st, p, G), NEW job, NEW q, q = MergePairs(p, PairOf(st, job)), q.samePorts,
           NEW a \in G, PairOf(st, a).device = PairOf(st, job).device
    PROVE  IsMerge(st, q, G \cup {job})
<1> DEFINE pair == PairOf(st, job)
           H    == G \cup {job}
<1>1. /\ q.local = MergeDto(p.local, pair.local) /\ q.connected = MergeDto(p.connected, pair.connected)
      /\ q.device = pair.device /\ q.ports = p.ports /\ q.samePorts = (p.samePorts /\ p.ports = pair.ports)
      /\ q = [local |-> q.local, connected |-> q.connected, device |-> q.device, ports |-> q.ports, samePorts |-> q.samePorts]
  BY DEF MergePairs
<1>2. p.samePorts = TRUE /\ \A f \in PeerFields : p.local[f] = Local(st, G, f) /\ p.connected[f] = There(st, G, f)
  <2> DEFINE l == [f \in PeerFields |-> Local(st, G, f)]
             c == [f \in PeerFields |-> There(st, G, f)]
  <2>1. \A f \in PeerFields : l[f] = Local(st, G, f) /\ c[f] = There(st, G, f)
    OBVIOUS
  <2>2. p = [local |-> l, connected |-> c, device |-> p.device, ports |-> p.ports, samePorts |-> TRUE]
    BY DEF IsMerge
  <2> HIDE DEF l, c
  <2>3. p.local = l /\ p.connected = c /\ p.samePorts = TRUE
    BY <2>2
  <2> QED
    BY <2>1, <2>3
<1>3. \A f : Local(st, H, f) = Local(st, G, f) \cup pair.local[f] /\ There(st, H, f) = There(st, G, f) \cup pair.connected[f]
  BY DEF Local, There
<1>4. q.local = [f \in PeerFields |-> Local(st, H, f)] /\ q.connected = [f \in PeerFields |-> There(st, H, f)]
  <2> HIDE DEF pair, H
  <2> QED
    BY <1>1, <1>2, <1>3 DEF MergeDto
<1>5. q.samePorts = TRUE /\ p.ports = pair.ports
  BY <1>1, <1>2
<1>6. ASSUME NEW b \in H PROVE q.device = PairOf(st, b).device /\ q.ports = PairOf(st, b).ports
  <2>1. \A c \in G : p.device = PairOf(st, c).device /\ p.ports = PairOf(st, c).ports
    BY DEF IsMerge
  <2> QED
    BY <1>1, <1>5, <2>1
<1> HIDE DEF H, pair
<1>7. IsMerge(st, q, H)
  BY <1>1, <1>4, <1>5, <1>6 DEF IsMerge
<1> QED
  BY <1>7 DEF H

(* The jobs that are left get less by one.                                 *)
LEMMA FromLess ==
    ASSUME NEW st, NEW d, NEW js, NEW p, NEW a, From(st, d, js, p, a), NEW less, NEW job, js \subseteq less \cup {job},
           ~Active(st, d, job) \/ ~Kin(st, a, job)
    PROVE  From(st, d, less, p, a)
<1>1. PICK G : Gathers(st, d, js, a, G) /\ IsMerge(st, p, G)
  BY DEF From
<1>2. Gathers(st, d, less, a, G)
  BY <1>1 DEF Gathers
<1> QED
  BY <1>1, <1>2 DEF From

LEMMA FromMore ==
    ASSUME NEW st, st # "virtual", NEW d, NEW js, NEW p, NEW a, From(st, d, js, p, a), NEW less, NEW job,
           js \subseteq less \cup {job}, Active(st, d, job), Kin(st, a, job),
           NEW q, q = MergePairs(p, PairOf(st, job)), q.samePorts
    PROVE  From(st, d, less, q, a) /\ From(st, d, less, q, job)
<1>1. PICK G : Gathers(st, d, js, a, G) /\ IsMerge(st, p, G)
  BY DEF From
<1> DEFINE H == G \cup {job}
<1>2. PairOf(st, a).device = PairOf(st, job).device
  BY KeyIs DEF Kin, Alike
<1>3. IsMerge(st, q, H)
  BY <1>1, <1>2, MergeOfMore DEF Gathers
<1>4. \A b : Kin(st, a, b) <=> Kin(st, job, b)
  BY KinAre
<1>5. Gathers(st, d, less, a, H) /\ Gathers(st, d, less, job, H)
  BY <1>1, <1>4 DEF Gathers
<1> QED
  BY <1>3, <1>5 DEF From

LEMMA FromNew ==
    ASSUME NEW st, NEW d, NEW js, NEW job, Active(st, d, job),
           \A b : Active(st, d, b) /\ Kin(st, job, b) => b = job \/ b \in js
    PROVE  From(st, d, js, PairOf(st, job), job)
<1>1. Gathers(st, d, js, job, {job})
  BY KinAre DEF Gathers
<1> QED
  BY <1>1, MergeOfOne DEF From

(* When no job is left, a job has one pair, and a pair not complete yet is *)
(* part of that.                                                           *)
LEMMA FromSame ==
    ASSUME NEW st, NEW d, NEW p, NEW q, NEW a, From(st, d, {}, p, a), From(st, d, {}, q, a)
    PROVE  p = q
<1>1. PICK G : Gathers(st, d, {}, a, G) /\ IsMerge(st, p, G)
  BY DEF From
<1>2. PICK H : Gathers(st, d, {}, a, H) /\ IsMerge(st, q, H)
  BY DEF From
<1>3. G = H /\ a \in G
  BY <1>1, <1>2 DEF Gathers
<1>4. p.device = q.device /\ p.ports = q.ports
  BY <1>1, <1>2, <1>3 DEF IsMerge
<1> DEFINE l == [f \in PeerFields |-> Local(st, G, f)]
           c == [f \in PeerFields |-> There(st, G, f)]
<1>5. /\ p = [local |-> l, connected |-> c, device |-> p.device, ports |-> p.ports, samePorts |-> TRUE]
      /\ q = [local |-> l, connected |-> c, device |-> q.device, ports |-> q.ports, samePorts |-> TRUE]
  BY <1>1, <1>2, <1>3 DEF IsMerge
<1> HIDE DEF l, c
<1> QED
  BY <1>4, <1>5

Within1(p, q) == \A f \in PeerFields : p.local[f] \subseteq q.local[f] /\ p.connected[f] \subseteq q.connected[f]

LEMMA MergeFields ==
    ASSUME NEW st, NEW p, NEW G, IsMerge(st, p, G)
    PROVE  p.samePorts /\ \A f \in PeerFields : p.local[f] = Local(st, G, f) /\ p.connected[f] = There(st, G, f)
<1> DEFINE l == [f \in PeerFields |-> Local(st, G, f)]
           c == [f \in PeerFields |-> There(st, G, f)]
<1>1. \A f \in PeerFields : l[f] = Local(st, G, f) /\ c[f] = There(st, G, f)
  OBVIOUS
<1>2. p = [local |-> l, connected |-> c, device |-> p.device, ports |-> p.ports, samePorts |-> TRUE]
  BY DEF IsMerge
<1> HIDE DEF l, c
<1>3. p.local = l /\ p.connected = c /\ p.samePorts = TRUE
  BY <1>2
<1> QED
  BY <1>1, <1>3

LEMMA FromPart ==
    ASSUME NEW st, NEW d, NEW js, NEW p, NEW q, NEW a, From(st, d, js, p, a), From(st, d, {}, q, a)
    PROVE  Within1(p, q) /\ p.ports = q.ports /\ p.device = q.device /\ p.samePorts
<1>1. PICK G : Gathers(st, d, js, a, G) /\ IsMerge(st, p, G)
  BY DEF From
<1>2. PICK H : Gathers(st, d, {}, a, H) /\ IsMerge(st, q, H)
  BY DEF From
<1>3. G \subseteq H /\ a \in G
  BY <1>1, <1>2 DEF Gathers
<1>4. p.device = q.device /\ p.ports = q.ports
  BY <1>1, <1>2, <1>3 DEF IsMerge
<1>5. \A f : Local(st, G, f) \subseteq Local(st, H, f) /\ There(st, G, f) \subseteq There(st, H, f)
  BY <1>3 DEF Local, There
<1>6. Within1(p, q) /\ p.samePorts
  BY <1>1, <1>2, <1>5, MergeFields DEF Within1
<1> QED
  BY <1>4, <1>6

LEMMA PartClashless ==
    ASSUME NEW p, NEW q, Within1(p, q), ~Clashes(q)
    PROVE  ~Clashes(p)
<1>1. "family_options" \in PeerFields
  BY DEF PeerFields
<1>2. \A S, T : S \subseteq T /\ ~Many(T) => ~Many(S)
  BY DEF Many
<1>3. \A S, T : S \subseteq T /\ ~OptionsClash(T) => ~OptionsClash(S)
  BY DEF OptionsClash
<1>4. p.local["family_options"] \subseteq q.local["family_options"]
      /\ p.connected["family_options"] \subseteq q.connected["family_options"]
  BY <1>1 DEF Within1
<1>5. ~Clash(p.local)
  BY <1>2, <1>3, <1>4 DEF Within1, Clashes, Clash
<1>6. ~Clash(p.connected)
  BY <1>2, <1>3, <1>4 DEF Within1, Clashes, Clash
<1> QED
  BY <1>5, <1>6 DEF Clashes

-----------------------------------------------------------------------------
(* A stage whose jobs js are not run yet: no job that was run is wrong, and*)
(* each that filled something has a pair, of all its kin that were run. A  *)
(* pair, or a session made of one, comes from a job.                       *)
Keyed1(st, x, b) == st # "virtual" => x.key = KeyOf(PairOf(st, b))
InPairs(st, d, js, ps, b) == \E x \in ps : From(st, d, js, x.pair, b) /\ Keyed1(st, x, b)
InMade(st, d, js, ms, b)  == \E m \in ms : m.stage = st /\ From(st, d, js, m.pair, b)
OfJob(st, d, js, x)  == \E b : Active(st, d, b) /\ From(st, d, js, x.pair, b) /\ Keyed1(st, x, b)
Sound(st, d, js, p)  == ~Clashes(p) /\ \E b : Active(st, d, b) /\ From(st, d, js, p, b)
StageInv(st, d, js, ps, ms) ==
    /\ \A b \in js : IsJob(st, d, b)
    /\ \A b : IsJob(st, d, b) /\ b \notin js => ~Wrong(st, b)
    /\ \A b : Active(st, d, b) /\ b \notin js => InPairs(st, d, js, ps, b) \/ InMade(st, d, js, ms, b)
    /\ \A x \in ps : ~Clashes(x.pair) /\ OfJob(st, d, js, x)
    /\ \A m \in ms : m.stage = st => Sound(st, d, js, m.pair)

(* A pair put among others by its key.                                     *)
PutIn(ps, key, pair, y) ==
    \/ y \in ps /\ y.key # key
    \/ (\A x \in ps : x.key # key) /\ y = [key |-> key, pair |-> pair]
    \/ \E x \in ps : x.key = key /\ y = [key |-> key, pair |-> MergePairs(x.pair, pair)]
IsPut(next, ps, key, pair) == \A y : y \in next <=> PutIn(ps, key, pair, y)

LEMMA WithPuts ==
    ASSUME Listed(pairs), NEW key, NEW pair
    PROVE  IsPut(ToSet(With(key, pair)), ToSet(pairs), key, pair)
<1> DEFINE new == [key |-> key, pair |-> pair]
           with(x) == [key |-> key, pair |-> MergePairs(x.pair, pair)]
           n   == Len(pairs)
           next == With(key, pair)
<1>1. n \in Nat /\ DOMAIN pairs = 1 .. n /\ ToSet(pairs) = {pairs[i] : i \in 1 .. n}
  BY ListIs
<1>2. Keyed(key) = {} <=> \A x \in ToSet(pairs) : x.key # key
  BY <1>1 DEF Keyed
<1>3. CASE Keyed(key) = {}
  <2>1. next = Append(pairs, new)
    BY <1>3 DEF With
  <2> HIDE DEF new, next
  <2>2. ToSet(next) = ToSet(pairs) \cup {new}
    BY <2>1, AppendElements
  <2>3. \A y : y \in ToSet(next) <=> PutIn(ToSet(pairs), key, pair, y)
    BY <1>2, <1>3, <2>2 DEF PutIn, new
  <2> QED
    BY <2>3 DEF IsPut, next
<1>4. CASE Keyed(key) # {}
  <2>1. next = [i \in DOMAIN pairs |-> IF pairs[i].key = key THEN with(pairs[i]) ELSE pairs[i]]
    BY <1>4 DEF With
  <2> HIDE DEF with, next
  <2>2. DOMAIN next = 1 .. n /\ \A i \in 1 .. n : next[i] = IF pairs[i].key = key THEN with(pairs[i]) ELSE pairs[i]
    BY <1>1, <2>1
  <2>3. \A y : y \in ToSet(next) <=> \E i \in 1 .. n : y = IF pairs[i].key = key THEN with(pairs[i]) ELSE pairs[i]
    <3>1. \A y : y \in ToSet(next) <=> \E i \in 1 .. n : y = next[i]
      BY <2>2 DEF ToSet
    <3> QED
      BY <2>2, <3>1
  <2>4. \A y : y \in ToSet(next) <=> \E x \in ToSet(pairs) : y = IF x.key = key THEN with(x) ELSE x
    BY <1>1, <2>3
  <2>5. ASSUME NEW y
        PROVE  (\E x \in ToSet(pairs) : y = IF x.key = key THEN with(x) ELSE x) <=> PutIn(ToSet(pairs), key, pair, y)
    BY <1>2, <1>4 DEF PutIn, with
  <2> QED
    BY <2>4, <2>5 DEF IsPut, next
<1> QED
  BY <1>3, <1>4

(* One job less: it filled nothing, or its pair is put among the others.   *)
LEMMA IdleLess ==
    ASSUME NEW st, NEW d, NEW js, NEW ps, NEW ms, StageInv(st, d, js, ps, ms),
           NEW less, NEW job, less \subseteq js, js \subseteq less \cup {job}, Idle(st, job), ~Wrong(st, job)
    PROVE  StageInv(st, d, less, ps, ms)
<1>1. ~Active(st, d, job)
  BY DEF Active
<1>2. ASSUME NEW p, NEW b, From(st, d, js, p, b) PROVE From(st, d, less, p, b)
  BY <1>1, <1>2, FromLess
<1>3. ASSUME NEW b, Active(st, d, b), b \notin less PROVE InPairs(st, d, less, ps, b) \/ InMade(st, d, less, ms, b)
  <2>1. b # job
    BY <1>1, <1>3
  <2>2. InPairs(st, d, js, ps, b) \/ InMade(st, d, js, ms, b)
    BY <1>3, <2>1 DEF StageInv
  <2> QED
    BY <1>2, <2>2 DEF InPairs, InMade
<1>4. \A x \in ps : OfJob(st, d, js, x) => OfJob(st, d, less, x)
  BY <1>2 DEF OfJob
<1>5. \A p : Sound(st, d, js, p) => Sound(st, d, less, p)
  BY <1>2 DEF Sound
<1>6. \A b : IsJob(st, d, b) /\ b \notin less => ~Wrong(st, b)
  BY DEF StageInv
<1>7. \A b \in less : IsJob(st, d, b)
  BY DEF StageInv
<1>8. /\ \A x \in ps : ~Clashes(x.pair) /\ OfJob(st, d, js, x)
      /\ \A m \in ms : m.stage = st => Sound(st, d, js, m.pair)
  BY DEF StageInv
<1> QED
  BY <1>3, <1>4, <1>5, <1>6, <1>7, <1>8 DEF StageInv

LEMMA PutLess ==
    ASSUME NEW st, st # "virtual", NEW d, NEW js, NEW ps, NEW ms, StageInv(st, d, js, ps, ms), NotMade(st, ms),
           NEW less, NEW job \in js, less \subseteq js, js \subseteq less \cup {job}, ~Idle(st, job), ~Wrong(st, job),
           NEW pair, pair = PairOf(st, job), NEW next, IsPut(next, ps, KeyOf(pair), pair),
           \A y \in next : ~PairClash(y.pair)
    PROVE  StageInv(st, d, less, next, ms)
<1> DEFINE key == KeyOf(pair)
<1>1. Active(st, d, job) /\ IsJob(st, d, job)
  BY DEF Active, StageInv
<1>2. \A b : Kin(st, b, job) <=> KeyOf(PairOf(st, b)) = key
  BY DEF Kin
<1>3. ASSUME NEW p, NEW b, From(st, d, js, p, b), KeyOf(PairOf(st, b)) # key PROVE From(st, d, less, p, b)
  BY <1>2, <1>3, FromLess
<1>4. ASSUME NEW x \in ps, x.key = key
      PROVE  LET y == [key |-> key, pair |-> MergePairs(x.pair, pair)]
             IN /\ y \in next /\ y.key = key /\ y.pair = MergePairs(x.pair, pair) /\ y.pair.samePorts
                /\ From(st, d, less, y.pair, job)
                /\ \A b : From(st, d, js, x.pair, b) /\ Keyed1(st, x, b) => From(st, d, less, y.pair, b)
  <2> DEFINE y == [key |-> key, pair |-> MergePairs(x.pair, pair)]
  <2>1. y.key = key /\ y.pair = MergePairs(x.pair, pair)
    OBVIOUS
  <2>2. PutIn(ps, key, pair, y)
    BY <1>4 DEF PutIn
  <2>3. y \in next
    BY <2>2 DEF IsPut
  <2> HIDE DEF y, key
  <2>4. y.pair.samePorts
    BY <2>3 DEF PairClash
  <2>5. ASSUME NEW b, From(st, d, js, x.pair, b), Keyed1(st, x, b)
        PROVE  From(st, d, less, y.pair, b) /\ From(st, d, less, y.pair, job)
    <3>1. Kin(st, b, job)
      BY <1>2, <1>4, <2>5 DEF Keyed1
    <3>2. y.pair = MergePairs(x.pair, PairOf(st, job))
      BY <2>1
    <3> QED
      BY <1>1, <2>4, <2>5, <3>1, <3>2, FromMore
  <2>6. OfJob(st, d, js, x)
    BY DEF StageInv
  <2>7. From(st, d, less, y.pair, job)
    BY <2>5, <2>6 DEF OfJob
  <2> QED
    BY <2>1, <2>3, <2>4, <2>5, <2>7 DEF y
<1>5. ASSUME \A x \in ps : x.key # key
      PROVE  LET y == [key |-> key, pair |-> pair] IN y \in next /\ From(st, d, less, pair, job)
  <2> DEFINE y == [key |-> key, pair |-> pair]
  <2>1. PutIn(ps, key, pair, y)
    BY <1>5 DEF PutIn
  <2>2. y \in next
    BY <2>1 DEF IsPut
  <2>3. ASSUME NEW b, Active(st, d, b), Kin(st, job, b) PROVE b = job \/ b \in less
    <3> SUFFICES ASSUME b \notin js PROVE FALSE
      OBVIOUS
    <3>1. InPairs(st, d, js, ps, b) \/ InMade(st, d, js, ms, b)
      BY <2>3 DEF StageInv
    <3>2. KeyOf(PairOf(st, b)) = key
      BY <2>3 DEF Kin
    <3> QED
      BY <1>5, <3>1, <3>2 DEF InPairs, InMade, Keyed1, NotMade
  <2>4. From(st, d, less, PairOf(st, job), job)
    BY <1>1, <2>3, FromNew
  <2> QED
    BY <2>2, <2>4
<1>6. ASSUME NEW x \in ps, x.key # key PROVE x \in next
  BY <1>6 DEF IsPut, PutIn
<1>7. ASSUME NEW b, Active(st, d, b), b \notin less PROVE InPairs(st, d, less, next, b)
  <2>1. CASE b = job
    <3>1. CASE \A x \in ps : x.key # key
      <4> DEFINE y == [key |-> key, pair |-> pair]
      <4>1. y \in next /\ y.key = key /\ y.pair = pair /\ From(st, d, less, pair, job)
        BY <1>5, <3>1
      <4> HIDE DEF y
      <4> QED
        BY <2>1, <4>1 DEF InPairs, Keyed1
    <3>2. ASSUME NEW x \in ps, x.key = key PROVE InPairs(st, d, less, next, b)
      <4> DEFINE y == [key |-> key, pair |-> MergePairs(x.pair, pair)]
      <4>1. y \in next /\ y.key = key /\ From(st, d, less, y.pair, job)
        BY <1>4, <3>2
      <4> HIDE DEF y
      <4> QED
        BY <2>1, <4>1 DEF InPairs, Keyed1
    <3> QED
      BY <3>1, <3>2
  <2>2. CASE b # job
    <3>1. b \notin js
      BY <1>7, <2>2
    <3>2. InPairs(st, d, js, ps, b)
      <4>1. InPairs(st, d, js, ps, b) \/ InMade(st, d, js, ms, b)
        BY <1>7, <3>1 DEF StageInv
      <4> QED
        BY <4>1 DEF InMade, NotMade
    <3>3. PICK x \in ps : From(st, d, js, x.pair, b) /\ Keyed1(st, x, b)
      BY <3>2 DEF InPairs
    <3>4. CASE x.key # key
      <4>1. KeyOf(PairOf(st, b)) # key
        BY <3>3, <3>4 DEF Keyed1
      <4>2. From(st, d, less, x.pair, b)
        BY <1>3, <3>3, <4>1
      <4> QED
        BY <1>6, <3>3, <3>4, <4>2 DEF InPairs
    <3>5. CASE x.key = key
      <4> DEFINE y == [key |-> key, pair |-> MergePairs(x.pair, pair)]
      <4>1. y \in next /\ y.key = key /\ From(st, d, less, y.pair, b)
        BY <1>4, <3>3, <3>5
      <4>2. KeyOf(PairOf(st, b)) = key
        BY <3>3, <3>5 DEF Keyed1
      <4> HIDE DEF y, key
      <4> QED
        BY <4>1, <4>2 DEF InPairs, Keyed1
    <3> QED
      BY <3>4, <3>5
  <2> QED
    BY <2>1, <2>2
<1>8. ASSUME NEW y \in next PROVE ~Clashes(y.pair) /\ OfJob(st, d, less, y)
  <2>1. ~Clashes(y.pair)
    BY DEF PairClash, Clashes
  <2>2. PutIn(ps, key, pair, y)
    BY DEF IsPut
  <2>3. CASE y \in ps /\ y.key # key
    <3>1. PICK b : Active(st, d, b) /\ From(st, d, js, y.pair, b) /\ Keyed1(st, y, b)
      BY <2>3 DEF StageInv, OfJob
    <3>2. From(st, d, less, y.pair, b)
      BY <1>3, <2>3, <3>1 DEF Keyed1
    <3> QED
      BY <2>1, <3>1, <3>2 DEF OfJob
  <2>4. CASE (\A x \in ps : x.key # key) /\ y = [key |-> key, pair |-> pair]
    <3>1. From(st, d, less, pair, job) /\ y.key = key /\ y.pair = pair
      BY <1>5, <2>4
    <3> QED
      BY <1>1, <2>1, <3>1 DEF OfJob, Keyed1
  <2>5. ASSUME NEW x \in ps, x.key = key, y = [key |-> key, pair |-> MergePairs(x.pair, pair)]
        PROVE  OfJob(st, d, less, y)
    <3>1. From(st, d, less, y.pair, job) /\ y.key = key
      BY <1>4, <2>5
    <3> QED
      BY <1>1, <3>1 DEF OfJob, Keyed1
  <2> QED
    BY <2>1, <2>2, <2>3, <2>4, <2>5 DEF PutIn
<1>9. \A b : IsJob(st, d, b) /\ b \notin less => ~Wrong(st, b)
  BY DEF StageInv
<1>10. (\A b \in less : IsJob(st, d, b)) /\ \A m \in ms : m.stage = st => Sound(st, d, less, m.pair)
  BY DEF StageInv, NotMade
<1> QED
  BY <1>7, <1>8, <1>9, <1>10 DEF StageInv

(* A job of a virtual rule has a pair of its own.                          *)
LEMMA FromVirtual ==
    ASSUME NEW d, NEW js, NEW p, NEW b, From("virtual", d, js, p, b), NEW less
    PROVE  From("virtual", d, less, p, b)
<1> DEFINE st == "virtual"
<1>1. \A x, y : Kin(st, x, y) <=> x = y
  BY DEF Kin
<1> HIDE DEF st
<1>2. PICK G : Gathers(st, d, js, b, G) /\ IsMerge(st, p, G)
  BY DEF From, st
<1>3. Gathers(st, d, less, b, G)
  BY <1>1, <1>2 DEF Gathers
<1> QED
  BY <1>2, <1>3 DEF From, st

LEMMA VirtualLess ==
    ASSUME NEW d, NEW js, NEW ps, NEW ms, StageInv("virtual", d, js, ps, ms),
           NEW less, NEW job \in js, less \subseteq js, js \subseteq less \cup {job},
           ~Idle("virtual", job), ~Wrong("virtual", job), NEW x, x.pair = PairOf("virtual", job)
    PROVE  StageInv("virtual", d, less, ps \cup {x}, ms)
<1> DEFINE st == "virtual"
<1>1. \A p, b : From(st, d, js, p, b) => From(st, d, less, p, b)
  BY FromVirtual
<1>2. \A b, y : Keyed1(st, y, b)
  BY DEF Keyed1
<1>3. \A b, c : Kin(st, b, c) <=> b = c
  BY DEF Kin
<1> HIDE DEF st
<1>4. Active(st, d, job) /\ IsJob(st, d, job) /\ ~Clashes(x.pair)
  BY DEF Active, StageInv, Wrong, st
<1>5. From(st, d, less, PairOf(st, job), job)
  <2>1. \A b : Active(st, d, b) /\ Kin(st, job, b) => b = job \/ b \in less
    BY <1>3
  <2> QED
    BY <1>4, <2>1, FromNew
<1>6. From(st, d, less, x.pair, job)
  BY <1>5 DEF st
<1>7. StageInv(st, d, js, ps, ms)
  BY DEF st
<1>8. ASSUME NEW b, Active(st, d, b), b \notin less PROVE InPairs(st, d, less, ps \cup {x}, b) \/ InMade(st, d, less, ms, b)
  <2>1. CASE b = job
    BY <1>2, <1>6, <2>1 DEF InPairs
  <2>2. CASE b # job
    <3>1. InPairs(st, d, js, ps, b) \/ InMade(st, d, js, ms, b)
      BY <1>7, <1>8, <2>2 DEF StageInv
    <3> QED
      BY <1>1, <3>1 DEF InPairs, InMade
  <2> QED
    BY <2>1, <2>2
<1>9. \A y \in ps \cup {x} : ~Clashes(y.pair) /\ OfJob(st, d, less, y)
  <2>1. OfJob(st, d, less, x)
    BY <1>2, <1>4, <1>6 DEF OfJob
  <2>2. \A y \in ps : ~Clashes(y.pair) /\ OfJob(st, d, js, y)
    BY <1>7 DEF StageInv
  <2>3. \A y \in ps : OfJob(st, d, less, y)
    BY <1>1, <2>2 DEF OfJob
  <2> QED
    BY <1>4, <2>1, <2>2, <2>3
<1>10. \A m \in ms : m.stage = st => Sound(st, d, less, m.pair)
  BY <1>1, <1>7 DEF StageInv, Sound
<1>11. \A b : IsJob(st, d, b) /\ b \notin less => ~Wrong(st, b)
  BY <1>7 DEF StageInv, st
<1>12. \A b \in less : IsJob(st, d, b)
  BY <1>7 DEF StageInv
<1>13. StageInv(st, d, less, ps \cup {x}, ms)
  BY <1>8, <1>9, <1>10, <1>11, <1>12 DEF StageInv
<1> QED
  BY <1>13 DEF st

(* A pair becomes a session; the jobs of a stage are there; a stage is     *)
(* over and others add to the sessions.                                    *)
LEMMA PairBecomes ==
    ASSUME NEW st, NEW d, NEW ps, NEW ms, NEW x, StageInv(st, d, {}, ps, ms), x \in ps,
           NEW rest, ps = rest \cup {x}, NEW m, m.stage = st, m.pair = x.pair
    PROVE  StageInv(st, d, {}, rest, ms \cup {m})
<1>1. ASSUME NEW b, InPairs(st, d, {}, ps, b) PROVE InPairs(st, d, {}, rest, b) \/ InMade(st, d, {}, ms \cup {m}, b)
  BY <1>1 DEF InPairs, InMade
<1>2. \A b : InMade(st, d, {}, ms, b) => InMade(st, d, {}, ms \cup {m}, b)
  BY DEF InMade
<1>3. Sound(st, d, {}, m.pair)
  BY DEF StageInv, OfJob, Sound
<1> QED
  BY <1>1, <1>2, <1>3 DEF StageInv

LEMMA StageBegins ==
    ASSUME NEW st, NEW d, NEW js, NEW ms, \A b : b \in js <=> IsJob(st, d, b), NotMade(st, ms)
    PROVE  StageInv(st, d, js, {}, ms)
BY DEF StageInv, NotMade, Active

LEMMA StageKept ==
    ASSUME NEW st, NEW d, NEW js, NEW ps, NEW ms, StageInv(st, d, js, ps, ms), NEW more, NotMade(st, more)
    PROVE  StageInv(st, d, js, ps, ms \cup more)
<1>1. \A b : InMade(st, d, js, ms, b) => InMade(st, d, js, ms \cup more, b)
  BY DEF InMade
<1> QED
  BY <1>1 DEF StageInv, NotMade

-----------------------------------------------------------------------------
(* What applying a pair needs of the device whatever interfaces it has, and*)
(* the interface that is asked for.                                        *)
PortsFor(d, pair) == Those(Locals(Connections(d, pair.device)), LAMBDA p : p \in ToSet(pair.ports))
BaseFor(st, d, pair) ==
    IF st # "direct" THEN One(pair.local.ifname, <<>>)
    ELSE IF pair.local.lag # {} THEN <<"lag", One(pair.local.lag, "")>> ELSE Physical(PortsFor(d, pair)[1])
NameFor(st, d, pair) ==
    IF pair.local.svi # {} THEN <<"svi", One(pair.local.svi, "")>> ELSE Subbed(BaseFor(st, d, pair), pair.local)
Unfit(st, d, pair) == LET l == pair.local IN
    \/ l.svi # {} /\ (l.lag # {} \/ l.subif # {})
    \/ st = "direct" /\ l.lag = {} /\ l.svi = {} /\ Len(PortsFor(d, pair)) # 1
    \/ st # "direct" /\ (l.lag # {} \/ (l.subif # {} /\ One(l.ifname, <<>>) = <<>>))

WorkStages == {"direct", "virtual", "indirect"}
MadeAs(d, m) ==
    /\ m = [stage |-> m.stage, pair |-> m.pair, interface |-> NameFor(m.stage, d, m.pair)] /\ m.stage \in WorkStages
    /\ ~Unfit(m.stage, d, m.pair) /\ ~ToBgpPeerRaises(m.pair.local, m.pair.connected)
AllMadeAs(d, ms) == \A m \in ms : MadeAs(d, m)

(* A device is done when no stage has jobs or pairs left.                  *)
Complete(d, ms) == AllMadeAs(d, ms) /\ \A st \in WorkStages : StageInv(st, d, {}, {}, ms)
WorkInv ==
    /\ Running => /\ stage # "globals" => StageInv(stage, me, ToSet(jobs), ToSet(pairs), ToSet(made))
                  /\ \A st \in SoFar(stage) \ {stage} : StageInv(st, me, {}, {}, ToSet(made))
                  /\ AllMadeAs(me, ToSet(made))
    /\ \A t \in DOMAIN results : ~results[t].raises => Complete(PlanOf(t), results[t].made)

AnEnd(ends) == CHOOSE e \in ends : TRUE

LEMMA SameJobs ==
    ASSUME w' = w, registry' = registry
    PROVE  /\ \A st, d, job : IsJob(st, d, job)' <=> IsJob(st, d, job)
           /\ \A d, m : MadeAs(d, m)' <=> MadeAs(d, m)
<1>1. \A d, p : Ends(d, p)' = Ends(d, p)
  BY DEF Ends
<1>2. \A d, n : Connections(d, n)' = Connections(d, n)
  BY <1>1 DEF Connections, Collect
<1>3. ASSUME NEW d PROVE NeighborsOf(d)' = NeighborsOf(d)
  <2> DEFINE s     == w.ports[d]
             of(p) == IF Ends(d, p) = {} THEN <<>> ELSE <<(CHOOSE e \in Ends(d, p) : TRUE)[1]>>
             all   == [i \in DOMAIN s |-> of(s[i])]
  <2>1. \A p : of(p)' = of(p)
    <3>1. \A p : of(p) = IF Ends(d, p) = {} THEN <<>> ELSE <<AnEnd(Ends(d, p))[1]>>
      BY DEF AnEnd
    <3>2. \A p : of(p)' = IF Ends(d, p)' = {} THEN <<>> ELSE <<AnEnd(Ends(d, p)')[1]>>
      BY DEF AnEnd
    <3> HIDE DEF of
    <3> QED
      BY <1>1, <3>1, <3>2
  <2>2. NeighborsOf(d) = FlattenSeq(all) /\ NeighborsOf(d)' = FlattenSeq(all')
    BY DEF NeighborsOf, Collect
  <2> HIDE DEF of
  <2>3. all' = all
    BY <2>1
  <2> QED
    BY <2>2, <2>3
<1>4. \A st, d, m : Found(st, d, m)' <=> Found(st, d, m)
  BY <1>3 DEF Found, Others
<1>5. \A d, m, ports : RunsOn(d, m, ports)' <=> RunsOn(d, m, ports)
  BY <1>2 DEF RunsOn
<1>6. \A d, job : DirectJob(d, job)' <=> DirectJob(d, job)
  BY <1>4, <1>5 DEF DirectJob
<1>7. \A d, job : IndirectJob(d, job)' <=> IndirectJob(d, job)
  BY <1>4 DEF IndirectJob
<1>8. \A d, job : VirtualJob(d, job)' <=> VirtualJob(d, job)
  BY DEF VirtualJob
<1>9. \A st, d, job : IsJob(st, d, job)' <=> IsJob(st, d, job)
  BY <1>6, <1>7, <1>8 DEF IsJob
<1>10. \A d, pair : PortsFor(d, pair)' = PortsFor(d, pair)
  BY <1>2 DEF PortsFor, Those, Collect, Locals
<1>11. ASSUME NEW st, NEW d, NEW pair
       PROVE  NameFor(st, d, pair)' = NameFor(st, d, pair) /\ (Unfit(st, d, pair)' <=> Unfit(st, d, pair))
  <2>1. PortsFor(d, pair)' = PortsFor(d, pair)
    BY <1>10
  <2>2. BaseFor(st, d, pair)' = BaseFor(st, d, pair)
    BY <2>1 DEF BaseFor
  <2> QED
    BY <2>1, <2>2 DEF NameFor, Unfit
<1>12. \A d, m : MadeAs(d, m)' <=> MadeAs(d, m)
  BY <1>11 DEF MadeAs
<1> QED
  BY <1>9, <1>12

LEMMA SameStages ==
    ASSUME w' = w, registry' = registry
    PROVE  /\ \A st, d, js, ps, ms : StageInv(st, d, js, ps, ms)' <=> StageInv(st, d, js, ps, ms)
           /\ \A d, ms : AllMadeAs(d, ms)' <=> AllMadeAs(d, ms)
           /\ \A d, ms : Complete(d, ms)' <=> Complete(d, ms)
           /\ \A st, d, js, p : Sound(st, d, js, p)' <=> Sound(st, d, js, p)
<1>1. /\ \A st, d, job : IsJob(st, d, job)' <=> IsJob(st, d, job)
      /\ \A d, ms : AllMadeAs(d, ms)' <=> AllMadeAs(d, ms)
  BY SameJobs DEF AllMadeAs
<1>2. \A st, job : Wrong(st, job)' <=> Wrong(st, job)
  BY DEF Wrong
<1>3. \A st, d, job : Active(st, d, job)' <=> Active(st, d, job)
  BY <1>1 DEF Active
<1>4. \A st, d, js, a, G : Gathers(st, d, js, a, G)' <=> Gathers(st, d, js, a, G)
  BY <1>3 DEF Gathers
<1>5. \A st, d, js, p, a : From(st, d, js, p, a)' <=> From(st, d, js, p, a)
  BY <1>4 DEF From
<1>6. /\ \A st, d, js, ps, b : InPairs(st, d, js, ps, b)' <=> InPairs(st, d, js, ps, b)
      /\ \A st, d, js, ms, b : InMade(st, d, js, ms, b)' <=> InMade(st, d, js, ms, b)
  BY <1>5 DEF InPairs, InMade
<1>7. /\ \A st, d, js, x : OfJob(st, d, js, x)' <=> OfJob(st, d, js, x)
      /\ \A st, d, js, p : Sound(st, d, js, p)' <=> Sound(st, d, js, p)
  BY <1>3, <1>5 DEF OfJob, Sound
<1>8. \A st, d, js, ps, ms : StageInv(st, d, js, ps, ms)' <=> StageInv(st, d, js, ps, ms)
  BY <1>1, <1>2, <1>3, <1>6, <1>7 DEF StageInv
<1> QED
  BY <1>1, <1>7, <1>8 DEF Complete

LEMMA SameWork ==
    ASSUME UNCHANGED <<world, registry>>
    PROVE  w' = w /\ \A t : PlanOf(t)' = PlanOf(t)
BY DEF w, PlanOf

-----------------------------------------------------------------------------
(* The end of an execution; the steps of one.                              *)
LEMMA WorkEnds ==
    ASSUME StandInv, WorkInv, Running, UnchangedInputs, Started, NEW r, results' = Append(results, r),
           r.raises \/ Complete(me, r.made)
    PROVE  WorkInv'
<1>1. w' = w /\ registry' = registry /\ \A t : PlanOf(t)' = PlanOf(t)
  BY SameWork DEF UnchangedInputs
<1>2. Listed(results) /\ Len(results) = turn - 1 /\ turn \in Nat /\ PlanOf(turn) = me
  BY AtWork DEF StandInv, PlanOf, me
<1>3. results \in Seq(ToSet(results) \cup {r})
  BY <1>2, SeqMonotonic DEF Listed
<1>4. /\ DOMAIN results' = 1 .. turn /\ results'[turn] = r
      /\ \A t \in 1 .. turn - 1 : results'[t] = results[t] /\ t \in DOMAIN results
  <2>1. /\ Append(results, r) \in Seq(ToSet(results) \cup {r}) /\ Len(Append(results, r)) = Len(results) + 1
        /\ Append(results, r)[Len(results) + 1] = r /\ \A t \in 1 .. Len(results) : Append(results, r)[t] = results[t]
    BY <1>3, AppendProperties
  <2>2. DOMAIN Append(results, r) = 1 .. Len(Append(results, r)) /\ DOMAIN results = 1 .. Len(results)
    BY <1>2, <2>1, SeqElements, ListIs
  <2> QED
    BY <1>2, <2>1, <2>2
<1>5. ASSUME NEW t \in DOMAIN results', ~results'[t].raises PROVE Complete(PlanOf(t), results'[t].made)
  <2>1. CASE t = turn
    BY <1>2, <1>4, <1>5, <2>1
  <2>2. CASE t # turn
    <3>1. t \in 1 .. turn - 1
      BY <1>2, <1>4, <2>2
    <3> QED
      BY <1>4, <1>5, <3>1 DEF WorkInv
  <2> QED
    BY <2>1, <2>2
<1>6. \A t \in DOMAIN results' : ~results'[t].raises => Complete(PlanOf(t), results[t].made)'
  BY <1>1, <1>5, SameStages
<1>7. stage' = "globals" /\ ToSet(made') = {} /\ SoFar(stage)' = {}
  BY NoElements DEF Started, SoFar
<1>8. AllMadeAs(me, ToSet(made))'
  BY <1>7 DEF AllMadeAs
<1> QED
  BY <1>6, <1>7, <1>8 DEF WorkInv

LEMMA WorkRaises ==
    ASSUME StandInv, WorkInv, Running, UnchangedInputs, Raise
    PROVE  WorkInv'
<1> DEFINE r == [raises |-> TRUE, peers |-> {}, globals |-> NoGlobals, made |-> {}, policies |-> <<>>,
                 device |-> interfaces'[me]]
<1>1. Started /\ results' = Append(results, r) /\ r.raises
  BY DEF Raise
<1> HIDE DEF r
<1> QED
  BY <1>1, WorkEnds

LEMMA WorkWithin ==
    ASSUME WorkInv, UNCHANGED <<world, registry, turn, results>>,
           Running => /\ StageInv(stage', me, ToSet(jobs'), ToSet(pairs'), ToSet(made')) /\ AllMadeAs(me, ToSet(made'))
                      /\ \A st \in SoFar(stage') \ {stage'} : StageInv(st, me, {}, {}, ToSet(made'))
    PROVE  WorkInv'
<1>1. w' = w /\ registry' = registry /\ \A t : PlanOf(t)' = PlanOf(t)
  BY SameWork
<1>2. me' = me /\ (Running' <=> Running)
  BY <1>1, SameMoment
<1>3. /\ \A st, d, js, ps, ms : StageInv(st, d, js, ps, ms)' <=> StageInv(st, d, js, ps, ms)
      /\ \A d, ms : AllMadeAs(d, ms)' <=> AllMadeAs(d, ms)
      /\ \A d, ms : Complete(d, ms)' <=> Complete(d, ms)
  BY <1>1, SameStages
<1>4. \A t \in DOMAIN results' : ~results'[t].raises => Complete(PlanOf(t), results[t].made)'
  BY <1>1, <1>3 DEF WorkInv
<1>5. ASSUME Running'
      PROVE  /\ StageInv(stage, me, ToSet(jobs), ToSet(pairs), ToSet(made))' /\ AllMadeAs(me, ToSet(made))'
             /\ \A st \in SoFar(stage)' \ {stage'} : StageInv(st, me, {}, {}, ToSet(made))'
  <2>1. /\ StageInv(stage', me, ToSet(jobs'), ToSet(pairs'), ToSet(made')) /\ AllMadeAs(me, ToSet(made'))
        /\ \A st \in SoFar(stage') \ {stage'} : StageInv(st, me, {}, {}, ToSet(made'))
    BY <1>2, <1>5
  <2>2. SoFar(stage)' = SoFar(stage')
    BY DEF SoFar
  <2> QED
    BY <1>2, <1>3, <2>1, <2>2
<1> QED
  BY <1>4, <1>5 DEF WorkInv

LEMMA FirstAndRest ==
    ASSUME NEW s, Listed(s), s # <<>>
    PROVE  ToSet(s) = ToSet(Tail(s)) \cup {Head(s)} /\ Listed(Tail(s))
<1> DEFINE n == Len(s)
<1>1. s \in Seq(ToSet(s)) /\ n \in Nat /\ DOMAIN s = 1 .. n /\ ToSet(s) = {s[i] : i \in 1 .. n} /\ n # 0
  BY ListIs DEF Listed
<1>2. Tail(s) \in Seq(ToSet(s)) /\ Len(Tail(s)) = n - 1 /\ Head(s) = s[1] /\ \A i \in 1 .. n - 1 : Tail(s)[i] = s[i + 1]
  BY <1>1
<1>3. Listed(Tail(s)) /\ ToSet(Tail(s)) = {Tail(s)[i] : i \in 1 .. n - 1} /\ Head(s) \in ToSet(s)
      /\ ToSet(Tail(s)) \subseteq ToSet(s)
  BY <1>2, HeadAndTail, SeqElements
<1>4. ASSUME NEW i \in 1 .. n PROVE s[i] \in ToSet(Tail(s)) \cup {Head(s)}
  <2>1. CASE i = 1
    BY <1>2, <2>1
  <2>2. CASE i # 1
    <3>1. i - 1 \in 1 .. n - 1 /\ (i - 1) + 1 = i
      BY <1>1, <2>2
    <3>2. Tail(s)[i - 1] = s[i]
      BY <1>2, <3>1
    <3> QED
      BY <1>3, <3>1, <3>2
  <2> QED
    BY <2>1, <2>2
<1> QED
  BY <1>1, <1>3, <1>4

(* What applying a pair gives.                                             *)
LEMMA DirectGot ==
    ASSUME NEW pair, NEW c, c = InterfaceChanges(pair.local, pair.connected), NEW got, got = DirectInterface(pair, c)
    PROVE  /\ got.raises <=> Unfit("direct", me, pair)
           /\ ~got.raises => got.name = NameFor("direct", me, pair)
<1> DEFINE l     == pair.local
           ports == PortsOf(pair)
           had   == IF c.lag = {} THEN interfaces[me] ELSE MakeLag(interfaces[me], One(c.lag, ""), ports)
           base  == IF c.lag # {} THEN <<"lag", One(c.lag, "")>> ELSE Physical(ports[1])
           name  == IF c.svi # {} THEN <<"svi", One(c.svi, "")>> ELSE Subif(base, c)
           bad   == ChangesRaise(c) \/ (c.lag = {} /\ c.svi = {} /\ Len(ports) # 1)
<1>1. c.lag = l.lag /\ c.svi = l.svi /\ c.subif = l.subif
  BY DEF InterfaceChanges
<1>2. ports = PortsFor(me, pair)
  BY DEF PortsOf, PortsFor
<1>3. got = IF bad THEN Refused ELSE On(had, name, c)
  BY DEF DirectInterface
<1>4. Refused.raises = TRUE /\ \A ifs, n : On(ifs, n, c).raises = FALSE /\ On(ifs, n, c).name = n
  BY DEF Refused, On
<1> HIDE DEF ports
<1>5. bad <=> Unfit("direct", me, pair)
  BY <1>1, <1>2 DEF Unfit, ChangesRaise
<1>6. name = NameFor("direct", me, pair)
  BY <1>1, <1>2 DEF NameFor, BaseFor, Subif, Subbed
<1> HIDE DEF bad, had, name
<1> QED
  BY <1>3, <1>4, <1>5, <1>6

NoBase(pair, ifs) == LET l == pair.local IN l.svi = {} /\ l.subif = {} /\ One(l.ifname, <<>>) \notin DOMAIN ifs \cup {<<>>}

LEMMA NondirectGot ==
    ASSUME NEW pair, NEW c, c = InterfaceChanges(pair.local, pair.connected), NEW got, got = NondirectInterface(pair, c),
           NEW st, st # "direct"
    PROVE  /\ got.raises <=> Unfit(st, me, pair) \/ NoBase(pair, interfaces[me])
           /\ ~got.raises => got.name = NameFor(st, me, pair)
<1> DEFINE l      == pair.local
           ifs    == interfaces[me]
           ifname == One(pair.local.ifname, <<>>)
           name   == IF c.svi # {} THEN <<"svi", One(c.svi, "")>> ELSE Subif(ifname, c)
           none   == [raises |-> FALSE, ifs |-> ifs, name |-> <<>>]
           bad    == \/ ChangesRaise(c) \/ c.lag # {} \/ (c.subif # {} /\ ifname = <<>>)
                     \/ c.subif = {} /\ c.svi = {} /\ ifname \notin DOMAIN ifs \cup {<<>>}
<1>1. c.lag = l.lag /\ c.svi = l.svi /\ c.subif = l.subif
  BY DEF InterfaceChanges
<1>2. got = IF bad THEN Refused ELSE IF name = <<>> THEN none ELSE On(ifs, name, c)
  BY DEF NondirectInterface
<1>3. /\ Refused.raises = TRUE /\ none.raises = FALSE /\ none.name = <<>>
      /\ \A n : On(ifs, n, c).raises = FALSE /\ On(ifs, n, c).name = n
  BY DEF Refused, On
<1>4. bad <=> Unfit(st, me, pair) \/ NoBase(pair, ifs)
  BY <1>1 DEF Unfit, NoBase, ChangesRaise
<1>5. name = NameFor(st, me, pair)
  BY <1>1 DEF NameFor, BaseFor, Subif, Subbed
<1> HIDE DEF bad, name, none
<1> QED
  BY <1>2, <1>3, <1>4, <1>5

LEMMA RunPairWorks == StandInv /\ TwinInv /\ WorkInv /\ RunPair => WorkInv'
<1> SUFFICES ASSUME StandInv, TwinInv, WorkInv, RunPair PROVE WorkInv'
  OBVIOUS
<1> DEFINE job  == Head(jobs)
           s    == OnMySide(job.m, job.ports)
           pair == MadePair(s, Other(job.m), Locals(job.ports))
           key  == PeerKey(pair, Locals(job.ports))
           next == With(key, pair)
<1>1. /\ Running /\ stage \in {"direct", "indirect"} /\ jobs # <<>>
      /\ UnchangedInputs
      /\ \/ Raise
         \/ /\ Other(job.m) \notin w.lost /\ Nothing(s)
            /\ jobs' = Tail(jobs) /\ UNCHANGED <<turn, stage, pairs, globals, peers, made, results>>
         \/ /\ Other(job.m) \notin w.lost /\ ~Nothing(s)
            /\ ~Clash(pair.local) /\ ~Clash(pair.connected) /\ ~AddrsRaise(pair)
            /\ ~ \E i \in DOMAIN next : PairClash(next[i].pair)
            /\ jobs' = Tail(jobs) /\ pairs' = next
            /\ UNCHANGED <<turn, stage, globals, peers, made, results>>
  BY DEF RunPair
<1>2. stage # "virtual" /\ stage # "globals" /\ Listed(jobs) /\ Listed(pairs)
  BY <1>1 DEF StandInv
<1>3. s = SidesOf(stage, job) /\ pair = PairOf(stage, job)
  BY <1>2 DEF SidesOf, PairOf
<1>4. key = KeyOf(pair)
  BY DEF KeyOf, MadePair
<1>5. job \in ToSet(jobs) /\ ToSet(Tail(jobs)) \subseteq ToSet(jobs) /\ ToSet(jobs) \subseteq ToSet(Tail(jobs)) \cup {job}
  BY <1>1, <1>2, FirstAndRest
<1> HIDE DEF job, pair, key, s
<1>6. /\ StageInv(stage, me, ToSet(jobs), ToSet(pairs), ToSet(made)) /\ AllMadeAs(me, ToSet(made))
      /\ \A st \in SoFar(stage) \ {stage} : StageInv(st, me, {}, {}, ToSet(made))
      /\ NotMade(stage, ToSet(made))
  BY <1>1, <1>2 DEF WorkInv, TwinInv
<1>7. CASE Raise
  BY <1>1, <1>7, WorkRaises
<1>8. CASE /\ Other(job.m) \notin w.lost /\ Nothing(s)
           /\ jobs' = Tail(jobs) /\ UNCHANGED <<turn, stage, pairs, globals, peers, made, results>>
  <2>1. Idle(stage, job) /\ ~Wrong(stage, job)
    BY <1>3, <1>8 DEF Idle, Wrong
  <2>2. StageInv(stage, me, ToSet(Tail(jobs)), ToSet(pairs), ToSet(made))
    BY <1>5, <1>6, <2>1, IdleLess
  <2>3. UNCHANGED <<world, registry, turn, results>> /\ stage' = stage /\ pairs' = pairs /\ made' = made /\ jobs' = Tail(jobs)
    BY <1>1, <1>8 DEF UnchangedInputs
  <2>4. /\ StageInv(stage', me, ToSet(jobs'), ToSet(pairs'), ToSet(made')) /\ AllMadeAs(me, ToSet(made'))
        /\ \A st \in SoFar(stage') \ {stage'} : StageInv(st, me, {}, {}, ToSet(made'))
    BY <1>6, <2>2, <2>3
  <2> QED
    BY <2>3, <2>4, WorkWithin
<1>9. CASE /\ Other(job.m) \notin w.lost /\ ~Nothing(s)
           /\ ~Clash(pair.local) /\ ~Clash(pair.connected) /\ ~AddrsRaise(pair)
           /\ ~ \E i \in DOMAIN next : PairClash(next[i].pair)
           /\ jobs' = Tail(jobs) /\ pairs' = next
           /\ UNCHANGED <<turn, stage, globals, peers, made, results>>
  <2>1. ~Idle(stage, job) /\ ~Wrong(stage, job)
    BY <1>3, <1>9 DEF Idle, Wrong, Clashes
  <2>2. IsPut(ToSet(next), ToSet(pairs), KeyOf(pair), pair) /\ \A y \in ToSet(next) : ~PairClash(y.pair)
    BY <1>2, <1>4, <1>9, WithPuts DEF ToSet
  <2> HIDE DEF next
  <2>3. StageInv(stage, me, ToSet(Tail(jobs)), ToSet(next), ToSet(made))
    BY <1>2, <1>3, <1>5, <1>6, <2>1, <2>2, PutLess
  <2>4. UNCHANGED <<world, registry, turn, results>> /\ stage' = stage /\ pairs' = next /\ made' = made /\ jobs' = Tail(jobs)
    BY <1>1, <1>9 DEF UnchangedInputs
  <2>5. /\ StageInv(stage', me, ToSet(jobs'), ToSet(pairs'), ToSet(made')) /\ AllMadeAs(me, ToSet(made'))
        /\ \A st \in SoFar(stage') \ {stage'} : StageInv(st, me, {}, {}, ToSet(made'))
    BY <1>6, <2>3, <2>4
  <2> QED
    BY <2>4, <2>5, WorkWithin
<1> QED
  BY <1>1, <1>7, <1>8, <1>9

LEMMA RunVirtualWorks == StandInv /\ TwinInv /\ WorkInv /\ RunVirtual => WorkInv'
<1> SUFFICES ASSUME StandInv, TwinInv, WorkInv, RunVirtual PROVE WorkInv'
  OBVIOUS
<1> DEFINE job  == Head(jobs)
           s    == [mine |-> job.rule.handler.left, theirs |-> job.rule.handler.right, session |-> job.rule.handler.session]
           pair == MadePair([s EXCEPT !.theirs.addr = {[a EXCEPT !.ip = Append(@, job.num)] : a \in @}], "", <<>>)
           x    == [key |-> <<>>, pair |-> pair]
<1>1. /\ Running /\ stage = "virtual" /\ jobs # <<>> /\ UnchangedInputs
      /\ \/ Raise
         \/ /\ Nothing(s) \/ ~(Clash(pair.local) \/ Clash(pair.connected))
            /\ jobs' = Tail(jobs) /\ pairs' = IF Nothing(s) THEN pairs ELSE Append(pairs, x)
            /\ UNCHANGED <<turn, stage, globals, peers, made, results>>
  BY DEF RunVirtual
<1>2. Listed(jobs) /\ Listed(pairs)
  BY DEF StandInv
<1>3. s = SidesOf("virtual", job)
  BY DEF SidesOf
<1>4. pair = PairOf("virtual", job)
  <2> DEFINE of(t) == MadePair([t EXCEPT !.theirs.addr = {[a EXCEPT !.ip = Append(@, job.num)] : a \in @}], "", <<>>)
  <2>1. PairOf("virtual", job) = of(SidesOf("virtual", job))
    BY DEF PairOf
  <2>2. pair = of(s)
    OBVIOUS
  <2> HIDE DEF of, pair, s
  <2> QED
    BY <1>3, <2>1, <2>2
<1>5. job \in ToSet(jobs) /\ ToSet(Tail(jobs)) \subseteq ToSet(jobs) /\ ToSet(jobs) \subseteq ToSet(Tail(jobs)) \cup {job}
  BY <1>1, <1>2, FirstAndRest
<1>6. x.pair = pair
  OBVIOUS
<1> HIDE DEF job, pair, s, x
<1>7. /\ StageInv("virtual", me, ToSet(jobs), ToSet(pairs), ToSet(made)) /\ AllMadeAs(me, ToSet(made))
      /\ \A st \in SoFar(stage) \ {stage} : StageInv(st, me, {}, {}, ToSet(made))
  BY <1>1 DEF WorkInv
<1>8. CASE Raise
  BY <1>1, <1>8, WorkRaises
<1>9. CASE /\ Nothing(s) \/ ~(Clash(pair.local) \/ Clash(pair.connected))
           /\ jobs' = Tail(jobs) /\ pairs' = IF Nothing(s) THEN pairs ELSE Append(pairs, x)
           /\ UNCHANGED <<turn, stage, globals, peers, made, results>>
  <2>1. ~Wrong("virtual", job)
    BY <1>3, <1>4, <1>9 DEF Wrong, Idle, Clashes
  <2>2. StageInv("virtual", me, ToSet(Tail(jobs)), ToSet(pairs'), ToSet(made))
    <3>1. CASE Nothing(s)
      <4>1. Idle("virtual", job) /\ pairs' = pairs
        BY <1>3, <1>9, <3>1 DEF Idle
      <4> QED
        BY <1>5, <1>7, <2>1, <4>1, IdleLess
    <3>2. CASE ~Nothing(s)
      <4>1. ~Idle("virtual", job) /\ pairs' = Append(pairs, x)
        BY <1>3, <1>9, <3>2 DEF Idle
      <4>2. ToSet(pairs') = ToSet(pairs) \cup {x}
        BY <1>2, <4>1, AppendElements
      <4> QED
        BY <1>4, <1>5, <1>6, <1>7, <2>1, <4>1, <4>2, VirtualLess
    <3> QED
      BY <3>1, <3>2
  <2>3. UNCHANGED <<world, registry, turn, results>> /\ stage' = stage /\ made' = made /\ jobs' = Tail(jobs)
    BY <1>1, <1>9 DEF UnchangedInputs
  <2>4. /\ StageInv(stage', me, ToSet(jobs'), ToSet(pairs'), ToSet(made')) /\ AllMadeAs(me, ToSet(made'))
        /\ \A st \in SoFar(stage') \ {stage'} : StageInv(st, me, {}, {}, ToSet(made'))
    BY <1>1, <1>7, <2>2, <2>3
  <2> QED
    BY <2>3, <2>4, WorkWithin
<1> QED
  BY <1>1, <1>8, <1>9

LEMMA ApplyPairWorks == StandInv /\ TwinInv /\ WorkInv /\ ApplyPair => WorkInv'
<1> SUFFICES ASSUME StandInv, TwinInv, WorkInv, ApplyPair PROVE WorkInv'
  OBVIOUS
<1> DEFINE x    == Head(pairs)
           pair == x.pair
           c    == InterfaceChanges(pair.local, pair.connected)
           got  == IF stage = "direct" THEN DirectInterface(pair, c) ELSE NondirectInterface(pair, c)
           m    == [stage |-> stage, pair |-> pair, interface |-> got.name]
<1>1. /\ Running /\ stage # "globals" /\ jobs = <<>> /\ pairs # <<>> /\ UnchangedInputs
      /\ \/ Raise
         \/ /\ ~got.raises /\ ~ToBgpPeerRaises(pair.local, pair.connected)
            /\ made' = Append(made, m) /\ pairs' = Tail(pairs)
            /\ UNCHANGED <<turn, stage, jobs, globals, results>>
  BY DEF ApplyPair
<1>2. Listed(pairs) /\ Listed(made) /\ ToSet(jobs) = {}
  BY <1>1, NoElements DEF StandInv
<1>3. x \in ToSet(pairs) /\ ToSet(pairs) = ToSet(Tail(pairs)) \cup {x}
  BY <1>1, <1>2, FirstAndRest
<1>4. m.stage = stage /\ m.pair = pair /\ m.interface = got.name
      /\ m = [stage |-> m.stage, pair |-> m.pair, interface |-> m.interface]
  OBVIOUS
<1>5. ~got.raises => ~Unfit(stage, me, pair) /\ got.name = NameFor(stage, me, pair)
  BY DirectGot, NondirectGot
<1>6. pair = x.pair
  OBVIOUS
<1> HIDE DEF x, m, pair, got
<1>7. /\ StageInv(stage, me, {}, ToSet(pairs), ToSet(made)) /\ AllMadeAs(me, ToSet(made))
      /\ \A st \in SoFar(stage) \ {stage} : StageInv(st, me, {}, {}, ToSet(made))
  BY <1>1, <1>2 DEF WorkInv
<1>8. CASE Raise
  BY <1>1, <1>8, WorkRaises
<1>9. CASE /\ ~got.raises /\ ~ToBgpPeerRaises(pair.local, pair.connected)
           /\ made' = Append(made, m) /\ pairs' = Tail(pairs)
           /\ UNCHANGED <<turn, stage, jobs, globals, results>>
  <2>1. MadeAs(me, m)
    <3>1. m.stage \in WorkStages
      BY <1>1, <1>4 DEF TwinInv, Stages, WorkStages
    <3> QED
      BY <1>4, <1>5, <1>9, <3>1 DEF MadeAs
  <2>2. ToSet(made') = ToSet(made) \cup {m}
    BY <1>2, <1>9, AppendElements
  <2>3. StageInv(stage, me, {}, ToSet(Tail(pairs)), ToSet(made) \cup {m})
    BY <1>3, <1>4, <1>6, <1>7, PairBecomes
  <2>4. AllMadeAs(me, ToSet(made) \cup {m})
    BY <1>7, <2>1 DEF AllMadeAs
  <2>5. ASSUME NEW st \in SoFar(stage) \ {stage} PROVE StageInv(st, me, {}, {}, ToSet(made) \cup {m})
    <3>1. NotMade(st, {m})
      BY <1>4 DEF NotMade
    <3> QED
      BY <1>7, <3>1, StageKept
  <2>6. UNCHANGED <<world, registry, turn, results>> /\ stage' = stage /\ pairs' = Tail(pairs) /\ ToSet(jobs') = {}
    BY <1>1, <1>2, <1>9 DEF UnchangedInputs
  <2>7. /\ StageInv(stage', me, ToSet(jobs'), ToSet(pairs'), ToSet(made')) /\ AllMadeAs(me, ToSet(made'))
        /\ \A st \in SoFar(stage') \ {stage'} : StageInv(st, me, {}, {}, ToSet(made'))
    BY <2>2, <2>3, <2>4, <2>5, <2>6
  <2> QED
    BY <2>6, <2>7, WorkWithin
<1> QED
  BY <1>1, <1>8, <1>9

LEMMA NextStageWorks == StandInv /\ TwinInv /\ WorkInv /\ NextStage => WorkInv'
<1> SUFFICES ASSUME StandInv, TwinInv, WorkInv, NextStage PROVE WorkInv'
  OBVIOUS
<1>1. /\ Running /\ stage \in {"direct", "virtual"} /\ jobs = <<>> /\ pairs = <<>>
      /\ stage' = IF stage = "direct" THEN "virtual" ELSE "indirect"
      /\ UNCHANGED <<world, registry, turn, interfaces, pairs, globals, peers, made, results>>
  BY DEF NextStage
<1>2. IsRegistry(registry) /\ IsFiniteSet(DOMAIN w.ports)
  BY <1>1, AtWork
<1>3. SoFar(stage') \ {stage'} = SoFar(stage) /\ stage' \notin SoFar(stage)
  BY <1>1 DEF SoFar
<1>4. NotMade(stage', ToSet(made)) /\ ToSet(jobs) = {} /\ ToSet(pairs) = {}
  BY <1>1, <1>3, NoElements DEF NotMade, TwinInv
<1>5. ASSUME NEW job PROVE job \in ToSet(jobs') <=> IsJob(stage', me, job)
  <2>1. CASE stage = "direct"
    <3>1. stage' = "virtual" /\ jobs' = Collect(LookupVirtual(rules, Names, me), VirtualJobs)
      BY <2>1 DEF NextStage
    <3>2. job \in ToSet(Collect(LookupVirtual(rules, Names, me), VirtualJobs)) <=> IsJob("virtual", me, job)
      BY <1>2, VirtualJobsAre
    <3> QED
      BY <3>1, <3>2
  <2>2. CASE stage # "direct"
    <3> DEFINE found == LookupIndirect(rules, Names, me, SetToSeq(DOMAIN w.ports))
    <3>1. stage' = "indirect" /\ jobs' = [i \in DOMAIN found |-> [m |-> found[i], ports |-> <<>>]]
      BY <2>2 DEF NextStage
    <3>2. job \in ToSet([i \in DOMAIN found |-> [m |-> found[i], ports |-> <<>>]]) <=> IsJob("indirect", me, job)
      BY <1>2, IndirectJobsAre
    <3> QED
      BY <3>1, <3>2
  <2> QED
    BY <2>1, <2>2
<1>6. StageInv(stage', me, ToSet(jobs'), {}, ToSet(made))
  BY <1>4, <1>5, StageBegins
<1>7. /\ StageInv(stage, me, {}, {}, ToSet(made)) /\ AllMadeAs(me, ToSet(made))
      /\ \A st \in SoFar(stage) \ {stage} : StageInv(st, me, {}, {}, ToSet(made))
  BY <1>1, <1>4 DEF WorkInv
<1>8. UNCHANGED <<world, registry, turn, results>> /\ ToSet(pairs') = {} /\ made' = made
  BY <1>1, <1>4
<1>9. /\ StageInv(stage', me, ToSet(jobs'), ToSet(pairs'), ToSet(made')) /\ AllMadeAs(me, ToSet(made'))
      /\ \A st \in SoFar(stage') \ {stage'} : StageInv(st, me, {}, {}, ToSet(made'))
  BY <1>3, <1>6, <1>7, <1>8
<1> QED
  BY <1>8, <1>9, WorkWithin

LEMMA GlobalsWorks == StandInv /\ TwinInv /\ WorkInv /\ Globals => WorkInv'
<1> SUFFICES ASSUME StandInv, TwinInv, WorkInv, Globals PROVE WorkInv'
  OBVIOUS
<1> DEFINE direct == LookupDirect(rules, Names, me, NeighborsOf(me))
<1>1. /\ Running /\ stage = "globals" /\ UnchangedInputs
      /\ \/ Raise
         \/ /\ stage' = "direct" /\ jobs' = Collect(direct, DirectJobs)
            /\ UNCHANGED <<turn, pairs, peers, made, results>>
  BY DEF Globals
<1>2. CASE Raise
  BY <1>1, <1>2, WorkRaises
<1>3. CASE /\ stage' = "direct" /\ jobs' = Collect(direct, DirectJobs)
           /\ UNCHANGED <<turn, pairs, peers, made, results>>
  <2>1. pairs = <<>> /\ SoFar(stage) = {}
    BY <1>1 DEF TwinInv, SoFar
  <2>2. NotMade("direct", ToSet(made)) /\ SoFar("direct") \ {"direct"} = {} /\ ToSet(pairs') = {}
    BY <1>3, <2>1, NoElements DEF TwinInv, NotMade, SoFar
  <2>3. ASSUME NEW job PROVE job \in ToSet(jobs') <=> IsJob("direct", me, job)
    <3>1. job \in ToSet(Collect(direct, DirectJobs)) <=> IsJob("direct", me, job)
      BY <1>1, AtWork, DirectJobsAre
    <3> QED
      BY <1>3, <3>1
  <2>4. StageInv("direct", me, ToSet(jobs'), {}, ToSet(made))
    BY <2>2, <2>3, StageBegins
  <2>5. UNCHANGED <<world, registry, turn, results>> /\ stage' = "direct" /\ made' = made
    BY <1>1, <1>3 DEF UnchangedInputs
  <2>6. AllMadeAs(me, ToSet(made))
    BY <1>1 DEF WorkInv
  <2>7. /\ StageInv(stage', me, ToSet(jobs'), ToSet(pairs'), ToSet(made')) /\ AllMadeAs(me, ToSet(made'))
        /\ \A st \in SoFar(stage') \ {stage'} : StageInv(st, me, {}, {}, ToSet(made'))
    BY <2>2, <2>4, <2>5, <2>6
  <2> QED
    BY <2>5, <2>7, WorkWithin
<1> QED
  BY <1>1, <1>2, <1>3

LEMMA FinishWorks == StandInv /\ TwinInv /\ WorkInv /\ Finish => WorkInv'
<1> SUFFICES ASSUME StandInv, TwinInv, WorkInv, Finish PROVE WorkInv'
  OBVIOUS
<1> DEFINE r == [raises |-> FALSE, peers |-> ToSet(peers), globals |-> globals, made |-> ToSet(made),
                 policies |-> OfRouteMap(ExtractPolicies([globals |-> globals, peers |-> peers])),
                 device |-> interfaces[me]]
<1>1. /\ Running /\ stage = "indirect" /\ jobs = <<>> /\ pairs = <<>> /\ UnchangedInputs /\ Started
      /\ results' = Append(results, r) /\ r.made = ToSet(made)
  BY DEF Finish
<1> HIDE DEF r
<1>2. /\ StageInv("indirect", me, {}, {}, ToSet(made)) /\ AllMadeAs(me, ToSet(made))
      /\ \A st \in SoFar("indirect") \ {"indirect"} : StageInv(st, me, {}, {}, ToSet(made))
  BY <1>1, NoElements DEF WorkInv
<1>3. SoFar("indirect") = WorkStages
  BY DEF SoFar, WorkStages
<1>4. Complete(me, ToSet(made))
  BY <1>2, <1>3 DEF Complete
<1> QED
  BY <1>1, <1>4, WorkEnds

(* The sessions of a device are those of all its jobs.                     *)
THEOREM WorkInvHolds == Spec => []WorkInv
<1>1. Init => WorkInv
  BY NoElements DEF Init, WorkInv, SoFar, AllMadeAs
<1>2. StandInv /\ TwinInv /\ WorkInv /\ [Next]_vars => WorkInv'
  <2> SUFFICES ASSUME WorkInv, UNCHANGED vars PROVE WorkInv'
    BY RunPairWorks, RunVirtualWorks, ApplyPairWorks, NextStageWorks, GlobalsWorks, FinishWorks DEF Next
  <2>1. UNCHANGED <<world, registry, turn, results, stage, jobs, pairs, made>>
    BY DEF vars
  <2>2. w' = w /\ registry' = registry /\ \A t : PlanOf(t)' = PlanOf(t)
    BY <2>1, SameWork
  <2>3. me' = me /\ (Running' <=> Running) /\ SoFar(stage)' = SoFar(stage)
    BY <2>1, <2>2, SameMoment DEF SoFar
  <2>4. /\ \A st, d, js, ps, ms : StageInv(st, d, js, ps, ms)' <=> StageInv(st, d, js, ps, ms)
        /\ \A d, ms : AllMadeAs(d, ms)' <=> AllMadeAs(d, ms)
        /\ \A d, ms : Complete(d, ms)' <=> Complete(d, ms)
    BY <2>2, SameStages
  <2> QED
    BY <2>1, <2>2, <2>3, <2>4 DEF WorkInv
<1> QED
  BY <1>1, <1>2, StandInvHolds, TwinInvHolds, PTL DEF Spec

-----------------------------------------------------------------------------
(* The cables: what is connected is connected the other way round.         *)
EndsTo(d, p, n) == {e \in Ends(d, p) : e[1] = n}

LEMMA ConnectedAre ==
    ASSUME NEW d, Listed(w.ports[d]), NEW n, NEW x
    PROVE  x \in ToSet(Connections(d, n)) <=>
               \E p \in ToSet(w.ports[d]) : EndsTo(d, p, n) # {} /\ x = <<p, AnEnd(EndsTo(d, p, n))[2]>>
<1> DEFINE ports == w.ports[d]
           of(p) == IF EndsTo(d, p, n) = {} THEN <<>> ELSE <<<<p, AnEnd(EndsTo(d, p, n))[2]>>>>
           parts == [i \in DOMAIN ports |-> of(ports[i])]
           Is(p) == EndsTo(d, p, n) # {} /\ x = <<p, AnEnd(EndsTo(d, p, n))[2]>>
<1>1. Connections(d, n) = FlattenSeq(parts)
  BY DEF Connections, Collect, EndsTo, AnEnd
<1>2. Len(ports) \in Nat /\ DOMAIN ports = 1 .. Len(ports) /\ ToSet(ports) = {ports[i] : i \in 1 .. Len(ports)}
  BY ListIs
<1>3. ASSUME NEW p PROVE Listed(of(p)) /\ (x \in ToSet(of(p)) <=> Is(p))
  <2> DEFINE y == <<p, AnEnd(EndsTo(d, p, n))[2]>>
  <2>1. of(p) = IF EndsTo(d, p, n) = {} THEN <<>> ELSE <<y>>
    OBVIOUS
  <2>2. Is(p) <=> EndsTo(d, p, n) # {} /\ x = y
    OBVIOUS
  <2> HIDE DEF of, Is, y
  <2> QED
    BY <2>1, <2>2, OneElement, NoElements
<1> HIDE DEF of, Is
<1>4. parts = [i \in 1 .. Len(ports) |-> parts[i]]
      /\ \A i \in 1 .. Len(ports) : Listed(parts[i]) /\ (x \in ToSet(parts[i]) <=> Is(ports[i]))
  BY <1>2, <1>3
<1> HIDE DEF parts
<1>5. ToSet(FlattenSeq(parts)) = UNION {ToSet(parts[i]) : i \in 1 .. Len(ports)}
  BY <1>2, <1>4, Collected
<1>6. x \in ToSet(FlattenSeq(parts)) <=> \E i \in 1 .. Len(ports) : Is(ports[i])
  BY <1>4, <1>5
<1>7. (\E i \in 1 .. Len(ports) : Is(ports[i])) <=> \E p \in ToSet(ports) : Is(p)
  BY <1>2
<1> QED
  BY <1>1, <1>6, <1>7 DEF Is

LEMMA NeighborsAre ==
    ASSUME NEW d, Listed(w.ports[d]), NEW n
    PROVE  n \in ToSet(NeighborsOf(d)) <=> \E p \in ToSet(w.ports[d]) : Ends(d, p) # {} /\ n = AnEnd(Ends(d, p))[1]
<1> DEFINE ports == w.ports[d]
           of(p) == IF Ends(d, p) = {} THEN <<>> ELSE <<AnEnd(Ends(d, p))[1]>>
           parts == [i \in DOMAIN ports |-> of(ports[i])]
           Is(p) == Ends(d, p) # {} /\ n = AnEnd(Ends(d, p))[1]
<1>1. NeighborsOf(d) = FlattenSeq(parts)
  BY DEF NeighborsOf, Collect, AnEnd
<1>2. Len(ports) \in Nat /\ DOMAIN ports = 1 .. Len(ports) /\ ToSet(ports) = {ports[i] : i \in 1 .. Len(ports)}
  BY ListIs
<1>3. ASSUME NEW p PROVE Listed(of(p)) /\ (n \in ToSet(of(p)) <=> Is(p))
  <2> DEFINE y == AnEnd(Ends(d, p))[1]
  <2>1. of(p) = IF Ends(d, p) = {} THEN <<>> ELSE <<y>>
    OBVIOUS
  <2>2. Is(p) <=> Ends(d, p) # {} /\ n = y
    OBVIOUS
  <2> HIDE DEF of, Is, y
  <2> QED
    BY <2>1, <2>2, OneElement, NoElements
<1> HIDE DEF of, Is
<1>4. parts = [i \in 1 .. Len(ports) |-> parts[i]]
      /\ \A i \in 1 .. Len(ports) : Listed(parts[i]) /\ (n \in ToSet(parts[i]) <=> Is(ports[i]))
  BY <1>2, <1>3
<1> HIDE DEF parts
<1>5. ToSet(FlattenSeq(parts)) = UNION {ToSet(parts[i]) : i \in 1 .. Len(ports)}
  BY <1>2, <1>4, Collected
<1>6. n \in ToSet(FlattenSeq(parts)) <=> \E i \in 1 .. Len(ports) : Is(ports[i])
  BY <1>4, <1>5
<1>7. (\E i \in 1 .. Len(ports) : Is(ports[i])) <=> \E p \in ToSet(ports) : Is(p)
  BY <1>2
<1> QED
  BY <1>1, <1>6, <1>7 DEF Is

LEMMA AnEndIs ==
    ASSUME NEW S, NEW e \in S, \A x, y \in S : x = y
    PROVE  AnEnd(S) = e
BY DEF AnEnd

LEMMA CableEnds ==
    ASSUME Cabled, NEW d \in DOMAIN w.ports, NEW p \in ToSet(w.ports[d]), NEW e \in Ends(d, p)
    PROVE  /\ e = <<e[1], e[2]>> /\ e[1] \in DOMAIN w.ports /\ e[2] \in ToSet(w.ports[e[1]])
           /\ <<d, p>> \in Ends(e[1], e[2]) /\ \A x \in Ends(d, p) : x = e
           /\ AnEnd(Ends(d, p)) = e /\ AnEnd(Ends(e[1], e[2])) = <<d, p>>
<1>1. \A x \in Ends(d, p) : x = e
  BY DEF Cabled
<1>2. /\ e = <<e[1], e[2]>> /\ e[1] \in DOMAIN w.ports /\ e[2] \in ToSet(w.ports[e[1]])
      /\ <<d, p>> \in Ends(e[1], e[2])
  <2>1. CASE \E l \in w.links : l[1] = d /\ l[2] = p /\ e = <<l[3], l[4]>>
    BY <2>1 DEF Cabled, Ends
  <2>2. CASE \E l \in w.links : l[3] = d /\ l[4] = p /\ e = <<l[1], l[2]>>
    BY <2>2 DEF Cabled, Ends
  <2> QED
    BY <2>1, <2>2 DEF Ends
<1>3. AnEnd(Ends(d, p)) = e
  BY <1>1, AnEndIs
<1>4. AnEnd(Ends(e[1], e[2])) = <<d, p>>
  BY <1>2, AnEndIs DEF Cabled
<1> QED
  BY <1>1, <1>2, <1>3, <1>4

PortsKnown == \A d \in DOMAIN w.ports : Listed(w.ports[d])

LEMMA CablesBack ==
    ASSUME Cabled, PortsKnown, NEW d \in DOMAIN w.ports, NEW n \in DOMAIN w.ports, NEW x \in ToSet(Connections(d, n))
    PROVE  x = <<x[1], x[2]>> /\ <<x[2], x[1]>> \in ToSet(Connections(n, d))
<1>1. PICK p \in ToSet(w.ports[d]) : EndsTo(d, p, n) # {} /\ x = <<p, AnEnd(EndsTo(d, p, n))[2]>>
  BY ConnectedAre DEF PortsKnown
<1>2. PICK e \in Ends(d, p) : e[1] = n
  BY <1>1 DEF EndsTo
<1>3. e[2] \in ToSet(w.ports[n]) /\ <<d, p>> \in Ends(n, e[2]) /\ e = <<n, e[2]>> /\ \A y \in Ends(d, p) : y = e
  BY <1>2, CableEnds
<1>4. AnEnd(EndsTo(d, p, n)) = e
  BY <1>2, <1>3, AnEndIs DEF EndsTo
<1> DEFINE q == e[2]
<1>5. EndsTo(n, q, d) # {} /\ AnEnd(EndsTo(n, q, d)) = <<d, p>>
  <2>1. <<d, p>> \in EndsTo(n, q, d)
    BY <1>3 DEF EndsTo
  <2>2. \A y, z \in EndsTo(n, q, d) : y = z
    BY <1>3 DEF EndsTo, Cabled
  <2> QED
    BY <2>1, <2>2, AnEndIs
<1>6. <<q, p>> \in ToSet(Connections(n, d))
  <2>1. <<q, p>> = <<q, AnEnd(EndsTo(n, q, d))[2]>>
    BY <1>5
  <2> HIDE DEF q
  <2> QED
    BY <1>3, <1>5, <2>1, ConnectedAre DEF PortsKnown, q
<1> QED
  BY <1>1, <1>4, <1>6

LEMMA NeighborsBack ==
    ASSUME Cabled, PortsKnown, NEW d \in DOMAIN w.ports, NEW n \in ToSet(NeighborsOf(d))
    PROVE  n \in DOMAIN w.ports /\ d \in ToSet(NeighborsOf(n))
<1>1. PICK p \in ToSet(w.ports[d]) : Ends(d, p) # {} /\ n = AnEnd(Ends(d, p))[1]
  BY NeighborsAre DEF PortsKnown
<1>2. PICK e \in Ends(d, p) : TRUE
  BY <1>1
<1>3. /\ n = e[1] /\ n \in DOMAIN w.ports /\ e[2] \in ToSet(w.ports[n]) /\ Ends(n, e[2]) # {}
      /\ AnEnd(Ends(n, e[2])) = <<d, p>>
  BY <1>1, <1>2, CableEnds
<1> QED
  BY <1>3, NeighborsAre DEF PortsKnown

-----------------------------------------------------------------------------
(* A job of one end, seen from the other.                                  *)
Flip(m) == [rule |-> m.rule, direct_order |-> ~m.direct_order, left |-> m.left, right |-> m.right]
RuleOf(st, rule) == \E g \in ToSet(Registries(registry)) : rule \in ToSet(RulesFor(st, g))

LEMMA FoundBack ==
    ASSUME Cabled, PortsKnown, NEW st \in {"direct", "indirect"}, NEW d \in DOMAIN w.ports, NEW m, Found(st, d, m)
    PROVE  /\ Other(m) \in DOMAIN w.ports /\ Found(st, Other(m), Flip(m)) /\ Other(Flip(m)) = d
           /\ RuleOf(st, m.rule) /\ m.direct_order \in BOOLEAN /\ Flip(m).rule = m.rule
           /\ Flip(m).direct_order = ~m.direct_order
<1>1. PICK g \in ToSet(Registries(registry)), n \in Others(st, d) : \E rule \in ToSet(RulesFor(st, g)) : Ways(rule, g, d, n, m)
  BY DEF Found, FoundIn, OwnFound
<1>0. PICK rule \in ToSet(RulesFor(st, g)) : Ways(rule, g, d, n, m)
  BY <1>1
<1>2. /\ n = Other(m) /\ Other(Flip(m)) = d /\ m.rule = rule /\ m.direct_order \in BOOLEAN /\ Flip(m).rule = rule
      /\ Flip(m).direct_order = ~m.direct_order /\ Ways(rule, g, n, d, Flip(m))
  <2>1. CASE /\ MatchPair(rule, Normalize(g, Names[d]), Normalize(g, Names[n]))
             /\ m = [rule |-> rule, direct_order |-> TRUE, left |-> d, right |-> n]
    <3>1. m.rule = rule /\ m.direct_order = TRUE /\ m.left = d /\ m.right = n
      BY <2>1
    <3>2. Flip(m) = [rule |-> rule, direct_order |-> FALSE, left |-> d, right |-> n]
      BY <3>1 DEF Flip
    <3>3. Flip(m).rule = rule /\ Flip(m).direct_order = FALSE /\ Flip(m).left = d /\ Flip(m).right = n
      BY <3>2
    <3>4. Ways(rule, g, n, d, Flip(m))
      BY <2>1, <3>2 DEF Ways
    <3> QED
      BY <3>1, <3>3, <3>4 DEF Other
  <2>2. CASE /\ MatchPair(rule, Normalize(g, Names[n]), Normalize(g, Names[d]))
             /\ m = [rule |-> rule, direct_order |-> FALSE, left |-> n, right |-> d]
    <3>1. m.rule = rule /\ m.direct_order = FALSE /\ m.left = n /\ m.right = d
      BY <2>2
    <3>2. Flip(m) = [rule |-> rule, direct_order |-> TRUE, left |-> n, right |-> d]
      BY <3>1 DEF Flip
    <3>3. Flip(m).rule = rule /\ Flip(m).direct_order = TRUE /\ Flip(m).left = n /\ Flip(m).right = d
      BY <3>2
    <3>4. Ways(rule, g, n, d, Flip(m))
      BY <2>2, <3>2 DEF Ways
    <3> QED
      BY <3>1, <3>3, <3>4 DEF Other
  <2> QED
    BY <1>0, <2>1, <2>2 DEF Ways
<1>4. n \in DOMAIN w.ports /\ d \in Others(st, n)
  BY NeighborsBack DEF Others
<1>5. Found(st, n, Flip(m))
  BY <1>2, <1>4 DEF Found, FoundIn, OwnFound
<1> QED
  BY <1>1, <1>2, <1>4, <1>5 DEF RuleOf

(* What the sides are when the other end's ports are the local ones.       *)
Opposite(s, t) == t.mine = s.theirs /\ t.theirs = s.mine /\ t.session = s.session

LEMMA SidesBack ==
    ASSUME NEW m, m.direct_order \in BOOLEAN, NEW k, k.rule = m.rule, k.direct_order = ~m.direct_order,
           NEW ports, NEW back,
           m.rule.handler.byPort => Locals(back) = Remotes(ports) /\ Remotes(back) = Locals(ports)
    PROVE  Opposite(OnMySide(m, ports), OnMySide(k, back))
<1> DEFINE h == m.rule.handler
           a == IF m.direct_order THEN Locals(ports) ELSE Remotes(ports)
           b == IF k.direct_order THEN Locals(back) ELSE Remotes(back)
<1>1. Sides(h, a) = Sides(h, b)
  <2>1. CASE h.byPort
    BY <2>1
  <2>2. CASE ~h.byPort
    BY <2>2 DEF Sides
  <2> QED
    BY <2>1, <2>2
<1> DEFINE s == Sides(h, a)
<1>2. OnMySide(m, ports) = IF m.direct_order THEN [mine |-> s.left, theirs |-> s.right, session |-> s.session]
                                             ELSE [mine |-> s.right, theirs |-> s.left, session |-> s.session]
  BY DEF OnMySide
<1>3. OnMySide(k, back) = IF k.direct_order THEN [mine |-> s.left, theirs |-> s.right, session |-> s.session]
                                            ELSE [mine |-> s.right, theirs |-> s.left, session |-> s.session]
  BY <1>1 DEF OnMySide
<1> HIDE DEF s
<1>4. CASE m.direct_order
  <2>1. OnMySide(m, ports) = [mine |-> s.left, theirs |-> s.right, session |-> s.session]
    BY <1>2, <1>4
  <2>2. OnMySide(k, back) = [mine |-> s.right, theirs |-> s.left, session |-> s.session]
    BY <1>3, <1>4
  <2> QED
    BY <2>1, <2>2 DEF Opposite
<1>5. CASE ~m.direct_order
  <2>1. OnMySide(m, ports) = [mine |-> s.right, theirs |-> s.left, session |-> s.session]
    BY <1>2, <1>5
  <2>2. OnMySide(k, back) = [mine |-> s.left, theirs |-> s.right, session |-> s.session]
    BY <1>3, <1>5
  <2> QED
    BY <2>1, <2>2 DEF Opposite
<1> QED
  BY <1>4, <1>5

LEMMA OneOfPorts == \A x : Locals(<<x>>) = <<x[1]>> /\ Remotes(<<x>>) = <<x[2]>>
BY DEF Locals, Remotes

NoneWrong(d) == \A st \in WorkStages : \A b : IsJob(st, d, b) => ~Wrong(st, b)

LEMMA JobsBack ==
    ASSUME Cabled, PortsKnown, Agreed, NEW st \in {"direct", "indirect"}, NEW d \in DOMAIN w.ports, NEW job, IsJob(st, d, job),
           NoneWrong(d), NoneWrong(Other(job.m))
    PROVE  /\ RuleOf(st, job.m.rule)
           /\ \E k : /\ IsJob(st, Other(job.m), k) /\ Other(k.m) = d
                     /\ Opposite(OnMySide(job.m, job.ports), OnMySide(k.m, k.ports))
<1> DEFINE m == job.m
           n == Other(m)
<1>1. ~Wrong(st, job) /\ n \notin w.lost
  BY DEF NoneWrong, Wrong, WorkStages
<1>2. Found(st, d, m) /\ (st = "direct" => RunsOn(d, m, job.ports)) /\ (st = "indirect" => job.ports = <<>>)
  <2>1. CASE st = "direct"
    <3>1. DirectJob(d, job)
      BY <2>1 DEF IsJob
    <3> QED
      BY <2>1, <3>1 DEF DirectJob
  <2>2. CASE st = "indirect"
    <3>1. IndirectJob(d, job)
      BY <2>2 DEF IsJob
    <3> QED
      BY <2>2, <3>1 DEF IndirectJob
  <2> QED
    BY <2>1, <2>2
<1>3. /\ n \in DOMAIN w.ports /\ Found(st, n, Flip(m)) /\ Other(Flip(m)) = d
      /\ RuleOf(st, m.rule) /\ m.direct_order \in BOOLEAN /\ Flip(m).rule = m.rule
      /\ Flip(m).direct_order = ~m.direct_order
  BY <1>2, FoundBack
<1> HIDE DEF m, n
<1>4. ASSUME NEW ports, st = "direct" => RunsOn(n, Flip(m), ports), st = "indirect" => ports = <<>>
      PROVE  LET k == [m |-> Flip(m), ports |-> ports] IN IsJob(st, n, k) /\ k.m = Flip(m) /\ k.ports = ports
  <2> DEFINE k == [m |-> Flip(m), ports |-> ports]
  <2>1. k.m = Flip(m) /\ k.ports = ports
    OBVIOUS
  <2>2. st = "direct" => DirectJob(n, k)
    BY <1>3, <1>4 DEF DirectJob
  <2>3. st = "indirect" => IndirectJob(n, k)
    BY <1>3, <1>4 DEF IndirectJob
  <2> HIDE DEF k
  <2>4. IsJob(st, n, k)
    BY <2>2, <2>3 DEF IsJob
  <2> QED
    BY <2>1, <2>4 DEF k
<1>5. d \notin w.lost
  <2> SUFFICES ASSUME d \in w.lost PROVE FALSE
    OBVIOUS
  <2> DEFINE k == [m |-> Flip(m), ports |-> <<>>]
  <2>1. st = "direct" => RunsOn(n, Flip(m), <<>>)
    BY <1>3 DEF RunsOn
  <2>2. IsJob(st, n, k) /\ k.m = Flip(m)
    BY <1>4, <2>1
  <2> HIDE DEF k
  <2> QED
    BY <1>3, <2>2 DEF NoneWrong, Wrong, WorkStages, n, m
<1>6. \E ports : /\ st = "direct" => RunsOn(n, Flip(m), ports)
                 /\ st = "indirect" => ports = <<>>
                 /\ Opposite(OnMySide(m, job.ports), OnMySide(Flip(m), ports))
  <2>1. CASE st = "indirect"
    <3>1. Locals(<<>>) = <<>> /\ Remotes(<<>>) = <<>>
      BY DEF Locals, Remotes
    <3> QED
      BY <1>2, <1>3, <2>1, <3>1, SidesBack
  <2>2. CASE st = "direct" /\ m.rule.separate
    <3>1. PICK e \in ToSet(Connections(d, n)) : job.ports = <<e>>
      BY <1>1, <1>2, <2>2 DEF RunsOn, n
    <3> DEFINE f == <<e[2], e[1]>>
               back == <<f>>
    <3>2. f \in ToSet(Connections(n, d)) /\ f[1] = e[2] /\ f[2] = e[1]
      BY <1>3, <3>1, CablesBack
    <3> HIDE DEF f
    <3>3. RunsOn(n, Flip(m), back)
      BY <1>3, <1>5, <2>2, <3>2 DEF RunsOn
    <3>4. Locals(back) = Remotes(job.ports) /\ Remotes(back) = Locals(job.ports)
      BY <3>1, <3>2, OneOfPorts
    <3> HIDE DEF back
    <3>5. Opposite(OnMySide(m, job.ports), OnMySide(Flip(m), back))
      BY <1>3, <3>4, SidesBack
    <3> QED
      BY <2>2, <3>3, <3>5
  <2>3. CASE st = "direct" /\ ~m.rule.separate
    <3> DEFINE back == Connections(n, d)
    <3>1. RunsOn(n, Flip(m), back)
      BY <1>3, <1>5, <2>3 DEF RunsOn
    <3>2. ~m.rule.handler.byPort
      BY <1>3, <2>3 DEF RuleOf, RulesFor, Agreed
    <3> HIDE DEF back
    <3>3. Opposite(OnMySide(m, job.ports), OnMySide(Flip(m), back))
      BY <1>3, <3>2, SidesBack
    <3> QED
      BY <2>3, <3>1, <3>3
  <2> QED
    BY <2>1, <2>2, <2>3
<1> QED
  BY <1>3, <1>4, <1>6 DEF m, n

-----------------------------------------------------------------------------
(* What the job of the other end fills: the same, swapped.                 *)
FieldsOfPeers ==
    \A g \in ToSet(Registries(registry)) : \A rule \in ToSet(g.direct) :
        DOMAIN rule.handler.left = PeerFields /\ DOMAIN rule.handler.right = PeerFields

LEMMA FieldsAre == world \in DOMAIN Worlds /\ registry \in w.registries => FieldsOfPeers
BY WorldsAssumption DEF w, FieldsOfPeers

(* Both ends are told one vrf, and an AS number both or none.              *)
Even(p) == p.local.vrf = p.connected.vrf /\ (p.local.asnum = {} <=> p.connected.asnum = {})

LEMMA FieldsMerged ==
    /\ \A a, b : MergeDto(a, b).vrf = a.vrf \cup b.vrf /\ MergeDto(a, b).asnum = a.asnum \cup b.asnum
    /\ \A x, ports : DOMAIN x = PeerFields => ByPort(x, ports).vrf = x.vrf /\ ByPort(x, ports).asnum = x.asnum
<1>1. {"vrf", "asnum"} \subseteq PeerFields
  BY DEF PeerFields, SessionFields
<1>2. \A a, b : MergeDto(a, b)["vrf"] = a["vrf"] \cup b["vrf"] /\ MergeDto(a, b)["asnum"] = a["asnum"] \cup b["asnum"]
  BY <1>1 DEF MergeDto
<1>3. \A x, ports : DOMAIN x = PeerFields => ByPort(x, ports)["vrf"] = x["vrf"] /\ ByPort(x, ports)["asnum"] = x["asnum"]
  BY <1>1 DEF ByPort
<1> QED
  BY <1>2, <1>3

LEMMA EvenSides ==
    ASSUME Agreed, FieldsOfPeers, NEW st \in {"direct", "indirect"}, NEW d, NEW job, IsJob(st, d, job), RuleOf(st, job.m.rule)
    PROVE  Even(PairOf(st, job))
<1> DEFINE h     == job.m.rule.handler
           ports == IF job.m.direct_order THEN Locals(job.ports) ELSE Remotes(job.ports)
           s     == Sides(h, ports)
           o     == OnMySide(job.m, job.ports)
           p     == PairOf(st, job)
<1>1. PICK g \in ToSet(Registries(registry)) : job.m.rule \in ToSet(RulesFor(st, g))
  BY DEF RuleOf
<1>2. h \in Handlers1
  <2>1. job.m.rule \in RulesOf(registry)
    BY <1>1 DEF RulesOf, RulesFor
  <2> QED
    BY <2>1 DEF Handlers1
<1>3. h.left.vrf = {} /\ h.right.vrf = {} /\ (h.left.asnum \cup h.session.asnum # {} <=> h.right.asnum \cup h.session.asnum # {})
  BY <1>2 DEF Agreed, Numbered
<1>4. s.left.vrf = h.left.vrf /\ s.left.asnum = h.left.asnum /\ s.right.vrf = h.right.vrf /\ s.right.asnum = h.right.asnum
      /\ s.session = h.session
  <2>1. CASE h.byPort /\ ports # <<>>
    <3>1. st = "direct"
      <4> SUFFICES ASSUME st = "indirect" PROVE FALSE
        OBVIOUS
      <4>1. IndirectJob(d, job)
        BY DEF IsJob
      <4>2. job.ports = <<>>
        BY <4>1 DEF IndirectJob
      <4>3. Locals(<<>>) = <<>> /\ Remotes(<<>>) = <<>>
        BY DEF Locals, Remotes
      <4> QED
        BY <2>1, <4>2, <4>3
    <3>2. DOMAIN h.left = PeerFields /\ DOMAIN h.right = PeerFields
      BY <1>1, <3>1 DEF FieldsOfPeers, RulesFor
    <3>3. s = [left |-> ByPort(h.left, ports), right |-> ByPort(h.right, ports), session |-> h.session]
      BY <2>1 DEF Sides
    <3> HIDE DEF s, h, ports
    <3> QED
      BY <3>2, <3>3, FieldsMerged
  <2>2. CASE ~(h.byPort /\ ports # <<>>)
    <3>1. s = [left |-> h.left, right |-> h.right, session |-> h.session]
      BY <2>2 DEF Sides
    <3> HIDE DEF s
    <3> QED
      BY <3>1
  <2> QED
    BY <2>1, <2>2
<1>5. o = IF job.m.direct_order THEN [mine |-> s.left, theirs |-> s.right, session |-> s.session]
                                ELSE [mine |-> s.right, theirs |-> s.left, session |-> s.session]
  BY DEF OnMySide
<1>6. p.local = MergeDto(o.mine, o.session) /\ p.connected = MergeDto(o.theirs, o.session)
  BY DEF PairOf, MadePair, SidesOf
<1> HIDE DEF s, h
<1>7. /\ o.mine.vrf = {} /\ o.theirs.vrf = {}
      /\ o.mine.asnum \cup o.session.asnum # {} <=> o.theirs.asnum \cup o.session.asnum # {}
  <2>1. CASE job.m.direct_order
    <3>1. o.mine = s.left /\ o.theirs = s.right /\ o.session = s.session
      BY <1>5, <2>1
    <3> HIDE DEF o
    <3> QED
      BY <1>3, <1>4, <3>1
  <2>2. CASE ~job.m.direct_order
    <3>1. o.mine = s.right /\ o.theirs = s.left /\ o.session = s.session
      BY <1>5, <2>2
    <3> HIDE DEF o
    <3> QED
      BY <1>3, <1>4, <3>1
  <2> QED
    BY <2>1, <2>2
<1> HIDE DEF o, p
<1>8. /\ p.local.vrf = o.mine.vrf \cup o.session.vrf /\ p.connected.vrf = o.theirs.vrf \cup o.session.vrf
      /\ p.local.asnum = o.mine.asnum \cup o.session.asnum /\ p.connected.asnum = o.theirs.asnum \cup o.session.asnum
  BY <1>6, FieldsMerged
<1>9. Even(p)
  BY <1>7, <1>8 DEF Even
<1> QED
  BY <1>9 DEF p

Swapped(p, q) == q.local = p.connected /\ q.connected = p.local

LEMMA ActiveBack ==
    ASSUME Cabled, PortsKnown, Agreed, FieldsOfPeers, NEW st \in {"direct", "indirect"}, NEW d \in DOMAIN w.ports,
           NEW job, Active(st, d, job), NoneWrong(d), NoneWrong(PairOf(st, job).device)
    PROVE  /\ Even(PairOf(st, job))
           /\ \E k : /\ Active(st, PairOf(st, job).device, k) /\ PairOf(st, k).device = d
                     /\ Swapped(PairOf(st, job), PairOf(st, k))
<1> DEFINE of(b) == OnMySide(b.m, b.ports)
<1>1. \A b : /\ PairOf(st, b).local = MergeDto(of(b).mine, of(b).session)
             /\ PairOf(st, b).connected = MergeDto(of(b).theirs, of(b).session)
             /\ PairOf(st, b).device = Other(b.m)
             /\ Idle(st, b) <=> Nothing(of(b))
  BY DEF PairOf, MadePair, SidesOf, Idle
<1> HIDE DEF of
<1>2. IsJob(st, d, job) /\ ~Idle(st, job) /\ NoneWrong(Other(job.m))
  BY <1>1 DEF Active
<1>3. RuleOf(st, job.m.rule)
  BY <1>2, JobsBack
<1>4. PICK k : IsJob(st, Other(job.m), k) /\ Other(k.m) = d /\ Opposite(of(job), of(k))
  BY <1>2, JobsBack DEF of
<1>5. Nothing(of(k)) <=> Nothing(of(job))
  BY <1>4 DEF Opposite, Nothing
<1>6. Active(st, PairOf(st, job).device, k)
  BY <1>1, <1>2, <1>4, <1>5 DEF Active
<1>7. Swapped(PairOf(st, job), PairOf(st, k))
  BY <1>1, <1>4 DEF Swapped, Opposite
<1>8. Even(PairOf(st, job))
  BY <1>2, <1>3, EvenSides
<1> QED
  BY <1>1, <1>4, <1>6, <1>7, <1>8

-----------------------------------------------------------------------------
(* A session of one end has one at the other.                              *)
LEMMA NoneWrongThere ==
    ASSUME NEW d, NEW ms, Complete(d, ms)
    PROVE  NoneWrong(d)
BY DEF Complete, StageInv, NoneWrong

LEMMA ClashlessFields ==
    ASSUME NEW p, ~Clashes(p)
    PROVE  /\ ~Many(p.local.addr) /\ ~Many(p.connected.addr) /\ ~Many(p.local.asnum) /\ ~Many(p.connected.asnum)
           /\ ~Many(p.local.vrf) /\ ~Many(p.connected.vrf)
<1>1. ~Clash(p.local) /\ ~Clash(p.connected)
  BY DEF Clashes
<1>2. {"vrf", "addr", "asnum"} \subseteq PeerFields \ {"families", "family_options"}
  BY DEF PeerFields, SessionFields
<1>3. \A x : ~Clash(x) => ~Many(x["vrf"]) /\ ~Many(x["addr"]) /\ ~Many(x["asnum"])
  BY <1>2 DEF Clash
<1> QED
  BY <1>1, <1>3

LEMMA OnlyThat ==
    ASSUME NEW S, NEW T, T \subseteq S, T # {}, ~Many(S)
    PROVE  S = T
BY DEF Many

(* A merged pair has what each of its jobs filled.                         *)
Has(p, q) ==
    /\ p.device = q.device
    /\ q.local.addr # {} => p.local.addr = q.local.addr
    /\ q.connected.addr # {} => p.connected.addr = q.connected.addr
    /\ q.local.asnum # {} => p.local.asnum = q.local.asnum
    /\ q.connected.asnum # {} => p.connected.asnum = q.connected.asnum
    /\ One(p.connected.vrf, "") = One(q.connected.vrf, "")

LEMMA MergedHas ==
    ASSUME NEW st, st # "virtual", NEW d, NEW p, ~Clashes(p), NEW a, NEW G, Gathers(st, d, {}, a, G), IsMerge(st, p, G), NEW b \in G
    PROVE  Has(p, PairOf(st, b))
<1> DEFINE q == PairOf(st, b)
<1>1. {"vrf", "addr", "asnum"} \subseteq PeerFields
  BY DEF PeerFields, SessionFields
<1>2. \A f \in PeerFields : p.local[f] = Local(st, G, f) /\ p.connected[f] = There(st, G, f)
  BY MergeFields
<1>3. \A f \in PeerFields : q.local[f] \subseteq p.local[f] /\ q.connected[f] \subseteq p.connected[f]
  BY <1>2 DEF Local, There
<1> HIDE DEF q
<1>4. /\ q.local["addr"] \subseteq p.local["addr"] /\ q.connected["addr"] \subseteq p.connected["addr"]
      /\ q.local["asnum"] \subseteq p.local["asnum"] /\ q.connected["asnum"] \subseteq p.connected["asnum"]
      /\ q.connected["vrf"] \subseteq p.connected["vrf"] /\ p.connected["vrf"] = There(st, G, "vrf")
  BY <1>1, <1>2, <1>3
<1>5. p.device = q.device
  BY DEF IsMerge, q
<1>6. One(p.connected.vrf, "") = One(q.connected.vrf, "")
  <2>1. CASE q.connected.vrf # {}
    <3>1. p.connected.vrf = q.connected.vrf
      BY <1>4, <2>1, ClashlessFields, OnlyThat
    <3> QED
      BY <3>1
  <2>2. CASE q.connected.vrf = {}
    <3>1. ASSUME NEW c \in G PROVE One(PairOf(st, c).connected.vrf, "") = One(q.connected.vrf, "")
      <4>1. KeyOf(PairOf(st, a)) = KeyOf(PairOf(st, c)) /\ KeyOf(PairOf(st, a)) = KeyOf(PairOf(st, b))
        BY DEF Gathers, Kin
      <4>2. KeyOf(PairOf(st, c)) = KeyOf(PairOf(st, b))
        BY <4>1
      <4>3. \A x : KeyOf(x).vrf = One(x.connected.vrf, "")
        BY DEF KeyOf, PeerKey
      <4> QED
        BY <4>2, <4>3 DEF q
    <3>2. One(q.connected.vrf, "") = ""
      BY <2>2 DEF One
    <3>3. ASSUME NEW v \in p.connected.vrf PROVE v = ""
      <4>1. PICK c \in G : v \in PairOf(st, c).connected["vrf"]
        BY <1>4 DEF There
      <4>2. PairOf(st, c).connected["vrf"] \subseteq p.connected["vrf"]
        BY <1>4 DEF There
      <4>3. ~Many(p.connected.vrf)
        BY ClashlessFields
      <4>4. PairOf(st, c).connected.vrf = {v}
        BY <4>1, <4>2, <4>3 DEF Many
      <4>5. One({v}, "") = v
        BY DEF One
      <4> QED
        BY <3>1, <3>2, <4>4, <4>5
    <3>4. One(p.connected.vrf, "") = ""
      BY <3>3 DEF One
    <3> QED
      BY <3>2, <3>4
  <2> QED
    BY <2>1, <2>2
<1>7. /\ ~Many(p.local.addr) /\ ~Many(p.connected.addr) /\ ~Many(p.local.asnum) /\ ~Many(p.connected.asnum)
  BY ClashlessFields
<1>8. /\ q.local.addr # {} => p.local.addr = q.local.addr
      /\ q.connected.addr # {} => p.connected.addr = q.connected.addr
      /\ q.local.asnum # {} => p.local.asnum = q.local.asnum
      /\ q.connected.asnum # {} => p.connected.asnum = q.connected.asnum
  BY <1>4, <1>7, OnlyThat
<1> QED
  BY <1>5, <1>6, <1>8 DEF q, Has

(* The two ends of one session.                                            *)
Meet(m, n) == LET p == m.pair  q == n.pair IN
    /\ p.local.addr = q.connected.addr /\ p.connected.addr = q.local.addr
    /\ p.local.asnum = q.connected.asnum /\ p.connected.asnum = q.local.asnum
    /\ One(p.connected.vrf, "") = One(q.connected.vrf, "")
EndsAt(ms, d) == {m \in ms : m.stage # "virtual" /\ m.pair.device = d}

LEMMA MirrorOne ==
    ASSUME Cabled, PortsKnown, Agreed, FieldsOfPeers, NEW d \in DOMAIN w.ports, NEW e \in DOMAIN w.ports,
           NEW ms, Complete(d, ms), NEW ns, Complete(e, ns), NEW m \in EndsAt(ms, e)
    PROVE  \E n \in EndsAt(ns, d) : Meet(m, n)
<1> DEFINE st == m.stage
<1>1. /\ m \in ms /\ st \in {"direct", "indirect"} /\ st \in WorkStages /\ st # "virtual" /\ m.pair.device = e
      /\ ~ToBgpPeerRaises(m.pair.local, m.pair.connected)
  BY DEF EndsAt, Complete, AllMadeAs, MadeAs, WorkStages
<1>2. StageInv(st, d, {}, {}, ms) /\ StageInv(st, e, {}, {}, ns)
  BY <1>1 DEF Complete
<1>3. Sound(st, d, {}, m.pair)
  BY <1>1, <1>2 DEF StageInv
<1>4. PICK b : From(st, d, {}, m.pair, b)
  BY <1>3 DEF Sound
<1> HIDE DEF st
<1>5. PICK G : Gathers(st, d, {}, b, G) /\ IsMerge(st, m.pair, G)
  BY <1>4 DEF From
<1>6. ~Clashes(m.pair)
  BY <1>3 DEF Sound
<1>7. PICK a \in G : PairOf(st, a).connected.asnum # {}
  <2>1. m.pair.connected.asnum # {}
    BY <1>1 DEF ToBgpPeerRaises
  <2>2. "asnum" \in PeerFields
    BY DEF PeerFields, SessionFields
  <2>3. m.pair.connected["asnum"] = There(st, G, "asnum")
    BY <1>5, <2>2, MergeFields
  <2>4. \E a \in G : PairOf(st, a).connected["asnum"] # {}
    BY <2>1, <2>3 DEF There
  <2> QED
    BY <2>4
<1> DEFINE p == PairOf(st, a)
<1>8. Active(st, d, a) /\ p.device = e /\ IsJob(st, d, a) /\ ~Idle(st, a)
  <2>1. Active(st, d, a)
    BY <1>5 DEF Gathers
  <2>2. p.device = e
    BY <1>1, <1>5 DEF IsMerge
  <2> QED
    BY <2>1, <2>2 DEF Active
<1>9. NoneWrong(d) /\ NoneWrong(e)
  BY NoneWrongThere
<1>10. p.local.addr # {} /\ p.connected.addr # {}
  <2>1. ~Wrong(st, a)
    BY <1>1, <1>8, <1>9 DEF NoneWrong
  <2> QED
    BY <1>1, <1>8, <2>1 DEF Wrong, AddrsRaise
<1>11. Even(p) /\ \E k : Active(st, e, k) /\ PairOf(st, k).device = d /\ Swapped(p, PairOf(st, k))
  <2>1. NoneWrong(PairOf(st, a).device)
    BY <1>8, <1>9
  <2> QED
    BY <1>1, <1>8, <1>9, <2>1, ActiveBack
<1>12. PICK k : Active(st, e, k) /\ PairOf(st, k).device = d /\ Swapped(p, PairOf(st, k))
  BY <1>11
<1> DEFINE q == PairOf(st, k)
<1>13. PICK n \in ns : n.stage = st /\ From(st, e, {}, n.pair, k)
  <2>1. ~InPairs(st, e, {}, {}, k)
    BY DEF InPairs
  <2>2. InMade(st, e, {}, ns, k)
    BY <1>2, <1>12, <2>1 DEF StageInv
  <2> QED
    BY <2>2 DEF InMade
<1>14. PICK H : Gathers(st, e, {}, k, H) /\ IsMerge(st, n.pair, H)
  BY <1>13 DEF From
<1>15. k \in H
  BY <1>14 DEF Gathers
<1>16. ~Clashes(n.pair)
  BY <1>2, <1>13 DEF StageInv, Sound
<1>17. Has(m.pair, p)
  BY <1>1, <1>5, <1>6, <1>7, MergedHas
<1>18. Has(n.pair, q)
  BY <1>1, <1>14, <1>15, <1>16, MergedHas
<1> HIDE DEF p, q
<1>19. q.local = p.connected /\ q.connected = p.local /\ q.device = d
  BY <1>12 DEF Swapped, p, q
<1>20. p.local.vrf = p.connected.vrf /\ p.local.asnum # {} /\ p.connected.asnum # {}
  <2>1. p.connected.asnum # {}
    BY <1>7 DEF p
  <2> QED
    BY <1>11, <2>1 DEF Even
<1>21. Meet(m, n)
  BY <1>10, <1>17, <1>18, <1>19, <1>20 DEF Meet, Has
<1>22. n \in EndsAt(ns, d)
  BY <1>1, <1>13, <1>18, <1>19 DEF EndsAt, Has
<1> QED
  BY <1>21, <1>22

-----------------------------------------------------------------------------
(* What is told of the two ends.                                           *)
LEMMA MeetMirrors ==
    ASSUME NEW m, NEW n, Meet(m, n)
    PROVE  Unfamilied(SessionOf(m)) = Unfamilied(Mirrored(SessionOf(n))) /\ Meet(n, m)
<1> DEFINE p == m.pair
           q == n.pair
           of(x) == {Asn(y) : y \in x}
<1>1. /\ p.local.addr = q.connected.addr /\ p.connected.addr = q.local.addr
      /\ p.local.asnum = q.connected.asnum /\ p.connected.asnum = q.local.asnum
      /\ One(p.connected.vrf, "") = One(q.connected.vrf, "")
  BY DEF Meet
<1>2. ASSUME NEW a, NEW b, NEW x, NEW y, NEW v, NEW f, NEW s,
             s = [addr |-> a, peer |-> b, as |-> x, peer_as |-> y, vrf |-> v, families |-> f]
      PROVE  Unfamilied(s) = [addr |-> a, peer |-> b, as |-> x, peer_as |-> y, vrf |-> v, families |-> {}]
  BY <1>2 DEF Unfamilied
<1>3. ASSUME NEW a, NEW b, NEW x, NEW y, NEW v, NEW f, NEW s,
             s = [addr |-> a, peer |-> b, as |-> x, peer_as |-> y, vrf |-> v, families |-> f]
      PROVE  Mirrored(s) = [addr |-> b, peer |-> a, as |-> y, peer_as |-> x, vrf |-> v, families |-> f]
  <2>1. Mirrored(s) = [[[[s EXCEPT !.addr = b] EXCEPT !.peer = a] EXCEPT !.as = y] EXCEPT !.peer_as = x]
    BY <1>3 DEF Mirrored
  <2> QED
    BY <1>3, <2>1
<1>6. \A x : SessionOf(x) =
          [addr |-> One(x.pair.local.addr, Unnumbered).ip, peer |-> One(x.pair.connected.addr, Unnumbered).ip,
           as |-> of(x.pair.local.asnum), peer_as |-> of(x.pair.connected.asnum),
           vrf |-> One(x.pair.connected.vrf, ""), families |-> x.pair.connected.families]
  BY DEF SessionOf
<1> HIDE DEF of
<1>4. Unfamilied(SessionOf(m)) =
          [addr |-> One(p.local.addr, Unnumbered).ip, peer |-> One(p.connected.addr, Unnumbered).ip,
           as |-> of(p.local.asnum), peer_as |-> of(p.connected.asnum), vrf |-> One(p.connected.vrf, ""), families |-> {}]
  <2> DEFINE s == SessionOf(m)
             a == One(p.local.addr, Unnumbered).ip
             b == One(p.connected.addr, Unnumbered).ip
             x == of(p.local.asnum)
             y == of(p.connected.asnum)
             v == One(p.connected.vrf, "")
             f == p.connected.families
  <2>1. s = [addr |-> a, peer |-> b, as |-> x, peer_as |-> y, vrf |-> v, families |-> f]
    BY <1>6
  <2> HIDE DEF s, a, b, x, y, v, f
  <2>2. Unfamilied(s) = [addr |-> a, peer |-> b, as |-> x, peer_as |-> y, vrf |-> v, families |-> {}]
    BY <1>2, <2>1
  <2> QED
    BY <2>2 DEF s, a, b, x, y, v
<1>5. Unfamilied(Mirrored(SessionOf(n))) =
          [addr |-> One(q.connected.addr, Unnumbered).ip, peer |-> One(q.local.addr, Unnumbered).ip,
           as |-> of(q.connected.asnum), peer_as |-> of(q.local.asnum), vrf |-> One(q.connected.vrf, ""), families |-> {}]
  <2> DEFINE s == SessionOf(n)
             a == One(q.local.addr, Unnumbered).ip
             b == One(q.connected.addr, Unnumbered).ip
             x == of(q.local.asnum)
             y == of(q.connected.asnum)
             v == One(q.connected.vrf, "")
             f == q.connected.families
             r == Mirrored(s)
  <2>1. s = [addr |-> a, peer |-> b, as |-> x, peer_as |-> y, vrf |-> v, families |-> f]
    BY <1>6
  <2> HIDE DEF s, a, b, x, y, v, f
  <2>2. r = [addr |-> b, peer |-> a, as |-> y, peer_as |-> x, vrf |-> v, families |-> f]
    BY <1>3, <2>1
  <2> HIDE DEF r
  <2>3. Unfamilied(r) = [addr |-> b, peer |-> a, as |-> y, peer_as |-> x, vrf |-> v, families |-> {}]
    BY <1>2, <2>2
  <2> QED
    BY <2>3 DEF r, s, a, b, x, y, v
<1> QED
  BY <1>1, <1>4, <1>5 DEF Meet

LEMMA WorkMirrors == StandInv /\ WorkInv => Mirrors
<1> SUFFICES ASSUME StandInv, WorkInv, NEW t \in DOMAIN results, NEW u \in DOMAIN results,
                    Fine(t), Fine(u), Cabled, Agreed, PlanOf(t) # PlanOf(u)
             PROVE  {Unfamilied(s) : s \in SessionsWith(t, PlanOf(u))}
                        = {Unfamilied(Mirrored(s)) : s \in SessionsWith(u, PlanOf(t))}
  BY DEF Mirrors
<1> DEFINE d  == PlanOf(t)
           e  == PlanOf(u)
           ms == results[t].made
           ns == results[u].made
<1>1. PortsKnown /\ FieldsOfPeers /\ Listed(w.plan) /\ \A i \in DOMAIN w.plan : w.plan[i].device \in DOMAIN w.ports
  BY WorldIs, FieldsAre DEF StandInv, PortsKnown
<1>2. DOMAIN results \subseteq DOMAIN w.plan
  <2>1. DOMAIN results = 1 .. Len(results) /\ DOMAIN w.plan = 1 .. Len(w.plan) /\ Len(w.plan) \in Nat
    BY <1>1, ListIs DEF StandInv
  <2> QED
    BY <2>1 DEF StandInv
<1>3. d \in DOMAIN w.ports /\ e \in DOMAIN w.ports
  BY <1>1, <1>2 DEF PlanOf
<1>4. Complete(d, ms) /\ Complete(e, ns)
  BY DEF WorkInv, Fine
<1>5. /\ SessionsWith(t, e) = {SessionOf(m) : m \in EndsAt(ms, e)}
      /\ SessionsWith(u, d) = {SessionOf(n) : n \in EndsAt(ns, d)}
  BY DEF SessionsWith, EndsAt
<1> HIDE DEF d, e, ms, ns
<1>6. ASSUME NEW m \in EndsAt(ms, e)
      PROVE  \E n \in EndsAt(ns, d) : Unfamilied(SessionOf(m)) = Unfamilied(Mirrored(SessionOf(n)))
  <2>1. PICK n \in EndsAt(ns, d) : Meet(m, n)
    BY <1>1, <1>3, <1>4, MirrorOne
  <2> QED
    BY <2>1, MeetMirrors
<1>7. ASSUME NEW n \in EndsAt(ns, d)
      PROVE  \E m \in EndsAt(ms, e) : Unfamilied(SessionOf(m)) = Unfamilied(Mirrored(SessionOf(n)))
  <2>1. PICK m \in EndsAt(ms, e) : Meet(n, m)
    BY <1>1, <1>3, <1>4, MirrorOne
  <2> QED
    BY <2>1, MeetMirrors
<1>8. {Unfamilied(s) : s \in SessionsWith(t, e)} = {Unfamilied(SessionOf(m)) : m \in EndsAt(ms, e)}
  BY <1>5
<1>9. {Unfamilied(Mirrored(s)) : s \in SessionsWith(u, d)} = {Unfamilied(Mirrored(SessionOf(n))) : n \in EndsAt(ns, d)}
  BY <1>5
<1>10. {Unfamilied(s) : s \in SessionsWith(t, e)} = {Unfamilied(Mirrored(s)) : s \in SessionsWith(u, d)}
  BY <1>6, <1>7, <1>8, <1>9
<1> QED
  BY <1>10 DEF d, e

(* One session of two devices is one session, the same for both: what      *)
(* MeshExecutor gives two devices, each executed by itself, mirrors.       *)
THEOREM SessionsDoMirror == Spec => []SessionsMirror
<1>1. StandInv /\ WorkInv /\ NoTwins => SessionsMirror
  BY WorkMirrors DEF SessionsMirror
<1> QED
  BY <1>1, StandInvHolds, WorkInvHolds, NoTwinsAreMade, PTL

-----------------------------------------------------------------------------
(***************************************************************************)
(* Executed again.  A device an execution was fine for has all that the    *)
(* next one asks of it, so that one raises nowhere and leaves all but the  *)
(* vrfs as they are.                                                       *)
(***************************************************************************)
PeersOf(ms)    == {ToBgpPeer(m.pair.local, m.pair.connected, m.pair.device, m.interface) : m \in ms}
SetFor(d)      == UNION {r.globals.settings : r \in ToSet(LookupGlobal(registry, Names, d))}
SettingsFor(d) == {x \in SetFor(d) : Converted(x)}
SetOnce(d)     == ~ \E x, y \in SetFor(d) : x.path = y.path /\ x # y
NoVrf          == ""
Blank(i)       == [i EXCEPT !.vrf = NoVrf]
Rest(ifs)      == [n \in DOMAIN ifs |-> Blank(ifs[n])]
AnInterface(i) == i = [lag |-> i.lag, addrs |-> i.addrs, vrf |-> i.vrf, links |-> i.links]
Shaped(ifs)    == \A n \in DOMAIN ifs : AnInterface(ifs[n])
Lagged(ms, ifs) == \A m \in ms : HasLag(m) => LagOf(m) \in DOMAIN ifs

Told(r, d) ==
    /\ r.peers = PeersOf(r.made) /\ Lagged(r.made, r.device)
    /\ SetOnce(d) /\ r.globals.settings = SettingsFor(d)
Seen(d) == \E t \in DOMAIN results : Fine(t) /\ PlanOf(t) = d

AgainInv ==
    /\ \A d \in DOMAIN w.ports : Shaped(interfaces[d])
    /\ Listed(peers) /\ ToSet(peers) = PeersOf(ToSet(made))
    /\ Running /\ stage # "globals" => SetOnce(me) /\ globals.settings = SettingsFor(me)
    /\ \A t \in DOMAIN results : ~results[t].raises =>
           Told(results[t], PlanOf(t)) /\ Rest(results[t].device) = Rest(interfaces[PlanOf(t)])
    /\ \A t, u \in DOMAIN results :
           t < u /\ ~results[t].raises /\ PlanOf(t) = PlanOf(u) => ~results[u].raises

(* What a step leaves of the interfaces.                                   *)
KeptThere(ifs) == \A d \in DOMAIN w.ports : Shaped(ifs[d]) /\ (Seen(d) => Rest(ifs[d]) = Rest(interfaces[d]))

LEMMA PlansThere ==
    ASSUME StandInv
    PROVE  /\ DOMAIN results = 1 .. turn - 1 /\ turn \in Nat /\ Len(w.plan) \in Nat
           /\ \A t \in DOMAIN results : t \in Nat /\ PlanOf(t) \in DOMAIN w.ports
<1>1. Listed(w.plan) /\ \A i \in DOMAIN w.plan : w.plan[i].device \in DOMAIN w.ports
  BY WorldIs DEF StandInv
<1>2. DOMAIN w.plan = 1 .. Len(w.plan) /\ Len(w.plan) \in Nat
  BY <1>1, ListIs
<1>3. turn \in 1 .. Len(w.plan) + 1 /\ DOMAIN results = 1 .. turn - 1
  BY ListIs DEF StandInv
<1>4. DOMAIN results \subseteq DOMAIN w.plan /\ turn \in Nat
  BY <1>2, <1>3
<1> QED
  BY <1>1, <1>2, <1>3, <1>4 DEF PlanOf

LEMMA SameTold ==
    ASSUME registry' = registry
    PROVE  /\ \A r, d : Told(r, d)' <=> Told(r, d)
           /\ \A d : (SetOnce(d)' <=> SetOnce(d)) /\ SettingsFor(d)' = SettingsFor(d)
<1>1. \A d : SetFor(d)' = SetFor(d)
  BY DEF SetFor
<1>2. \A d : (SetOnce(d)' <=> SetOnce(d)) /\ SettingsFor(d)' = SettingsFor(d)
  BY <1>1 DEF SetOnce, SettingsFor
<1> QED
  BY <1>2 DEF Told

LEMMA AgainWithin ==
    ASSUME StandInv, AgainInv, UNCHANGED <<world, registry, turn, results>>, KeptThere(interfaces'),
           Listed(peers'), ToSet(peers') = PeersOf(ToSet(made')),
           Running /\ stage' # "globals" => SetOnce(me) /\ globals'.settings = SettingsFor(me)
    PROVE  AgainInv'
<1>1. w' = w /\ registry' = registry /\ \A t : PlanOf(t)' = PlanOf(t)
  BY SameWork
<1>2. me' = me /\ (Running' <=> Running)
  BY <1>1, SameMoment
<1>3. /\ \A r, d : Told(r, d)' <=> Told(r, d)
      /\ \A d : (SetOnce(d)' <=> SetOnce(d)) /\ SettingsFor(d)' = SettingsFor(d)
  BY <1>1, SameTold
<1>4. \A d \in DOMAIN w.ports : Shaped(interfaces'[d])
  BY DEF KeptThere
<1>5. ASSUME NEW t \in DOMAIN results, ~results[t].raises
      PROVE  Told(results[t], PlanOf(t)) /\ Rest(results[t].device) = Rest(interfaces'[PlanOf(t)])
  <2>1. PlanOf(t) \in DOMAIN w.ports /\ Seen(PlanOf(t))
    BY <1>5, PlansThere DEF Seen, Fine
  <2>2. Rest(interfaces'[PlanOf(t)]) = Rest(interfaces[PlanOf(t)])
    BY <2>1 DEF KeptThere
  <2> QED
    BY <1>5, <2>2 DEF AgainInv
<1>6. \A t, u \in DOMAIN results :
          t < u /\ ~results[t].raises /\ PlanOf(t) = PlanOf(u) => ~results[u].raises
  BY DEF AgainInv
<1>7. (\A d \in DOMAIN w.ports : Shaped(interfaces[d]))'
  BY <1>1, <1>4 DEF Shaped, AnInterface
<1>8. \A ifs : Rest(ifs)' = Rest(ifs')
  BY DEF Rest, Blank
<1>9. \A t \in DOMAIN results' : ~results'[t].raises =>
          Told(results[t], PlanOf(t))' /\ Rest(results'[t].device) = Rest(interfaces'[PlanOf(t)'])
  BY <1>1, <1>3, <1>5
<1>10. (ToSet(peers) = PeersOf(ToSet(made)))'
  OBVIOUS
<1>11. (Running /\ stage # "globals" => SetOnce(me) /\ globals.settings = SettingsFor(me))'
  BY <1>2, <1>3
<1>12. \A t, u \in DOMAIN results' :
          t < u /\ ~results'[t].raises /\ PlanOf(t)' = PlanOf(u)' => ~results'[u].raises
  BY <1>1, <1>6
<1> QED
  BY <1>7, <1>9, <1>10, <1>11, <1>12 DEF AgainInv

LEMMA AgainEnds ==
    ASSUME StandInv, AgainInv, Running, UnchangedInputs, Started, NEW r, results' = Append(results, r),
           KeptThere(interfaces'), r.raises => ~Seen(me),
           ~r.raises => Told(r, me) /\ Rest(r.device) = Rest(interfaces'[me])
    PROVE  AgainInv'
<1>1. w' = w /\ registry' = registry /\ \A t : PlanOf(t)' = PlanOf(t)
  BY SameWork DEF UnchangedInputs
<1>2. Listed(results) /\ Len(results) = turn - 1 /\ turn \in Nat /\ PlanOf(turn) = me /\ me \in DOMAIN w.ports
  BY AtWork DEF StandInv, PlanOf, me
<1>3. results \in Seq(ToSet(results) \cup {r})
  BY <1>2, SeqMonotonic DEF Listed
<1>4. /\ DOMAIN results' = 1 .. turn /\ results'[turn] = r
      /\ \A t \in 1 .. turn - 1 : results'[t] = results[t] /\ t \in DOMAIN results
  <2>1. /\ Append(results, r) \in Seq(ToSet(results) \cup {r}) /\ Len(Append(results, r)) = Len(results) + 1
        /\ Append(results, r)[Len(results) + 1] = r /\ \A t \in 1 .. Len(results) : Append(results, r)[t] = results[t]
    BY <1>3, AppendProperties
  <2>2. DOMAIN Append(results, r) = 1 .. Len(Append(results, r)) /\ DOMAIN results = 1 .. Len(results)
    BY <1>2, <2>1, SeqElements, ListIs
  <2> QED
    BY <1>2, <2>1, <2>2
<1>5. ASSUME NEW t \in DOMAIN results', ~results'[t].raises
      PROVE  Told(results'[t], PlanOf(t)) /\ Rest(results'[t].device) = Rest(interfaces'[PlanOf(t)])
  <2>1. CASE t = turn
    BY <1>2, <1>4, <1>5, <2>1
  <2>2. CASE t # turn
    <3>1. t \in 1 .. turn - 1
      BY <1>2, <1>4, <2>2
    <3>2. results'[t] = results[t] /\ t \in DOMAIN results
      BY <1>4, <3>1
    <3>3. PlanOf(t) \in DOMAIN w.ports /\ Seen(PlanOf(t))
      BY <1>5, <3>2, PlansThere DEF Seen, Fine
    <3>4. Rest(interfaces'[PlanOf(t)]) = Rest(interfaces[PlanOf(t)])
      BY <3>3 DEF KeptThere
    <3> QED
      BY <1>5, <3>2, <3>4 DEF AgainInv
  <2> QED
    BY <2>1, <2>2
<1>6. ASSUME NEW t \in DOMAIN results', NEW u \in DOMAIN results', t < u, ~results'[t].raises, PlanOf(t) = PlanOf(u)
      PROVE  ~results'[u].raises
  <2>1. t \in 1 .. turn - 1 /\ u \in 1 .. turn
    BY <1>2, <1>4, <1>6
  <2>2. results'[t] = results[t] /\ t \in DOMAIN results
    BY <1>4, <2>1
  <2>3. CASE u = turn
    <3>1. Seen(me)
      BY <1>2, <1>6, <2>2, <2>3 DEF Seen, Fine
    <3> QED
      BY <1>4, <2>3, <3>1
  <2>4. CASE u # turn
    <3>1. u \in 1 .. turn - 1
      BY <1>2, <2>1, <2>4
    <3>2. results'[u] = results[u] /\ u \in DOMAIN results
      BY <1>4, <3>1
    <3> QED
      BY <1>6, <2>2, <3>2 DEF AgainInv
  <2> QED
    BY <2>3, <2>4
<1>7. /\ \A x, d : Told(x, d)' <=> Told(x, d)
  BY <1>1, SameTold
<1>8. (\A d \in DOMAIN w.ports : Shaped(interfaces[d]))'
  BY <1>1 DEF KeptThere, Shaped, AnInterface
<1>9. \A t \in DOMAIN results' : ~results'[t].raises =>
          Told(results[t], PlanOf(t))' /\ Rest(results'[t].device) = Rest(interfaces'[PlanOf(t)'])
  BY <1>1, <1>5, <1>7
<1>10. stage' = "globals" /\ peers' = <<>> /\ made' = <<>>
  BY DEF Started
<1>11. Listed(peers') /\ ToSet(peers') = PeersOf(ToSet(made'))
  BY <1>10, NoElements DEF PeersOf
<1>12. \A t, u \in DOMAIN results' :
          t < u /\ ~results'[t].raises /\ PlanOf(t)' = PlanOf(u)' => ~results'[u].raises
  BY <1>1, <1>6
<1> QED
  BY <1>8, <1>9, <1>10, <1>11, <1>12 DEF AgainInv

LEMMA KeptAsTheyAre == AgainInv => KeptThere(interfaces)
BY DEF AgainInv, KeptThere

LEMMA AgainRaises ==
    ASSUME StandInv, AgainInv, Running, UnchangedInputs, Raise, KeptThere(interfaces'), ~Seen(me)
    PROVE  AgainInv'
<1> DEFINE r == [raises |-> TRUE, peers |-> {}, globals |-> NoGlobals, made |-> {}, policies |-> <<>>,
                 device |-> interfaces'[me]]
<1>1. Started /\ results' = Append(results, r) /\ r.raises
  BY DEF Raise
<1> HIDE DEF r
<1> QED
  BY <1>1, AgainEnds

(* The options do not depend on the order of the rules.                    *)
LEMMA SettingsAre ==
    ASSUME IsRegistry(registry), NEW found, found = LookupGlobal(rules, Names, me),
           NEW merged, merged = MergeGlobals([i \in DOMAIN found |-> found[i].globals])
    PROVE  /\ GlobalsClash(merged) <=> ~SetOnce(me)
           /\ ToBgpGlobalOptions(merged).settings = SettingsFor(me)
<1>1. ToSet(found) = ToSet(LookupGlobal(registry, Names, me)) /\ Listed(found)
  BY RulesAlike, GlobalRules
<1>2. ToSet(found) = {found[i] : i \in DOMAIN found}
  BY <1>1, ListIs
<1> DEFINE all == [i \in DOMAIN found |-> found[i].globals]
<1>3. DOMAIN all = DOMAIN found /\ \A i \in DOMAIN found : all[i] = found[i].globals
  OBVIOUS
<1>4. merged.settings = UNION {all[i].settings : i \in DOMAIN all}
  BY DEF MergeGlobals
<1> HIDE DEF all
<1>5. UNION {all[i].settings : i \in DOMAIN all} = UNION {r.globals.settings : r \in ToSet(found)}
  BY <1>2, <1>3
<1>6. merged.settings = SetFor(me)
  BY <1>1, <1>4, <1>5 DEF SetFor
<1>7. ToBgpGlobalOptions(merged).settings = {x \in merged.settings : Converted(x)}
  BY DEF ToBgpGlobalOptions
<1>8. ToBgpGlobalOptions(merged).settings = SettingsFor(me)
  BY <1>6, <1>7 DEF SettingsFor
<1>9. GlobalsClash(merged) <=> ~SetOnce(me)
  <2>1. ASSUME GlobalsClash(merged) PROVE ~SetOnce(me)
    <3>1. PICK x \in merged.settings, y \in merged.settings : x.path = y.path /\ x # y
      BY <2>1 DEF GlobalsClash
    <3>2. x \in SetFor(me) /\ y \in SetFor(me)
      BY <1>6
    <3> QED
      BY <3>1, <3>2 DEF SetOnce
  <2>2. ASSUME ~SetOnce(me) PROVE GlobalsClash(merged)
    <3>1. PICK x \in SetFor(me), y \in SetFor(me) : x.path = y.path /\ x # y
      BY <2>2 DEF SetOnce
    <3>2. x \in merged.settings /\ y \in merged.settings
      BY <1>6
    <3> QED
      BY <3>1, <3>2 DEF GlobalsClash
  <2>3. GlobalsClash(merged) \in BOOLEAN /\ SetOnce(me) \in BOOLEAN
    BY DEF GlobalsClash, SetOnce
  <2> QED
    BY <2>1, <2>2, <2>3
<1> QED
  BY <1>8, <1>9

LEMMA GlobalsAgain == StandInv /\ WorkInv /\ AgainInv /\ Globals => AgainInv'
<1> SUFFICES ASSUME StandInv, WorkInv, AgainInv, Globals PROVE AgainInv'
  OBVIOUS
<1> DEFINE found  == LookupGlobal(rules, Names, me)
           merged == MergeGlobals([i \in DOMAIN found |-> found[i].globals])
<1>1. /\ Running /\ UnchangedInputs /\ UNCHANGED interfaces
      /\ \/ GlobalsClash(merged) /\ Raise
         \/ /\ ~GlobalsClash(merged) /\ globals' = ToBgpGlobalOptions(merged)
            /\ UNCHANGED <<turn, peers, made, results>>
  BY DEF Globals
<1>2. IsRegistry(registry)
  BY <1>1, AtWork
<1>3. /\ GlobalsClash(merged) <=> ~SetOnce(me)
      /\ ToBgpGlobalOptions(merged).settings = SettingsFor(me)
  BY <1>2, SettingsAre
<1> HIDE DEF merged
<1>4. KeptThere(interfaces') /\ (Seen(me) => SetOnce(me))
  <2>1. Seen(me) => SetOnce(me)
    BY DEF Seen, Fine, AgainInv, Told
  <2> QED
    BY <1>1, <2>1, KeptAsTheyAre
<1>5. CASE GlobalsClash(merged) /\ Raise
  BY <1>1, <1>3, <1>4, <1>5, AgainRaises
<1>6. CASE /\ ~GlobalsClash(merged) /\ globals' = ToBgpGlobalOptions(merged)
           /\ UNCHANGED <<turn, peers, made, results>>
  <2>1. Listed(peers') /\ ToSet(peers') = PeersOf(ToSet(made')) /\ UNCHANGED <<world, registry, turn, results>>
    BY <1>1, <1>6 DEF AgainInv, UnchangedInputs
  <2> QED
    BY <1>3, <1>4, <1>6, <2>1, AgainWithin
<1> QED
  BY <1>1, <1>5, <1>6

-----------------------------------------------------------------------------
(* What an execution was fine with is fine again.                          *)
LEMMA SeenComplete ==
    ASSUME WorkInv, Seen(me)
    PROVE  \E t \in DOMAIN results : ~results[t].raises /\ PlanOf(t) = me /\ Complete(me, results[t].made)
BY DEF WorkInv, Seen, Fine

LEMMA MergedFine ==
    ASSUME NEW st \in WorkStages, st # "virtual", NEW d, NEW js, NEW ps, NEW now, StageInv(st, d, js, ps, now),
           NEW ms, Complete(d, ms), NEW job, Active(st, d, job),
           NEW next, IsPut(next, ps, KeyOf(PairOf(st, job)), PairOf(st, job)), NEW y \in next
    PROVE  ~PairClash(y.pair)
<1> DEFINE pair == PairOf(st, job)
           key  == KeyOf(pair)
<1>1. StageInv(st, d, {}, {}, ms)
  BY DEF Complete
<1>2. pair.samePorts
  BY PairShape, MergeOfOne, MergeFields
<1>3. ~Clashes(pair)
  BY <1>1 DEF StageInv, Active, Wrong
<1>4. CASE y \in ps /\ y.key # key
  <2>1. ~Clashes(y.pair) /\ OfJob(st, d, js, y)
    BY <1>4 DEF StageInv
  <2>2. PICK b : From(st, d, js, y.pair, b)
    BY <2>1 DEF OfJob
  <2>3. PICK G : IsMerge(st, y.pair, G)
    BY <2>2 DEF From
  <2>4. y.pair.samePorts
    BY <2>3, MergeFields
  <2> QED
    BY <2>1, <2>4 DEF PairClash, Clashes
<1>5. CASE y = [key |-> key, pair |-> pair]
  <2>1. y.pair = pair
    BY <1>5
  <2> QED
    BY <1>2, <1>3, <2>1 DEF PairClash, Clashes
<1>6. CASE \E x \in ps : x.key = key /\ y = [key |-> key, pair |-> MergePairs(x.pair, pair)]
  <2>1. PICK x \in ps : x.key = key /\ y = [key |-> key, pair |-> MergePairs(x.pair, pair)]
    BY <1>6
  <2>2. y.pair = MergePairs(x.pair, pair)
    BY <2>1
  <2>3. OfJob(st, d, js, x)
    BY <2>1 DEF StageInv
  <2>4. PICK b : Active(st, d, b) /\ From(st, d, js, x.pair, b) /\ x.key = KeyOf(PairOf(st, b))
    BY <2>3 DEF OfJob, Keyed1
  <2>5. Kin(st, b, job)
    BY <2>1, <2>4 DEF Kin
  <2>6. PICK m \in ms : m.stage = st /\ From(st, d, {}, m.pair, b)
    <3>1. ~InPairs(st, d, {}, {}, b)
      BY DEF InPairs
    <3>2. InMade(st, d, {}, ms, b)
      BY <1>1, <2>4, <3>1 DEF StageInv
    <3> QED
      BY <3>2 DEF InMade
  <2>7. PICK G : Gathers(st, d, {}, b, G) /\ IsMerge(st, m.pair, G)
    BY <2>6 DEF From
  <2>8. job \in G /\ b \in G
    BY <2>5, <2>7 DEF Gathers
  <2>9. PICK H : Gathers(st, d, js, b, H) /\ IsMerge(st, x.pair, H)
    BY <2>4 DEF From
  <2>10. x.pair.ports = pair.ports
    <3>1. m.pair.ports = PairOf(st, b).ports /\ m.pair.ports = pair.ports
      BY <2>7, <2>8 DEF IsMerge
    <3>2. x.pair.ports = PairOf(st, b).ports
      BY <2>9 DEF IsMerge, Gathers
    <3> QED
      BY <3>1, <3>2
  <2>11. x.pair.samePorts
    BY <2>9, MergeFields
  <2>12. y.pair.samePorts
    <3>1. y.pair.samePorts = (x.pair.samePorts /\ x.pair.ports = pair.ports)
      BY <2>2 DEF MergePairs
    <3> QED
      BY <2>10, <2>11, <3>1
  <2>13. From(st, d, js, y.pair, b)
    BY <2>2, <2>4, <2>5, <2>12, FromMore
  <2>14. Within1(y.pair, m.pair)
    BY <2>6, <2>13, FromPart
  <2>15. ~Clashes(m.pair)
    BY <1>1, <2>6 DEF StageInv, Sound
  <2>16. ~Clashes(y.pair)
    BY <2>14, <2>15, PartClashless
  <2> QED
    BY <2>12, <2>16 DEF PairClash, Clashes
<1> HIDE DEF key, pair
<1>7. PutIn(ps, key, pair, y)
  BY DEF IsPut, key, pair
<1> QED
  BY <1>4, <1>5, <1>6, <1>7 DEF PutIn

LEMMA RunPairAgain == StandInv /\ WorkInv /\ AgainInv /\ RunPair => AgainInv'
<1> SUFFICES ASSUME StandInv, WorkInv, AgainInv, RunPair PROVE AgainInv'
  OBVIOUS
<1> DEFINE job  == Head(jobs)
           s    == OnMySide(job.m, job.ports)
           pair == MadePair(s, Other(job.m), Locals(job.ports))
           key  == PeerKey(pair, Locals(job.ports))
           next == With(key, pair)
           Bad  == \/ Clash(pair.local) \/ Clash(pair.connected) \/ AddrsRaise(pair)
                   \/ \E i \in DOMAIN next : PairClash(next[i].pair)
<1>1. /\ Running /\ stage \in {"direct", "indirect"} /\ jobs # <<>> /\ UnchangedInputs /\ UNCHANGED interfaces
      /\ \/ (Other(job.m) \in w.lost \/ (~Nothing(s) /\ Bad)) /\ Raise
         \/ UNCHANGED <<turn, stage, globals, peers, made, results>>
  BY DEF RunPair
<1>2. stage \in WorkStages /\ stage # "virtual" /\ stage # "globals" /\ Listed(jobs) /\ Listed(pairs)
  BY <1>1 DEF StandInv, WorkStages
<1>3. s = SidesOf(stage, job) /\ pair = PairOf(stage, job)
  BY <1>2 DEF SidesOf, PairOf
<1>4. key = KeyOf(pair)
  BY DEF KeyOf, MadePair
<1>5. job \in ToSet(jobs)
  BY <1>1, <1>2, FirstAndRest
<1> HIDE DEF job, pair, key, s
<1>6. StageInv(stage, me, ToSet(jobs), ToSet(pairs), ToSet(made))
  BY <1>1, <1>2 DEF WorkInv
<1>7. ASSUME Seen(me) PROVE Other(job.m) \notin w.lost /\ (~Nothing(s) => ~Bad)
  <2>1. PICK t \in DOMAIN results : Complete(me, results[t].made)
    BY <1>7, SeenComplete
  <2>2. IsJob(stage, me, job)
    BY <1>5, <1>6 DEF StageInv
  <2>3. ~Wrong(stage, job)
    BY <1>2, <2>1, <2>2, NoneWrongThere DEF NoneWrong
  <2>4. Other(job.m) \notin w.lost
    BY <1>2, <2>3 DEF Wrong
  <2>5. ASSUME ~Nothing(s) PROVE ~Bad
    <3>1. Active(stage, me, job)
      BY <1>3, <2>2, <2>5 DEF Active, Idle
    <3>2. ~Clashes(pair) /\ ~AddrsRaise(pair)
      BY <1>2, <1>3, <2>3, <3>1 DEF Wrong, Active
    <3>3. IsPut(ToSet(next), ToSet(pairs), KeyOf(pair), pair)
      BY <1>2, <1>4, WithPuts
    <3> HIDE DEF next
    <3>4. \A y \in ToSet(next) : ~PairClash(y.pair)
      BY <1>2, <1>3, <1>6, <2>1, <3>1, <3>3, MergedFine
    <3>5. \A i \in DOMAIN next : next[i] \in ToSet(next)
      BY DEF ToSet
    <3> QED
      BY <3>2, <3>4, <3>5 DEF Clashes
  <2> QED
    BY <2>4, <2>5
<1> HIDE DEF Bad
<1>8. KeptThere(interfaces')
  BY <1>1, KeptAsTheyAre
<1>9. CASE (Other(job.m) \in w.lost \/ (~Nothing(s) /\ Bad)) /\ Raise
  BY <1>1, <1>7, <1>8, <1>9, AgainRaises
<1>10. CASE UNCHANGED <<turn, stage, globals, peers, made, results>>
  <2>1. /\ Listed(peers') /\ ToSet(peers') = PeersOf(ToSet(made')) /\ UNCHANGED <<world, registry, turn, results>>
        /\ Running /\ stage' # "globals" => SetOnce(me) /\ globals'.settings = SettingsFor(me)
    BY <1>1, <1>10 DEF AgainInv, UnchangedInputs
  <2> QED
    BY <1>8, <2>1, AgainWithin
<1> QED
  BY <1>1, <1>9, <1>10

LEMMA RunVirtualAgain == StandInv /\ WorkInv /\ AgainInv /\ RunVirtual => AgainInv'
<1> SUFFICES ASSUME StandInv, WorkInv, AgainInv, RunVirtual PROVE AgainInv'
  OBVIOUS
<1> DEFINE job  == Head(jobs)
           s    == [mine |-> job.rule.handler.left, theirs |-> job.rule.handler.right, session |-> job.rule.handler.session]
           pair == MadePair([s EXCEPT !.theirs.addr = {[a EXCEPT !.ip = Append(@, job.num)] : a \in @}], "", <<>>)
<1>1. /\ Running /\ stage = "virtual" /\ jobs # <<>> /\ UnchangedInputs /\ UNCHANGED interfaces
      /\ \/ ~Nothing(s) /\ (Clash(pair.local) \/ Clash(pair.connected)) /\ Raise
         \/ UNCHANGED <<turn, stage, globals, peers, made, results>>
  BY DEF RunVirtual
<1>2. s = SidesOf("virtual", job)
  BY DEF SidesOf
<1>3. pair = PairOf("virtual", job)
  <2> DEFINE of(t) == MadePair([t EXCEPT !.theirs.addr = {[a EXCEPT !.ip = Append(@, job.num)] : a \in @}], "", <<>>)
  <2>1. PairOf("virtual", job) = of(SidesOf("virtual", job))
    BY DEF PairOf
  <2>2. pair = of(s)
    OBVIOUS
  <2> HIDE DEF of, pair, s
  <2> QED
    BY <1>2, <2>1, <2>2
<1>4. job \in ToSet(jobs)
  BY <1>1, FirstAndRest DEF StandInv
<1> HIDE DEF job, pair, s
<1>5. StageInv("virtual", me, ToSet(jobs), ToSet(pairs), ToSet(made))
  BY <1>1 DEF WorkInv
<1>6. ASSUME Seen(me), ~Nothing(s) PROVE ~(Clash(pair.local) \/ Clash(pair.connected))
  <2>1. PICK t \in DOMAIN results : Complete(me, results[t].made)
    BY <1>6, SeenComplete
  <2>2. IsJob("virtual", me, job)
    BY <1>4, <1>5 DEF StageInv
  <2>3. ~Wrong("virtual", job)
    BY <2>1, <2>2, NoneWrongThere DEF NoneWrong, WorkStages
  <2> QED
    BY <1>2, <1>3, <1>6, <2>3 DEF Wrong, Idle, Clashes
<1>7. KeptThere(interfaces')
  BY <1>1, KeptAsTheyAre
<1>8. CASE ~Nothing(s) /\ (Clash(pair.local) \/ Clash(pair.connected)) /\ Raise
  BY <1>1, <1>6, <1>7, <1>8, AgainRaises
<1>9. CASE UNCHANGED <<turn, stage, globals, peers, made, results>>
  <2>1. /\ Listed(peers') /\ ToSet(peers') = PeersOf(ToSet(made')) /\ UNCHANGED <<world, registry, turn, results>>
        /\ Running /\ stage' # "globals" => SetOnce(me) /\ globals'.settings = SettingsFor(me)
    BY <1>1, <1>9 DEF AgainInv, UnchangedInputs
  <2> QED
    BY <1>7, <2>1, AgainWithin
<1> QED
  BY <1>1, <1>8, <1>9

LEMMA NextStageAgain == StandInv /\ AgainInv /\ NextStage => AgainInv'
<1> SUFFICES ASSUME StandInv, AgainInv, NextStage PROVE AgainInv'
  OBVIOUS
<1>1. UNCHANGED <<world, registry, turn, results>> /\ UNCHANGED <<interfaces, globals, peers, made>> /\ stage # "globals"
  BY DEF NextStage
<1>2. /\ Listed(peers') /\ ToSet(peers') = PeersOf(ToSet(made')) /\ KeptThere(interfaces')
      /\ Running /\ stage' # "globals" => SetOnce(me) /\ globals'.settings = SettingsFor(me)
  BY <1>1, KeptAsTheyAre DEF AgainInv
<1> QED
  BY <1>1, <1>2, AgainWithin

LEMMA FinishAgain == StandInv /\ AgainInv /\ Finish => AgainInv'
<1> SUFFICES ASSUME StandInv, AgainInv, Finish PROVE AgainInv'
  OBVIOUS
<1> DEFINE r == [raises |-> FALSE, peers |-> ToSet(peers), globals |-> globals, made |-> ToSet(made),
                 policies |-> OfRouteMap(ExtractPolicies([globals |-> globals, peers |-> peers])),
                 device |-> interfaces[me]]
<1>1. /\ Running /\ UnchangedInputs /\ UNCHANGED interfaces /\ Started /\ stage # "globals"
      /\ results' = Append(results, r)
      /\ ~r.raises /\ r.peers = ToSet(peers) /\ r.globals = globals /\ r.made = ToSet(made) /\ r.device = interfaces[me]
  BY DEF Finish
<1> HIDE DEF r
<1>2. Lagged(r.made, r.device)
  BY <1>1 DEF StandInv, Current, GoodMade, Lagged
<1>3. Told(r, me)
  BY <1>1, <1>2 DEF AgainInv, Told
<1>4. KeptThere(interfaces') /\ Rest(r.device) = Rest(interfaces'[me])
  BY <1>1, KeptAsTheyAre
<1> QED
  BY <1>1, <1>3, <1>4, AgainEnds

-----------------------------------------------------------------------------
(* Interfaces stay records, and a change that finds its address is one of  *)
(* the vrf.                                                                *)
LEMMA ShapedAdded ==
    ASSUME NEW ifs, Shaped(ifs), NEW name
    PROVE  Shaped(AddInterface(ifs, name))
<1> DEFINE had == AddInterface(ifs, name)
<1>1. DOMAIN had = DOMAIN ifs \cup {name} /\ \A i \in DOMAIN had : had[i] = IF i \in DOMAIN ifs THEN ifs[i] ELSE NewInterface({})
  BY DEF AddInterface
<1>2. AnInterface(NewInterface({}))
  BY DEF AnInterface, NewInterface
<1> HIDE DEF had
<1>3. Shaped(had)
  BY <1>1, <1>2 DEF Shaped
<1> QED
  BY <1>3 DEF had

LEMMA ShapedLag ==
    ASSUME NEW ifs, Shaped(ifs), NEW lag, NEW ports
    PROVE  Shaped(MakeLag(ifs, lag, ports))
<1> DEFINE name == <<"lag", lag>>
           into == {Physical(p) : p \in ToSet(ports)}
           put  == [i \in DOMAIN ifs |-> [lag |-> IF i \in into THEN name ELSE ifs[i].lag, addrs |-> ifs[i].addrs,
                                          vrf |-> ifs[i].vrf, links |-> ifs[i].links]]
<1>1. MakeLag(ifs, lag, ports) = IF name \in DOMAIN ifs THEN ifs ELSE AddInterface(put, name)
  BY DEF MakeLag
<1> HIDE DEF name, into
<1>2. Shaped(put)
  BY DEF Shaped, AnInterface
<1> HIDE DEF put
<1>3. Shaped(AddInterface(put, name))
  BY <1>2, ShapedAdded
<1> QED
  BY <1>1, <1>3

LEMMA ShapedOn ==
    ASSUME NEW ifs, Shaped(ifs), NEW name, NEW c
    PROVE  Shaped(On(ifs, name, c).ifs)
<1> DEFINE had == AddInterface(ifs, name)
           new == On(ifs, name, c).ifs
<1>1. Shaped(had)
  BY ShapedAdded
<1>2. new = [had EXCEPT ![name] = WithChanges(had[name], c)]
  BY DEF On, Address
<1>3. AnInterface(WithChanges(had[name], c))
  BY DEF AnInterface, WithChanges
<1> HIDE DEF had, new
<1>4. Shaped(new)
  BY <1>1, <1>2, <1>3 DEF Shaped
<1> QED
  BY <1>4 DEF new

LEMMA Blanked ==
    ASSUME NEW i, NEW l, NEW a, NEW v, NEW k, i = [lag |-> l, addrs |-> a, vrf |-> v, links |-> k]
    PROVE  Blank(i) = [lag |-> l, addrs |-> a, vrf |-> NoVrf, links |-> k]
BY DEF Blank

LEMMA RestOn ==
    ASSUME NEW ifs, Shaped(ifs), NEW name \in DOMAIN ifs, NEW c, HasAddr(ifs[name], c)
    PROVE  Rest(On(ifs, name, c).ifs) = Rest(ifs)
<1> DEFINE had == AddInterface(ifs, name)
           old == ifs[name]
           new == On(ifs, name, c).ifs
<1>1. DOMAIN had = DOMAIN ifs /\ \A i \in DOMAIN ifs : had[i] = ifs[i]
  <2>1. DOMAIN had = DOMAIN ifs \cup {name} /\ \A i \in DOMAIN ifs : had[i] = ifs[i]
    BY InterfaceAdded
  <2>2. DOMAIN ifs \cup {name} = DOMAIN ifs
    OBVIOUS
  <2> QED
    BY <2>1, <2>2
<1>2. new = [had EXCEPT ![name] = WithChanges(had[name], c)]
  BY DEF On, Address
<1>3. WithChanges(old, c) = [lag |-> old.lag, addrs |-> old.addrs, vrf |-> One(c.vrf, old.vrf), links |-> old.links]
  BY DEF WithChanges
<1>4. AnInterface(old)
  BY DEF Shaped
<1> HIDE DEF had, new, old
<1>5. Blank(WithChanges(old, c)) = Blank(old)
  <2>1. Blank(WithChanges(old, c)) = [lag |-> old.lag, addrs |-> old.addrs, vrf |-> NoVrf, links |-> old.links]
    <3> DEFINE i == WithChanges(old, c)
               l == old.lag
               a == old.addrs
               v == One(c.vrf, old.vrf)
               k == old.links
    <3>1. i = [lag |-> l, addrs |-> a, vrf |-> v, links |-> k]
      BY <1>3
    <3> HIDE DEF i, l, a, v, k
    <3>2. Blank(i) = [lag |-> l, addrs |-> a, vrf |-> NoVrf, links |-> k]
      BY <3>1, Blanked
    <3> QED
      BY <3>2 DEF i, l, a, k
  <2>2. old = [lag |-> old.lag, addrs |-> old.addrs, vrf |-> old.vrf, links |-> old.links]
    BY <1>4 DEF AnInterface
  <2>3. Blank(old) = [lag |-> old.lag, addrs |-> old.addrs, vrf |-> NoVrf, links |-> old.links]
    <3> DEFINE l == old.lag
               a == old.addrs
               v == old.vrf
               k == old.links
    <3>1. old = [lag |-> l, addrs |-> a, vrf |-> v, links |-> k]
      BY <2>2
    <3> HIDE DEF l, a, v, k
    <3>2. Blank(old) = [lag |-> l, addrs |-> a, vrf |-> NoVrf, links |-> k]
      BY <3>1, Blanked
    <3> QED
      BY <3>2 DEF l, a, k
  <2> QED
    BY <2>1, <2>3
<1>6. DOMAIN new = DOMAIN ifs /\ \A i \in DOMAIN ifs : Blank(new[i]) = Blank(ifs[i])
  <2>1. had[name] = old
    BY <1>1 DEF old
  <2>2. DOMAIN new = DOMAIN ifs /\ \A i \in DOMAIN ifs : new[i] = IF i = name THEN WithChanges(old, c) ELSE ifs[i]
    BY <1>1, <1>2, <2>1
  <2> QED
    BY <1>5, <2>2 DEF old
<1>7. Rest(new) = Rest(ifs)
  BY <1>6 DEF Rest
<1> QED
  BY <1>7 DEF new

(* What the session made of a pair found, the pair finds again.            *)
LEMMA AddressThere ==
    ASSUME NEW old, NEW c, ~Many(c.addr), c.addr # {Unnumbered} => \A a \in c.addr : \E b \in old.addrs : b.ip = a.ip
    PROVE  HasAddr(old, c)
<1>1. CASE c.addr = {} \/ c.addr = {Unnumbered}
  BY <1>1 DEF HasAddr
<1>2. CASE c.addr # {} /\ c.addr # {Unnumbered}
  <2>1. PICK a : c.addr = {a}
    BY <1>2, OneOfOne
  <2>2. PICK b \in old.addrs : b.ip = a.ip
    BY <1>2, <2>1
  <2>3. {b.ip} = {x.ip : x \in c.addr}
    BY <2>1, <2>2
  <2> QED
    BY <2>2, <2>3 DEF HasAddr
<1> QED
  BY <1>1, <1>2

LEMMA NamedDirect == ASSUME NEW d, NEW pair PROVE NameFor("direct", d, pair) # <<>>
<1>1. \A a, b : <<a, b>> # <<>>
  OBVIOUS
<1>2. BaseFor("direct", d, pair) = <<"lag", One(pair.local.lag, "")>> \/ \E p : BaseFor("direct", d, pair) = <<p>>
  BY DEF BaseFor, Physical
<1>3. \A p, x : Append(<<p>>, x) # <<>> /\ <<p>> # <<>>
  OBVIOUS
<1>4. \A p, q, x : Append(<<p, q>>, x) # <<>>
  OBVIOUS
<1> QED
  BY <1>1, <1>2, <1>3, <1>4 DEF NameFor, Subbed

LEMMA GotSame ==
    ASSUME NEW ifs, Shaped(ifs), ifs = interfaces[me], NEW m, MadeAs(me, m), ~Clashes(m.pair),
           StandThere({m}, ifs), Lagged({m}, ifs),
           NEW c, c = InterfaceChanges(m.pair.local, m.pair.connected),
           NEW got, got = IF m.stage = "direct" THEN DirectInterface(m.pair, c) ELSE NondirectInterface(m.pair, c)
    PROVE  ~got.raises /\ got.name = m.interface /\ Rest(got.ifs) = Rest(ifs)
<1> DEFINE pair == m.pair
           l    == pair.local
           name == m.interface
<1>1. name = NameFor(m.stage, me, pair) /\ ~Unfit(m.stage, me, pair)
  BY DEF MadeAs
<1>2. /\ c.addr = l.addr /\ c.lag = l.lag /\ c.svi = l.svi /\ c.subif = l.subif
  BY DEF InterfaceChanges
<1>3. name # <<>> => /\ name \in DOMAIN ifs
                     /\ l.addr # {Unnumbered} => \A a \in l.addr : \E b \in ifs[name].addrs : b.ip = a.ip
  BY DEF StandThere
<1>4. name # <<>> => HasAddr(ifs[name], c)
  <2>1. ~Many(c.addr)
    BY <1>2, ClashlessFields
  <2> QED
    BY <1>2, <1>3, <2>1, AddressThere
<1>5. name # <<>> => Rest(On(ifs, name, c).ifs) = Rest(ifs)
  BY <1>3, <1>4, RestOn
<1>6. \A i, n : On(i, n, c).raises = FALSE /\ On(i, n, c).name = n
  BY DEF On
<1>7. CASE m.stage = "direct"
  <2> DEFINE ports == PortsOf(pair)
             had   == IF c.lag = {} THEN interfaces[me] ELSE MakeLag(interfaces[me], One(c.lag, ""), ports)
             base  == IF c.lag # {} THEN <<"lag", One(c.lag, "")>> ELSE Physical(ports[1])
             asked == IF c.svi # {} THEN <<"svi", One(c.svi, "")>> ELSE Subif(base, c)
             bad   == ChangesRaise(c) \/ (c.lag = {} /\ c.svi = {} /\ Len(ports) # 1)
  <2>1. got = IF bad THEN Refused ELSE On(had, asked, c)
    BY <1>7 DEF DirectInterface
  <2>2. got.raises <=> Unfit("direct", me, pair)
    BY <1>7, DirectGot
  <2>3. ~got.raises /\ got.name = name
    BY <1>1, <1>7, <2>2, DirectGot
  <2>4. had = ifs
    <3>1. CASE c.lag = {}
      BY <3>1
    <3>2. CASE c.lag # {}
      <4>1. <<"lag", One(c.lag, "")>> \in DOMAIN ifs
        BY <1>2, <3>2 DEF Lagged, HasLag, LagOf
      <4> QED
        BY <3>2, <4>1 DEF MakeLag
    <3> QED
      BY <3>1, <3>2
  <2> HIDE DEF had, bad, asked, name
  <2>5. Refused.raises = TRUE
    BY DEF Refused
  <2>6. got = On(ifs, name, c)
    BY <1>6, <2>1, <2>3, <2>4, <2>5
  <2>7. name # <<>>
    BY <1>1, <1>7, NamedDirect
  <2> QED
    BY <1>5, <2>3, <2>6, <2>7 DEF name
<1>8. CASE m.stage # "direct"
  <2> DEFINE ifname == One(pair.local.ifname, <<>>)
             asked  == IF c.svi # {} THEN <<"svi", One(c.svi, "")>> ELSE Subif(ifname, c)
             none   == [raises |-> FALSE, ifs |-> interfaces[me], name |-> <<>>]
             bad    == \/ ChangesRaise(c) \/ c.lag # {} \/ (c.subif # {} /\ ifname = <<>>)
                       \/ c.subif = {} /\ c.svi = {} /\ ifname \notin DOMAIN interfaces[me] \cup {<<>>}
  <2>1. got = IF bad THEN Refused ELSE IF asked = <<>> THEN none ELSE On(interfaces[me], asked, c)
    BY <1>8 DEF NondirectInterface
  <2>2. ~NoBase(pair, ifs)
    <3>1. l.svi = {} /\ l.subif = {} => name = ifname
      BY <1>1, <1>8 DEF NameFor, BaseFor, Subbed
    <3> QED
      BY <1>3, <3>1 DEF NoBase
  <2>3. got.raises <=> Unfit(m.stage, me, pair) \/ NoBase(pair, interfaces[me])
    BY <1>8, NondirectGot
  <2>4. ~got.raises /\ got.name = name
    BY <1>1, <1>8, <2>2, <2>3, NondirectGot
  <2>5. Refused.raises = TRUE /\ none.name = <<>> /\ none.ifs = ifs
    BY DEF Refused
  <2> HIDE DEF bad, asked, name, none
  <2>6. got = none \/ (got = On(ifs, name, c) /\ name # <<>>)
    BY <1>6, <2>1, <2>4, <2>5
  <2> QED
    BY <1>5, <2>4, <2>5, <2>6 DEF name
<1> QED
  BY <1>7, <1>8

LEMMA GotShaped ==
    ASSUME Shaped(interfaces[me]), NEW st, NEW pair, NEW c,
           NEW got, got = IF st = "direct" THEN DirectInterface(pair, c) ELSE NondirectInterface(pair, c)
    PROVE  Shaped(got.ifs)
<1>1. ASSUME NEW lag, NEW ports, NEW name PROVE Shaped(On(MakeLag(interfaces[me], lag, ports), name, c).ifs)
  <2> DEFINE had == MakeLag(interfaces[me], lag, ports)
  <2>1. Shaped(had)
    BY ShapedLag
  <2> HIDE DEF had
  <2>2. Shaped(On(had, name, c).ifs)
    BY <2>1, ShapedOn
  <2> QED
    BY <2>2 DEF had
<1>2. \A name : Shaped(On(interfaces[me], name, c).ifs)
  BY ShapedOn
<1>3. Refused.ifs = interfaces[me]
  BY DEF Refused
<1>4. CASE st = "direct"
  <2>1. \/ got = Refused \/ \E name : got = On(interfaces[me], name, c)
        \/ \E lag, ports, name : got = On(MakeLag(interfaces[me], lag, ports), name, c)
    BY <1>4 DEF DirectInterface
  <2> QED
    BY <1>1, <1>2, <1>3, <2>1
<1>5. CASE st # "direct"
  <2>1. \/ got = Refused \/ got = [raises |-> FALSE, ifs |-> interfaces[me], name |-> <<>>]
        \/ \E name : got = On(interfaces[me], name, c)
    BY <1>5 DEF NondirectInterface
  <2> QED
    BY <1>2, <1>3, <2>1
<1> QED
  BY <1>4, <1>5

LEMMA KeptChange ==
    ASSUME StandInv, AgainInv, Running, NEW new, Shaped(new), Seen(me) => Rest(new) = Rest(interfaces[me])
    PROVE  KeptThere([interfaces EXCEPT ![me] = new])
<1> DEFINE all == [interfaces EXCEPT ![me] = new]
<1>1. DOMAIN interfaces = DOMAIN w.ports /\ me \in DOMAIN w.ports
  BY AtWork DEF StandInv
<1>2. all[me] = new /\ \A d \in DOMAIN w.ports : d # me => all[d] = interfaces[d]
  BY <1>1
<1> HIDE DEF all
<1>3. \A d \in DOMAIN w.ports : Shaped(interfaces[d])
  BY DEF AgainInv
<1>4. ASSUME NEW d \in DOMAIN w.ports PROVE Shaped(all[d]) /\ (Seen(d) => Rest(all[d]) = Rest(interfaces[d]))
  <2>1. CASE d = me
    BY <1>2, <2>1
  <2>2. CASE d # me
    BY <1>2, <1>3, <2>2
  <2> QED
    BY <2>1, <2>2
<1>5. KeptThere(all)
  BY <1>4 DEF KeptThere
<1> QED
  BY <1>5 DEF all

LEMMA ApplyPairAgain == StandInv /\ TwinInv /\ WorkInv /\ AgainInv /\ ApplyPair => AgainInv'
<1> SUFFICES ASSUME StandInv, TwinInv, WorkInv, AgainInv, ApplyPair PROVE AgainInv'
  OBVIOUS
<1> DEFINE x    == Head(pairs)
           pair == x.pair
           c    == InterfaceChanges(pair.local, pair.connected)
           got  == IF stage = "direct" THEN DirectInterface(pair, c) ELSE NondirectInterface(pair, c)
           p    == ToBgpPeer(pair.local, pair.connected, pair.device, got.name)
           n    == [stage |-> stage, pair |-> pair, interface |-> got.name]
<1>1. /\ Running /\ stage # "globals" /\ jobs = <<>> /\ pairs # <<>> /\ UnchangedInputs
      /\ interfaces' = [interfaces EXCEPT ![me] = got.ifs]
      /\ \/ (got.raises \/ ToBgpPeerRaises(pair.local, pair.connected)) /\ Raise
         \/ /\ peers' = Append(peers, p) /\ made' = Append(made, n)
            /\ UNCHANGED <<turn, stage, jobs, globals, results>>
  BY DEF ApplyPair
<1>2. Listed(pairs) /\ Listed(made) /\ Listed(peers) /\ ToSet(jobs) = {} /\ me \in DOMAIN w.ports /\ stage \in WorkStages
  BY <1>1, NoElements, AtWork DEF StandInv, AgainInv, TwinInv, Stages, WorkStages
<1>3. x \in ToSet(pairs)
  BY <1>1, <1>2, FirstAndRest
<1>4. StageInv(stage, me, {}, ToSet(pairs), ToSet(made))
  BY <1>1, <1>2 DEF WorkInv
<1>5. Shaped(interfaces[me])
  BY <1>2 DEF AgainInv
<1>6. Shaped(got.ifs)
  BY <1>5, GotShaped
<1>7. n.pair = pair /\ n.interface = got.name
      /\ p = ToBgpPeer(n.pair.local, n.pair.connected, n.pair.device, n.interface)
  OBVIOUS
<1> HIDE DEF x, n, p, got
<1>8. ASSUME Seen(me)
      PROVE  ~got.raises /\ ~ToBgpPeerRaises(pair.local, pair.connected) /\ Rest(got.ifs) = Rest(interfaces[me])
  <2>1. PICK t \in DOMAIN results : ~results[t].raises /\ PlanOf(t) = me /\ Complete(me, results[t].made)
    BY <1>8, SeenComplete
  <2> DEFINE ms == results[t].made
  <2>2. StageInv(stage, me, {}, {}, ms) /\ AllMadeAs(me, ms)
    BY <1>2, <2>1 DEF Complete
  <2>3. PICK b : Active(stage, me, b) /\ From(stage, me, {}, pair, b)
    BY <1>3, <1>4 DEF StageInv, OfJob
  <2>4. PICK m \in ms : m.stage = stage /\ From(stage, me, {}, m.pair, b)
    <3>1. ~InPairs(stage, me, {}, {}, b)
      BY DEF InPairs
    <3>2. InMade(stage, me, {}, ms, b)
      BY <2>2, <2>3, <3>1 DEF StageInv
    <3> QED
      BY <3>2 DEF InMade
  <2>5. m.pair = pair
    BY <2>3, <2>4, FromSame
  <2>6. MadeAs(me, m) /\ ~Clashes(m.pair)
    BY <2>2, <2>4 DEF AllMadeAs, StageInv, Sound
  <2>7. StandThere({m}, interfaces[me])
    <3>1. StandThere(ms, interfaces[me])
      BY <2>1 DEF StandInv, Stood, StoodIn
    <3> QED
      BY <2>4, <3>1 DEF StandThere
  <2>8. Lagged({m}, interfaces[me])
    <3>1. Lagged(ms, results[t].device) /\ Rest(results[t].device) = Rest(interfaces[me])
      BY <2>1 DEF AgainInv, Told
    <3>2. \A ifs : DOMAIN Rest(ifs) = DOMAIN ifs
      BY DEF Rest
    <3>3. DOMAIN results[t].device = DOMAIN interfaces[me]
      BY <3>1, <3>2
    <3> QED
      BY <2>4, <3>1, <3>3 DEF Lagged
  <2> HIDE DEF ms
  <2>9. ~got.raises /\ Rest(got.ifs) = Rest(interfaces[me])
    <3> DEFINE d == InterfaceChanges(m.pair.local, m.pair.connected)
    <3>1. got = IF m.stage = "direct" THEN DirectInterface(m.pair, d) ELSE NondirectInterface(m.pair, d)
      BY <2>4, <2>5 DEF got
    <3> HIDE DEF d
    <3> QED
      BY <1>5, <2>6, <2>7, <2>8, <3>1, GotSame DEF d
  <2>10. ~ToBgpPeerRaises(pair.local, pair.connected)
    BY <2>5, <2>6 DEF MadeAs
  <2> QED
    BY <2>9, <2>10
<1>9. KeptThere(interfaces')
  BY <1>1, <1>6, <1>8, KeptChange
<1>10. CASE (got.raises \/ ToBgpPeerRaises(pair.local, pair.connected)) /\ Raise
  BY <1>1, <1>8, <1>9, <1>10, AgainRaises
<1>11. CASE /\ peers' = Append(peers, p) /\ made' = Append(made, n)
            /\ UNCHANGED <<turn, stage, jobs, globals, results>>
  <2>1. Listed(peers') /\ ToSet(peers') = ToSet(peers) \cup {p} /\ ToSet(made') = ToSet(made) \cup {n}
    BY <1>2, <1>11, AppendElements
  <2>2. ToSet(peers) = PeersOf(ToSet(made))
    BY DEF AgainInv
  <2>3. ToSet(peers') = PeersOf(ToSet(made'))
    BY <1>7, <2>1, <2>2 DEF PeersOf
  <2>4. /\ UNCHANGED <<world, registry, turn, results>>
        /\ Running /\ stage' # "globals" => SetOnce(me) /\ globals'.settings = SettingsFor(me)
    BY <1>1, <1>11 DEF AgainInv, UnchangedInputs
  <2> QED
    BY <1>9, <2>1, <2>3, <2>4, AgainWithin
<1> QED
  BY <1>1, <1>10, <1>11

(* An execution after one that was fine for the device raises nowhere.     *)
THEOREM AgainInvHolds == Spec => []AgainInv
<1>1. Init => AgainInv
  <2> SUFFICES ASSUME Init PROVE AgainInv
    OBVIOUS
  <2>1. /\ stage = "globals" /\ peers = <<>> /\ made = <<>> /\ results = <<>>
        /\ interfaces = [d \in DOMAIN w.ports |-> NewInterfaces(d)]
    BY DEF Init
  <2>2. ASSUME NEW d \in DOMAIN w.ports PROVE Shaped(interfaces[d])
    <3>1. interfaces[d] = [n \in {Physical(p) : p \in ToSet(w.ports[d])} |-> NewInterface({n[1]})]
      BY <2>1 DEF NewInterfaces
    <3>2. \A l : AnInterface(NewInterface(l))
      BY DEF AnInterface, NewInterface
    <3> QED
      BY <3>1, <3>2 DEF Shaped
  <2>3. Listed(peers) /\ ToSet(peers) = PeersOf(ToSet(made)) /\ DOMAIN results = {}
    BY <2>1, NoElements DEF PeersOf
  <2> QED
    BY <2>1, <2>2, <2>3 DEF AgainInv
<1>2. StandInv /\ TwinInv /\ WorkInv /\ AgainInv /\ [Next]_vars => AgainInv'
  <2> SUFFICES ASSUME StandInv, AgainInv, UNCHANGED vars PROVE AgainInv'
    BY RunPairAgain, RunVirtualAgain, ApplyPairAgain, NextStageAgain, GlobalsAgain, FinishAgain DEF Next
  <2>1. UNCHANGED <<world, registry, turn, results>> /\ UNCHANGED <<interfaces, stage, globals, peers, made>>
    BY DEF vars
  <2>2. /\ Listed(peers') /\ ToSet(peers') = PeersOf(ToSet(made')) /\ KeptThere(interfaces')
        /\ Running /\ stage' # "globals" => SetOnce(me) /\ globals'.settings = SettingsFor(me)
    BY <2>1, KeptAsTheyAre DEF AgainInv
  <2> QED
    BY <2>1, <2>2, AgainWithin
<1> QED
  BY <1>1, <1>2, StandInvHolds, TwinInvHolds, WorkInvHolds, PTL DEF Spec

(* Two executions that were fine for a device made the same sessions.      *)
LEMMA CompleteWithin ==
    ASSUME NEW d, NEW ms, NEW ns, Complete(d, ms), Complete(d, ns)
    PROVE  ms \subseteq ns
<1> SUFFICES ASSUME NEW m \in ms PROVE m \in ns
  OBVIOUS
<1>1. MadeAs(d, m)
  BY DEF Complete, AllMadeAs
<1>2. m.stage \in WorkStages
  BY <1>1 DEF MadeAs
<1>3. StageInv(m.stage, d, {}, {}, ms) /\ StageInv(m.stage, d, {}, {}, ns)
  BY <1>2 DEF Complete
<1>4. PICK b : Active(m.stage, d, b) /\ From(m.stage, d, {}, m.pair, b)
  BY <1>3 DEF StageInv, Sound
<1>5. PICK n \in ns : n.stage = m.stage /\ From(m.stage, d, {}, n.pair, b)
  <2>1. ~InPairs(m.stage, d, {}, {}, b)
    BY DEF InPairs
  <2>2. InMade(m.stage, d, {}, ns, b)
    BY <1>3, <1>4, <2>1 DEF StageInv
  <2> QED
    BY <2>2 DEF InMade
<1>6. n.pair = m.pair
  BY <1>4, <1>5, FromSame
<1>7. MadeAs(d, n)
  BY DEF Complete, AllMadeAs
<1>8. n = m
  BY <1>1, <1>5, <1>6, <1>7 DEF MadeAs
<1> QED
  BY <1>8

LEMMA SameOfRouteMap == ASSUME NEW S, NEW T, S = T PROVE OfRouteMap(S) = OfRouteMap(T)
OBVIOUS

(* Executing again on the device left by the first time, with the rules    *)
(* written the other way round, gives the same sessions and adds nothing:  *)
(* MeshExecutor does not depend on the order handlers are registered in.   *)
THEOREM AgainIsTheSame == Spec => []AgainTheSame
<1>1. WorkInv /\ AgainInv /\ PoliciesMade => AgainTheSame
  <2> SUFFICES ASSUME WorkInv, AgainInv, PoliciesMade,
                      NEW t \in DOMAIN results, NEW u \in DOMAIN results, t < u, Fine(t), PlanOf(t) = PlanOf(u)
               PROVE  /\ Fine(u)
                      /\ results[u].peers = results[t].peers /\ Left(u) = Left(t)
                      /\ results[u].globals.settings = results[t].globals.settings
                      /\ ToSet(results[u].policies) = ToSet(results[t].policies)
    BY DEF AgainTheSame
  <2>1. ~results[t].raises /\ ~results[u].raises /\ Fine(u)
    BY DEF AgainInv, Fine
  <2>2. results[u].made = results[t].made
    <3>1. Complete(PlanOf(t), results[t].made) /\ Complete(PlanOf(t), results[u].made)
      BY <2>1 DEF WorkInv
    <3>2. results[t].made \subseteq results[u].made /\ results[u].made \subseteq results[t].made
      BY <3>1, CompleteWithin
    <3> QED
      BY <3>2
  <2>3. /\ Told(results[t], PlanOf(t)) /\ Told(results[u], PlanOf(t))
        /\ Rest(results[t].device) = Rest(results[u].device)
    BY <2>1 DEF AgainInv
  <2>4. results[u].peers = results[t].peers /\ results[u].globals.settings = results[t].globals.settings
    BY <2>2, <2>3 DEF Told
  <2>5. Left(u) = Left(t)
    BY <2>3 DEF Left, Rest, Blank, NoVrf
  <2>6. results[u].policies = results[t].policies
    <3>1. NamedByPeers(u) = NamedByPeers(t)
      BY <2>2 DEF NamedByPeers
    <3>2. /\ results[t].policies = OfRouteMap(Named1(PlanOf(t)) \cup NamedByPeers(t))
          /\ results[u].policies = OfRouteMap(Named1(PlanOf(u)) \cup NamedByPeers(u))
      BY <2>1 DEF PoliciesMade
    <3> QED
      BY <3>1, <3>2
  <2> QED
    BY <2>1, <2>4, <2>5, <2>6
<1> QED
  BY <1>1, WorkInvHolds, AgainInvHolds, PoliciesAreMade, PTL

-----------------------------------------------------------------------------
(***************************************************************************)
(* What executions leave, however often a device is executed: the ports of *)
(* a lag stay in it, and the vrf its sessions agree about stays.           *)
(***************************************************************************)
DirectPair(d, p)  == Sound("direct", d, {}, p)
Lagging(p)        == p.local.lag # {}
LagName(p)        == <<"lag", One(p.local.lag, "")>>
AgreedPorts(d, p) ==
    \A x : DirectPair(d, x) /\ Lagging(x) =>
        IF x.local.lag = p.local.lag THEN ToSet(x.ports) = ToSet(p.ports) ELSE ToSet(x.ports) \cap ToSet(p.ports) = {}
LagsLast(d, ifs) ==
    \A p : DirectPair(d, p) /\ Lagging(p) /\ AgreedPorts(d, p) /\ LagName(p) \in DOMAIN ifs =>
        \A q \in ToSet(p.ports) : ifs[Physical(q)].lag = LagName(p)
VrfsLast(ifs) == \A t \in DOMAIN results : ~results[t].raises => StandInVrf(results[t].made, ifs[PlanOf(t)])

LastInv == /\ \A d \in DOMAIN w.ports : LagsLast(d, interfaces[d])
           /\ VrfsLast(interfaces)

(* The ports of a pair are ports of the device.                            *)
LEMMA PairOnPorts ==
    ASSUME NEW d, Listed(w.ports[d]), NEW p, DirectPair(d, p)
    PROVE  ToSet(p.ports) \subseteq ToSet(w.ports[d]) /\ ~Many(p.local.lag)
<1>1. PICK b : Active("direct", d, b) /\ From("direct", d, {}, p, b) /\ ~Clashes(p)
  BY DEF DirectPair, Sound
<1>2. p.ports = Locals(b.ports) /\ p.samePorts
  <2>1. PICK G : b \in G /\ IsMerge("direct", p, G)
    BY <1>1 DEF From, Gathers
  <2>2. p.ports = PairOf("direct", b).ports /\ p.samePorts
    BY <2>1 DEF IsMerge
  <2>3. PairOf("direct", b).ports = Locals(b.ports)
    BY DEF PairOf, MadePair
  <2> QED
    BY <2>2, <2>3
<1>3. PICK m, ports : b = [m |-> m, ports |-> ports] /\ RunsOn(d, m, ports)
  BY <1>1 DEF Active, IsJob, DirectJob
<1>4. b.ports = ports
  BY <1>3
<1>5. ToSet(ports) \subseteq ToSet(Connections(d, Other(m)))
  <2>1. CASE ports = <<>>
    BY <2>1, NoElements
  <2>2. CASE \E e \in ToSet(Connections(d, Other(m))) : ports = <<e>>
    BY <2>2, OneElement
  <2>3. CASE ports = Connections(d, Other(m))
    BY <2>3
  <2> QED
    BY <1>3, <2>1, <2>2, <2>3 DEF RunsOn
<1>6. ToSet(Locals(ports)) \subseteq ToSet(Locals(Connections(d, Other(m))))
  BY <1>5, LocalsAre
<1>7. ToSet(p.ports) \subseteq ToSet(w.ports[d])
  BY <1>2, <1>4, <1>6, ConnectionsAre
<1>8. ~Many(p.local.lag)
  BY <1>1, <1>2, Clashless DEF Clashes, PairClash
<1> QED
  BY <1>7, <1>8

LEMMA OneLag ==
    ASSUME NEW p, NEW x, Lagging(p), Lagging(x), ~Many(p.local.lag), ~Many(x.local.lag)
    PROVE  p.local.lag = x.local.lag <=> LagName(p) = LagName(x)
<1>1. p.local.lag = {One(p.local.lag, "")} /\ x.local.lag = {One(x.local.lag, "")}
  BY OneOfOne DEF Lagging
<1> QED
  BY <1>1 DEF LagName

(* A session applied to its device.                                        *)
LEMMA LagsBecome ==
    ASSUME NEW d, Listed(w.ports[d]), NEW ifs, HasPorts(d, ifs), NEW new, NEW m, Sets(ifs, new, m), LagsLast(d, ifs),
           \/ /\ DirectPair(d, m.pair)
              /\ \A l : <<"lag", l>> \in DOMAIN new \ DOMAIN ifs => HasLag(m) /\ <<"lag", l>> = LagOf(m)
           \/ /\ ~HasLag(m)
              /\ \A p : DirectPair(d, p) /\ Lagging(p) => LagName(p) \in DOMAIN ifs
    PROVE  LagsLast(d, new)
<1> SUFFICES ASSUME NEW p, DirectPair(d, p), Lagging(p), AgreedPorts(d, p), LagName(p) \in DOMAIN new,
                    NEW q \in ToSet(p.ports)
             PROVE  new[Physical(q)].lag = LagName(p)
  BY DEF LagsLast
<1>1. ~Many(p.local.lag) /\ Physical(q) \in DOMAIN ifs
  BY PairOnPorts DEF HasPorts
<1>2. new[Physical(q)].lag = IF Physical(q) \in Into(m, ifs) THEN LagOf(m) ELSE ifs[Physical(q)].lag
  BY <1>1 DEF Sets
<1>3. HasLag(m) => DirectPair(d, m.pair) /\ Lagging(m.pair) /\ ~Many(m.pair.local.lag) /\ LagName(m.pair) = LagOf(m)
  BY PairOnPorts DEF HasLag, Lagging, LagName, LagOf
<1>4. HasLag(m) => /\ m.pair.local.lag = p.local.lag <=> LagName(m.pair) = LagName(p)
                   /\ IF m.pair.local.lag = p.local.lag THEN ToSet(m.pair.ports) = ToSet(p.ports)
                      ELSE ToSet(m.pair.ports) \cap ToSet(p.ports) = {}
  BY <1>1, <1>3, OneLag DEF AgreedPorts
<1>5. CASE LagName(p) \in DOMAIN ifs
  <2>1. ifs[Physical(q)].lag = LagName(p)
    BY <1>5 DEF LagsLast
  <2>2. Physical(q) \notin Into(m, ifs)
    <3> SUFFICES ASSUME HasLag(m), LagOf(m) \notin DOMAIN ifs PROVE Physical(q) \notin {Physical(r) : r \in ToSet(m.pair.ports)}
      BY DEF Into
    <3>1. q \notin ToSet(m.pair.ports)
      BY <1>3, <1>4, <1>5
    <3> QED
      BY <3>1 DEF Physical
  <2> QED
    BY <1>2, <2>1, <2>2
<1>6. CASE LagName(p) \notin DOMAIN ifs
  <2>1. HasLag(m) /\ LagName(p) = LagOf(m)
    BY <1>6 DEF LagName
  <2>2. q \in ToSet(m.pair.ports)
    BY <1>3, <1>4, <2>1
  <2>3. Physical(q) \in Into(m, ifs)
    BY <1>6, <2>1, <2>2 DEF Into
  <2> QED
    BY <1>2, <2>1, <2>3
<1> QED
  BY <1>5, <1>6

(* Past the direct stage the lags of all its sessions are there.           *)
LEMMA AllLagsThere ==
    ASSUME StandInv, TwinInv, WorkInv, Running, stage \in {"virtual", "indirect"}, NEW p, DirectPair(me, p), Lagging(p)
    PROVE  LagName(p) \in DOMAIN interfaces[me]
<1>1. StageInv("direct", me, {}, {}, ToSet(made))
  BY DEF WorkInv, SoFar
<1>2. PICK b : Active("direct", me, b) /\ From("direct", me, {}, p, b)
  BY DEF DirectPair, Sound
<1>3. PICK m \in ToSet(made) : From("direct", me, {}, m.pair, b)
  <2>1. ~InPairs("direct", me, {}, {}, b)
    BY DEF InPairs
  <2> QED
    BY <1>1, <1>2, <2>1 DEF StageInv, InMade
<1>4. m.pair = p
  BY <1>2, <1>3, FromSame
<1>5. HasLag(m) => LagOf(m) \in DOMAIN interfaces[me]
  BY <1>3 DEF StandInv, Current, GoodMade
<1> QED
  BY <1>4, <1>5 DEF HasLag, LagOf, Lagging, LagName

(* Every step: what it leaves of the interfaces, and the result if any.    *)
LEMMA LastSteps ==
    ASSUME StandInv, Running, UNCHANGED <<world, registry>>,
           \A d \in DOMAIN w.ports : LagsLast(d, interfaces'[d]), VrfsLast(interfaces'),
           results' = results \/ \E r : results' = Append(results, r) /\ (r.raises \/ StandInVrf(r.made, interfaces'[me]))
    PROVE  LastInv'
<1>1. w' = w /\ registry' = registry /\ \A t : PlanOf(t)' = PlanOf(t)
  BY SameWork
<1>2. \A d, p : DirectPair(d, p)' <=> DirectPair(d, p)
  BY <1>1, SameStages DEF DirectPair
<1>3. \A d, ifs : LagsLast(d, ifs)' <=> LagsLast(d, ifs')
  BY <1>2 DEF LagsLast, AgreedPorts
<1>4. (\A d \in DOMAIN w.ports : LagsLast(d, interfaces[d]))'
  BY <1>1, <1>3
<1>5. \A t \in DOMAIN results' : ~results'[t].raises => StandInVrf(results'[t].made, interfaces'[PlanOf(t)])
  <2>1. CASE results' = results
    BY <2>1 DEF VrfsLast
  <2>2. CASE results' # results
    <3>1. PICK r : results' = Append(results, r) /\ (r.raises \/ StandInVrf(r.made, interfaces'[me]))
      BY <2>2
    <3>2. Listed(results) /\ Len(results) = turn - 1 /\ turn \in Nat /\ PlanOf(turn) = me
      BY AtWork DEF StandInv, PlanOf, me
    <3>3. /\ DOMAIN results' = 1 .. turn /\ results'[turn] = r
          /\ \A t \in 1 .. turn - 1 : results'[t] = results[t] /\ t \in DOMAIN results
      <4>1. results \in Seq(ToSet(results) \cup {r})
        BY <3>2, SeqMonotonic DEF Listed
      <4>2. /\ Append(results, r) \in Seq(ToSet(results) \cup {r}) /\ Len(Append(results, r)) = Len(results) + 1
            /\ Append(results, r)[Len(results) + 1] = r /\ \A t \in 1 .. Len(results) : Append(results, r)[t] = results[t]
        BY <4>1, AppendProperties
      <4>3. DOMAIN Append(results, r) = 1 .. Len(Append(results, r)) /\ DOMAIN results = 1 .. Len(results)
        BY <3>2, <4>2, SeqElements, ListIs
      <4> QED
        BY <3>1, <3>2, <4>2, <4>3
    <3> SUFFICES ASSUME NEW t \in DOMAIN results', ~results'[t].raises
                 PROVE  StandInVrf(results'[t].made, interfaces'[PlanOf(t)])
      OBVIOUS
    <3>4. CASE t = turn
      BY <3>1, <3>2, <3>3, <3>4
    <3>5. CASE t # turn
      <4>1. results'[t] = results[t] /\ t \in DOMAIN results
        BY <3>2, <3>3, <3>5
      <4> QED
        BY <4>1 DEF VrfsLast
    <3> QED
      BY <3>4, <3>5
  <2> QED
    BY <2>1, <2>2
<1>6. VrfsLast(interfaces)'
  BY <1>1, <1>5 DEF VrfsLast
<1> QED
  BY <1>4, <1>6 DEF LastInv

LEMMA RefusedIs ==
    ASSUME NEW pair, NEW c, NEW got, got.raises, got = DirectInterface(pair, c) \/ got = NondirectInterface(pair, c)
    PROVE  got.ifs = interfaces[me]
<1>1. \A i, n : ~On(i, n, c).raises
  BY DEF On
<1>2. ~[raises |-> FALSE, ifs |-> interfaces[me], name |-> <<>>].raises
  OBVIOUS
<1>3. Refused.ifs = interfaces[me]
  BY DEF Refused
<1>4. CASE got = DirectInterface(pair, c)
  <2>1. got = Refused \/ \E i, n : got = On(i, n, c)
    BY <1>4 DEF DirectInterface
  <2> QED
    BY <1>1, <1>3, <2>1
<1>5. CASE got = NondirectInterface(pair, c)
  <2>1. got = Refused \/ got = [raises |-> FALSE, ifs |-> interfaces[me], name |-> <<>>] \/ \E i, n : got = On(i, n, c)
    BY <1>5 DEF NondirectInterface
  <2> QED
    BY <1>1, <1>2, <1>3, <2>1
<1> QED
  BY <1>4, <1>5

(* The vrf an earlier execution left: a session applied again is one of it.*)
LEMMA VrfStays ==
    ASSUME NEW ms, NEW ifs, NEW new, NEW m \in ms, StandThere(ms, ifs), StandInVrf(ms, ifs), Sets(ifs, new, m),
           ~Many(m.pair.connected.vrf)
    PROVE  StandInVrf(ms, new)
<1> SUFFICES ASSUME NEW x \in ms, x.interface # <<>>, x.pair.connected.vrf # {}, OneVrf(ms, x)
             PROVE  {new[x.interface].vrf} = x.pair.connected.vrf
  BY DEF StandInVrf
<1>1. x.interface \in DOMAIN ifs /\ {ifs[x.interface].vrf} = x.pair.connected.vrf
  BY DEF StandThere, StandInVrf
<1>2. CASE x.interface = m.interface
  <2>1. m.pair.connected.vrf = x.pair.connected.vrf
    BY <1>2 DEF OneVrf
  <2>2. new[m.interface].vrf = One(m.pair.connected.vrf, "")
    BY <1>2, <2>1 DEF Sets
  <2>3. m.pair.connected.vrf = {One(m.pair.connected.vrf, "")}
    BY <2>1, OneOfOne
  <2> QED
    BY <1>2, <2>1, <2>2, <2>3
<1>3. CASE x.interface # m.interface
  BY <1>1, <1>3 DEF Sets
<1> QED
  BY <1>2, <1>3

(* The pair at the head of the list, when its device was executed before.  *)
LEMMA HeadWasMade ==
    ASSUME WorkInv, NEW st \in WorkStages, NEW p, Sound(st, me, {}, p), NEW t \in DOMAIN results, ~results[t].raises, PlanOf(t) = me
    PROVE  \E m \in results[t].made : m.stage = st /\ m.pair = p /\ MadeAs(me, m)
<1>1. Complete(me, results[t].made)
  BY DEF WorkInv
<1>2. StageInv(st, me, {}, {}, results[t].made) /\ AllMadeAs(me, results[t].made)
  BY <1>1 DEF Complete
<1>3. PICK b : Active(st, me, b) /\ From(st, me, {}, p, b)
  BY DEF Sound
<1>4. PICK m \in results[t].made : m.stage = st /\ From(st, me, {}, m.pair, b)
  <2>1. ~InPairs(st, me, {}, {}, b)
    BY DEF InPairs
  <2> QED
    BY <1>2, <1>3, <2>1 DEF StageInv, InMade
<1>5. m.pair = p
  BY <1>3, <1>4, FromSame
<1> QED
  BY <1>2, <1>4, <1>5 DEF AllMadeAs

LEMMA ApplyPairLasts == StandInv /\ TwinInv /\ WorkInv /\ AgainInv /\ LastInv /\ ApplyPair => LastInv'
<1> SUFFICES ASSUME StandInv, TwinInv, WorkInv, AgainInv, LastInv, ApplyPair PROVE LastInv'
  OBVIOUS
<1> DEFINE x    == Head(pairs)
           pair == x.pair
           c    == InterfaceChanges(pair.local, pair.connected)
           got  == IF stage = "direct" THEN DirectInterface(pair, c) ELSE NondirectInterface(pair, c)
           n    == [stage |-> stage, pair |-> pair, interface |-> got.name]
           r    == [raises |-> TRUE, peers |-> {}, globals |-> NoGlobals, made |-> {}, policies |-> <<>>,
                    device |-> interfaces'[me]]
<1>1. /\ Running /\ stage # "globals" /\ jobs = <<>> /\ pairs # <<>> /\ UnchangedInputs
      /\ interfaces' = [interfaces EXCEPT ![me] = got.ifs]
      /\ results' = results \/ results' = Append(results, r)
  BY DEF ApplyPair, Raise
<1>2. /\ Listed(pairs) /\ ToSet(jobs) = {} /\ me \in DOMAIN w.ports /\ stage \in WorkStages
      /\ Listed(w.ports[me]) /\ "lag" \notin ToSet(w.ports[me])
      /\ \A d \in DOMAIN w.ports : HasPorts(d, interfaces[d])
  BY <1>1, NoElements, AtWork DEF StandInv, TwinInv, Stages, WorkStages
<1>3. x \in ToSet(pairs)
  BY <1>1, <1>2, FirstAndRest
<1>4. GoodPair(pair)
  BY <1>1, <1>3 DEF StandInv, Current, GoodPairs
<1>5. Sound(stage, me, {}, pair)
  <2>1. StageInv(stage, me, {}, ToSet(pairs), ToSet(made))
    BY <1>1, <1>2 DEF WorkInv
  <2> QED
    BY <1>3, <2>1 DEF StageInv, OfJob, Sound
<1>6. Listed(Locals(Connections(me, pair.device))) /\ "lag" \notin PortsTo(pair.device)
  BY <1>2, ConnectionsAre DEF PortsTo
<1>7. n.pair = pair /\ n.interface = got.name /\ n.stage = stage /\ r.raises
  OBVIOUS
<1>8. /\ stage = "direct" => got = DirectInterface(pair, c)
      /\ stage # "direct" => got = NondirectInterface(pair, c)
  OBVIOUS
<1>9. \A l : ~got.raises /\ stage = "direct" /\ <<"lag", l>> \in DOMAIN got.ifs \ DOMAIN interfaces[me] =>
          HasLag(n) /\ <<"lag", l>> = LagOf(n)
  <2> SUFFICES ASSUME ~got.raises, stage = "direct", NEW l, <<"lag", l>> \in DOMAIN got.ifs \ DOMAIN interfaces[me]
               PROVE  HasLag(n) /\ <<"lag", l>> = LagOf(n)
    OBVIOUS
  <2> HIDE DEF x, got, n
  <2>1. pair.local.lag # {} /\ <<"lag", l>> = <<"lag", One(pair.local.lag, "")>>
    BY <1>4, <1>6, <1>8, LagsOfDirect
  <2> QED
    BY <1>7, <2>1 DEF HasLag, LagOf
<1>10. ~got.raises => Sets(interfaces[me], got.ifs, n) /\ (stage # "direct" => ~HasLag(n))
  <2>1. n = [stage |-> stage, pair |-> pair, interface |-> got.name]
    OBVIOUS
  <2> HIDE DEF x, got, n
  <2> QED
    BY <1>4, <1>6, <1>8, <2>1, DirectSets, NondirectSets
<1> HIDE DEF x, got, n, r
<1>11. LagsLast(me, got.ifs) /\ \A t \in DOMAIN results : ~results[t].raises /\ PlanOf(t) = me => StandInVrf(results[t].made, got.ifs)
  <2>1. LagsLast(me, interfaces[me])
        /\ \A t \in DOMAIN results : ~results[t].raises /\ PlanOf(t) = me => StandInVrf(results[t].made, interfaces[me])
    BY <1>2 DEF LastInv, VrfsLast
  <2>2. CASE got.raises
    BY <1>8, <2>1, <2>2, RefusedIs
  <2>3. CASE ~got.raises
    <3>1. LagsLast(me, got.ifs)
      <4>1. CASE stage = "direct"
        <5>1. DirectPair(me, n.pair)
          BY <1>5, <1>7, <4>1 DEF DirectPair
        <5> QED
          BY <1>2, <1>9, <1>10, <2>1, <2>3, <4>1, <5>1, LagsBecome
      <4>2. CASE stage # "direct"
        <5>1. \A p : DirectPair(me, p) /\ Lagging(p) => LagName(p) \in DOMAIN interfaces[me]
          BY <1>1, <1>2, <4>2, AllLagsThere DEF WorkStages
        <5> QED
          BY <1>2, <1>10, <2>1, <2>3, <4>2, <5>1, LagsBecome
      <4> QED
        BY <4>1, <4>2
    <3>2. ASSUME NEW t \in DOMAIN results, ~results[t].raises, PlanOf(t) = me
          PROVE  StandInVrf(results[t].made, got.ifs)
      <4>1. PICK m \in results[t].made : m.stage = stage /\ m.pair = pair /\ MadeAs(me, m)
        BY <1>2, <1>5, <3>2, HeadWasMade
      <4>2. got.name = NameFor(stage, me, pair)
        BY <1>8, <2>3, DirectGot, NondirectGot DEF c
      <4>3. m.interface = n.interface /\ m.pair = n.pair
        BY <1>7, <4>1, <4>2 DEF MadeAs
      <4>4. Sets(interfaces[me], got.ifs, m)
        BY <1>10, <2>3, <4>3 DEF Sets, Into, HasLag, LagOf
      <4>5. StandThere(results[t].made, interfaces[me])
        BY <3>2 DEF StandInv, Stood, StoodIn
      <4>6. ~Many(m.pair.connected.vrf)
        BY <1>4, <4>1 DEF GoodPair
      <4> QED
        BY <2>1, <3>2, <4>4, <4>5, <4>6, VrfStays
    <3> QED
      BY <3>1, <3>2
  <2> QED
    BY <2>2, <2>3
<1>12. DOMAIN interfaces = DOMAIN w.ports
  BY DEF StandInv
<1>13. interfaces'[me] = got.ifs /\ \A d \in DOMAIN w.ports : d # me => interfaces'[d] = interfaces[d]
  BY <1>1, <1>2, <1>12
<1>14. \A d \in DOMAIN w.ports : LagsLast(d, interfaces'[d])
  <2> SUFFICES ASSUME NEW d \in DOMAIN w.ports PROVE LagsLast(d, interfaces'[d])
    OBVIOUS
  <2>1. CASE d = me
    BY <1>11, <1>13, <2>1
  <2>2. CASE d # me
    BY <1>13, <2>2 DEF LastInv
  <2> QED
    BY <2>1, <2>2
<1>15. VrfsLast(interfaces')
  <2> SUFFICES ASSUME NEW t \in DOMAIN results, ~results[t].raises PROVE StandInVrf(results[t].made, interfaces'[PlanOf(t)])
    BY DEF VrfsLast
  <2>1. CASE PlanOf(t) = me
    BY <1>11, <1>13, <2>1
  <2>2. CASE PlanOf(t) # me
    <3>1. PlanOf(t) \in DOMAIN w.ports
      BY PlansThere
    <3>2. interfaces'[PlanOf(t)] = interfaces[PlanOf(t)]
      BY <1>13, <2>2, <3>1
    <3> QED
      BY <3>2 DEF LastInv, VrfsLast
  <2> QED
    BY <2>1, <2>2
<1>16. results' = results \/ \E q : results' = Append(results, q) /\ q.raises
  BY <1>1, <1>7
<1> QED
  BY <1>1, <1>14, <1>15, <1>16, LastSteps DEF UnchangedInputs

(* What executions leave lasts, in every execution of execute_for.         *)
THEOREM LastInvHolds == Spec => []LastInv
<1>1. Init => LastInv
  <2> SUFFICES ASSUME Init PROVE LastInv
    OBVIOUS
  <2>1. results = <<>> /\ world \in DOMAIN Worlds /\ registry \in w.registries
        /\ interfaces = [d \in DOMAIN w.ports |-> NewInterfaces(d)]
    BY DEF Init
  <2>2. DOMAIN results = {}
    BY <2>1, NoElements
  <2>3. ASSUME NEW d \in DOMAIN w.ports PROVE LagsLast(d, interfaces[d])
    <3>1. DOMAIN interfaces[d] = {Physical(p) : p \in ToSet(w.ports[d])}
      BY <2>1 DEF NewInterfaces
    <3>2. \A l, p : <<"lag", l>> # Physical(p)
      BY DEF Physical
    <3> QED
      BY <3>1, <3>2 DEF LagsLast, LagName
  <2> QED
    BY <2>2, <2>3 DEF LastInv, VrfsLast
<1>2. StandInv /\ TwinInv /\ WorkInv /\ AgainInv /\ LastInv /\ [Next]_vars => LastInv'
  <2> SUFFICES ASSUME StandInv, WorkInv, LastInv, Globals \/ RunPair \/ RunVirtual \/ NextStage \/ Finish \/ UNCHANGED vars
               PROVE  LastInv'
    BY ApplyPairLasts DEF Next
  <2>1. UNCHANGED <<world, registry>> /\ UNCHANGED interfaces
    BY DEF Globals, RunPair, RunVirtual, NextStage, Finish, UnchangedInputs, vars
  <2>2. (\A d \in DOMAIN w.ports : LagsLast(d, interfaces'[d])) /\ VrfsLast(interfaces')
    BY <2>1 DEF LastInv
  <2>3. CASE Running
    <3>1. results' = results \/ Raise \/ Finish
      BY DEF Globals, RunPair, RunVirtual, NextStage, vars
    <3>2. CASE results' = results
      BY <2>1, <2>2, <2>3, <3>2, LastSteps
    <3>3. CASE Raise
      <4> DEFINE r == [raises |-> TRUE, peers |-> {}, globals |-> NoGlobals, made |-> {}, policies |-> <<>>,
                       device |-> interfaces'[me]]
      <4>1. results' = Append(results, r) /\ r.raises
        BY <3>3 DEF Raise
      <4> HIDE DEF r
      <4> QED
        BY <2>1, <2>2, <2>3, <4>1, LastSteps
    <3>4. CASE Finish
      <4> DEFINE r == [raises |-> FALSE, peers |-> ToSet(peers), globals |-> globals, made |-> ToSet(made),
                       policies |-> OfRouteMap(ExtractPolicies([globals |-> globals, peers |-> peers])),
                       device |-> interfaces[me]]
      <4>1. results' = Append(results, r) /\ r.made = ToSet(made)
        BY <3>4 DEF Finish
      <4> HIDE DEF r
      <4>2. StandInVrf(ToSet(made), interfaces'[me])
        BY <2>1, <2>3 DEF StandInv, Current, GoodMade
      <4> QED
        BY <2>1, <2>2, <2>3, <4>1, <4>2, LastSteps
    <3> QED
      BY <3>1, <3>2, <3>3, <3>4
  <2>4. CASE ~Running
    <3>1. UNCHANGED vars
      BY <2>4 DEF Globals, RunPair, RunVirtual, NextStage, Finish
    <3>2. UNCHANGED <<world, registry, interfaces, results>>
      BY <3>1 DEF vars
    <3>3. w' = w /\ registry' = registry /\ \A t : PlanOf(t)' = PlanOf(t)
      BY <3>2, SameWork
    <3>4. \A d, p : DirectPair(d, p)' <=> DirectPair(d, p)
      BY <3>3, SameStages DEF DirectPair
    <3>5. (\A d \in DOMAIN w.ports : LagsLast(d, interfaces[d]))'
      BY <2>2, <3>3, <3>4 DEF LagsLast, AgreedPorts
    <3>6. VrfsLast(interfaces)'
      BY <2>2, <3>2, <3>3 DEF VrfsLast
    <3> QED
      BY <3>5, <3>6 DEF LastInv
  <2> QED
    BY <2>3, <2>4
<1> QED
  BY <1>1, <1>2, StandInvHolds, TwinInvHolds, WorkInvHolds, AgainInvHolds, PTL DEF Spec

(* A session stands on an interface its device has, with its address and   *)
(* vrf, and every port of the pair is in its lag: for any rules, devices   *)
(* and links, and however often and in whatever order devices are executed.*)
THEOREM SessionsDoStand == Spec => []SessionsStand
<1>1. StandInv /\ WorkInv /\ AgainInv /\ LastInv => SessionsStand
  <2> SUFFICES ASSUME StandInv, WorkInv, AgainInv, LastInv, NEW t \in DOMAIN results, ~results[t].raises
               PROVE  /\ StandThere(results[t].made, interfaces[PlanOf(t)])
                      /\ StandInVrf(results[t].made, interfaces[PlanOf(t)])
                      /\ StandInLag(results[t].made, interfaces[PlanOf(t)])
    BY DEF SessionsStand, Fine
  <2> DEFINE d   == PlanOf(t)
             ms  == results[t].made
             ifs == interfaces[d]
  <2>1. StandThere(ms, ifs)
    BY DEF StandInv, Stood, StoodIn
  <2>2. StandInVrf(ms, ifs)
    BY DEF LastInv, VrfsLast
  <2>3. d \in DOMAIN w.ports
    BY PlansThere
  <2>4. Listed(w.ports[d])
    BY <2>3, WorldIs DEF StandInv
  <2>5. Complete(d, ms) /\ LagsLast(d, ifs)
    BY <2>3 DEF WorkInv, LastInv
  <2>6. Lagged(ms, ifs)
    <3>1. Lagged(ms, results[t].device) /\ Rest(results[t].device) = Rest(interfaces[d])
      BY DEF AgainInv, Told
    <3>2. \A i : DOMAIN Rest(i) = DOMAIN i
      BY DEF Rest
    <3>3. DOMAIN results[t].device = DOMAIN interfaces[d]
      BY <3>1, <3>2
    <3> QED
      BY <3>1, <3>3 DEF Lagged
  <2> HIDE DEF d, ms, ifs
  <2>7. StandInLag(ms, ifs)
    <3> SUFFICES ASSUME NEW m \in ms, HasLag(m), OnePorts(ms, m), NEW q \in ToSet(m.pair.ports)
                 PROVE  ifs[Physical(q)].lag = LagOf(m)
      BY DEF StandInLag
    <3>1. StageInv("direct", d, {}, {}, ms) /\ MadeAs(d, m)
      BY <2>5 DEF Complete, WorkStages, AllMadeAs
    <3>2. m.stage = "direct"
      BY <3>1 DEF MadeAs, Unfit, HasLag
    <3>3. DirectPair(d, m.pair)
      BY <3>1, <3>2 DEF StageInv, DirectPair
    <3>4. ASSUME NEW x, DirectPair(d, x) PROVE \E y \in ms : y.pair = x
      <4>1. PICK b : Active("direct", d, b) /\ From("direct", d, {}, x, b)
        BY <3>4 DEF DirectPair, Sound
      <4>2. PICK y \in ms : From("direct", d, {}, y.pair, b)
        <5>1. ~InPairs("direct", d, {}, {}, b)
          BY DEF InPairs
        <5> QED
          BY <3>1, <4>1, <5>1 DEF StageInv, InMade
      <4> QED
        BY <4>1, <4>2, FromSame
    <3>5. AgreedPorts(d, m.pair)
      BY <3>4 DEF AgreedPorts, OnePorts, HasLag, Lagging
    <3>6. LagOf(m) \in DOMAIN ifs /\ LagOf(m) = LagName(m.pair) /\ Lagging(m.pair)
      BY <2>6 DEF Lagged, LagOf, LagName, HasLag, Lagging
    <3> QED
      BY <2>5, <3>3, <3>5, <3>6 DEF LagsLast
  <2> QED
    BY <2>1, <2>2, <2>7 DEF d, ms, ifs
<1> QED
  BY <1>1, StandInvHolds, WorkInvHolds, AgainInvHolds, LastInvHolds, PTL

=============================================================================
