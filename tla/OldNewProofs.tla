---------------------------- MODULE OldNewProofs ----------------------------
(***************************************************************************)
(* Proofs about old_new: any devices, sources, generators and arguments.   *)
(***************************************************************************)
EXTENDS OldNewProps, GenerationFacts

-----------------------------------------------------------------------------
(* The loop keeps its promise, for any devices, sources and arguments.  What   *)
(* a step does to the loop: it goes on with the device, ends it with a     *)
(* verdict, or goes to the next one.                                       *)
Working == {"read", "partial", "files"}

GoesOn     == pc \in Working /\ pc' \in Working /\ UNCHANGED <<at, src, args, verdict>>
Decides(v) == /\ pc \in Working
              /\ pc' = IF v = "raised" THEN "raised" ELSE "yield"
              /\ verdict' = [verdict EXCEPT ![at] = v]
              /\ UNCHANGED <<at, src, args>>
LoopStep   == \/ GoesOn
              \/ \E v \in {"result", "error", "raised"} : Decides(v)
              \/ NextDevice
              \/ UNCHANGED vars

(* Each action is one of these steps, and k stays a number.                *)
LEMMA StepsOfLoop == k \in Nat /\ [Next]_vars => LoopStep /\ k' \in Nat
<1> SUFFICES ASSUME k \in Nat, [Next]_vars PROVE LoopStep /\ k' \in Nat
  OBVIOUS
<1>1. CASE ReadConfig
  BY <1>1 DEF ReadConfig, Finish, LoopStep, GoesOn, Decides, Working
<1>2. CASE RunPartial
  BY <1>2 DEF RunPartial, Raise, LoopStep, GoesOn, Decides, Working
<1>3. CASE Merge
  <2>1. /\ pc = "partial" /\ UNCHANGED <<args, at, src>>
        /\ (Raise /\ UNCHANGED k) \/ StartFiles
    BY <1>3, ZenonT(30) DEF Merge
  <2> QED
    BY <2>1 DEF StartFiles, Raise, LoopStep, GoesOn, Decides, Working
<1>4. CASE ReadFiles
  BY <1>4 DEF ReadFiles, StartFiles, Finish, Raise, LoopStep, GoesOn, Decides, Working
<1>5. CASE RunFile
  BY <1>5 DEF RunFile, Raise, LoopStep, GoesOn, Decides, Working
<1>6. CASE MakeFiles
  BY <1>6 DEF MakeFiles, Finish, LoopStep, GoesOn, Decides, Working
<1>7. CASE NextDevice
  BY <1>7 DEF NextDevice, LoopStep
<1>8. CASE Ended \/ UNCHANGED vars
  BY <1>8 DEF Ended, vars, LoopStep
<1> QED
  BY <1>1, <1>2, <1>3, <1>4, <1>5, <1>6, <1>7, <1>8 DEF Next

(* The types hold, so the verdicts of the devices passed are made, and     *)
(* those of the devices to come are not.                                   *)
THEOREM TypeCorrect == Spec => []TypeOK
<1>1. Init => TypeOK
  BY DevicesAssumption DEF Init, TypeOK
<1>2. TypeOK /\ [Next]_vars => TypeOK'
  <2> SUFFICES ASSUME TypeOK, [Next]_vars PROVE TypeOK'
    OBVIOUS
  <2>1. LoopStep /\ k' \in Nat
    BY StepsOfLoop DEF TypeOK
  <2>2. CASE GoesOn
    BY <2>1, <2>2 DEF TypeOK, GoesOn, Working
  <2>3. ASSUME NEW v \in {"result", "error", "raised"}, Decides(v) PROVE TypeOK'
    BY <2>1, <2>3, DevicesAssumption DEF TypeOK, Decides, Working
  <2>4. CASE NextDevice
    BY <2>1, <2>4, DevicesAssumption DEF TypeOK, NextDevice
  <2>5. CASE UNCHANGED vars
    BY <2>5 DEF TypeOK, vars
  <2> QED
    BY <2>1, <2>2, <2>3, <2>4, <2>5 DEF LoopStep
<1> QED
  BY <1>1, <1>2, PTL DEF Spec

(* The loop implements its promise: every step decides the device the loop *)
(* is at, which has no verdict yet while all before it have, or none.      *)
THEOREM PromiseKept == Spec => KeepsPromise
<1>1. Init => Promise!Init
  BY DEF Init, Promise!Init
<1>2. TypeOK /\ [Next]_vars => [Promise!Next]_verdict
  <2> SUFFICES ASSUME TypeOK, [Next]_vars PROVE [Promise!Next]_verdict
    OBVIOUS
  <2>1. LoopStep
    BY StepsOfLoop DEF TypeOK
  <2>2. ASSUME NEW v \in {"result", "error", "raised"}, Decides(v) PROVE Promise!Decide(at)
    BY <2>2, DevicesAssumption DEF TypeOK, Decides, Working, Promise!Decide
  <2>3. CASE GoesOn \/ NextDevice \/ UNCHANGED vars
    BY <2>3 DEF GoesOn, NextDevice, vars
  <2> QED
    BY <2>1, <2>2, <2>3 DEF LoopStep, TypeOK, Promise!Next
<1> QED
  BY <1>1, <1>2, TypeCorrect, PTL DEF Spec, KeepsPromise, Promise!Spec

-----------------------------------------------------------------------------
(* --acl-safe.  What has been merged stays what it was merged from.        *)
Within == \A r \in ToSet(results) : r.safeConfig \subseteq r.config

MergedFrom ==
    LET full == WithImplicit(Tree(results, FALSE))
        part == WithImplicit(Tree(results, TRUE))
    IN /\ cfg.new = IF args.noAcl THEN full ELSE Applied(full, AclOf(results))
       /\ IF ~args.noAcl /\ args.aclSafe
          THEN /\ cfg.safeOld = Applied(cfg.old, SafeAclOf(results))
               /\ cfg.safeNew = Applied(part, SafeAclOf(results))
          ELSE cfg.safeOld = {}

SafeInv ==
    /\ Listed(results) /\ Within
    /\ pc = "read" => results = <<>>
    /\ Generated /\ Unfiltered => MergedFrom

LEMMA SafePart ==
    ASSUME NEW g
    PROVE  PartialResult(g).safeConfig \subseteq PartialResult(g).config
BY DEF PartialResult, Applied

(* A result takes the place of another of its name, or comes after them.   *)
OwnNames(rs) == \A i, j \in DOMAIN rs : rs[i].name = rs[j].name => i = j

LEMMA ResultAdded ==
    ASSUME NEW rs, Listed(rs), NEW r
    PROVE  LET new == AddByName(rs, r)
           IN /\ Listed(new) /\ r \in ToSet(new)
              /\ \A q \in ToSet(new) : q = r \/ (q \in ToSet(rs) /\ q.name # r.name)
              /\ \A q \in ToSet(rs) : q.name # r.name => q \in ToSet(new)
              /\ OwnNames(rs) => OwnNames(new)
<1>1. Len(rs) \in Nat /\ DOMAIN rs = 1 .. Len(rs) /\ \A q : q \in ToSet(rs) <=> \E i \in 1 .. Len(rs) : q = rs[i]
  BY ListIs
<1>2. CASE \E i \in DOMAIN rs : rs[i].name = r.name
  <2> DEFINE new == [i \in DOMAIN rs |-> IF rs[i].name = r.name THEN r ELSE rs[i]]
  <2>1. AddByName(rs, r) = new
    BY <1>2 DEF AddByName
  <2>2. new = [i \in 1 .. Len(rs) |-> new[i]] /\ \A i \in 1 .. Len(rs) : new[i] = IF rs[i].name = r.name THEN r ELSE rs[i]
    BY <1>1
  <2> HIDE DEF new
  <2>3. Listed(new) /\ ToSet(new) = {new[i] : i \in 1 .. Len(rs)} /\ DOMAIN new = 1 .. Len(rs)
    BY <1>1, <2>2, Indexed
  <2>4. \A q : q \in ToSet(new) <=> \E i \in 1 .. Len(rs) : q = new[i]
    BY <2>3
  <2>5. r \in ToSet(new)
    BY <1>1, <1>2, <2>2, <2>4
  <2>6. \A q \in ToSet(new) : q = r \/ (q \in ToSet(rs) /\ q.name # r.name)
    BY <1>1, <2>2, <2>4
  <2>7. \A q \in ToSet(rs) : q.name # r.name => q \in ToSet(new)
    BY <1>1, <2>2, <2>4
  <2>8. \A i \in 1 .. Len(rs) : new[i].name = rs[i].name
    BY <2>2
  <2>9. OwnNames(rs) => OwnNames(new)
    BY <1>1, <2>3, <2>8 DEF OwnNames
  <2> QED
    BY <2>1, <2>3, <2>5, <2>6, <2>7, <2>9
<1>3. CASE ~ \E i \in DOMAIN rs : rs[i].name = r.name
  <2> DEFINE new == Append(rs, r)
  <2>1. AddByName(rs, r) = new
    BY <1>3 DEF AddByName
  <2>2. Listed(new) /\ ToSet(new) = ToSet(rs) \cup {r}
    BY AppendElements
  <2>3. rs \in Seq(ToSet(rs) \cup {r})
    BY SeqMonotonic DEF Listed
  <2>4. /\ DOMAIN new = 1 .. Len(rs) + 1 /\ new[Len(rs) + 1] = r
        /\ \A i \in 1 .. Len(rs) : new[i] = rs[i]
    BY <1>1, <2>3, AppendProperties
  <2> HIDE DEF new
  <2>5. \A i \in 1 .. Len(rs) : rs[i].name # r.name
    BY <1>1, <1>3
  <2>6. \A q \in ToSet(rs) : q.name # r.name
    BY <1>1, <2>5
  <2>7. OwnNames(rs) => OwnNames(new)
    <3> SUFFICES ASSUME OwnNames(rs), NEW i \in 1 .. Len(rs) + 1, NEW j \in 1 .. Len(rs) + 1, new[i].name = new[j].name
                 PROVE  i = j
      BY <2>4 DEF OwnNames
    <3>1. CASE i \in 1 .. Len(rs) /\ j \in 1 .. Len(rs)
      BY <1>1, <2>4, <3>1 DEF OwnNames
    <3>2. CASE i = Len(rs) + 1 \/ j = Len(rs) + 1
      BY <1>1, <2>4, <2>5, <3>2
    <3> QED
      BY <1>1, <3>1, <3>2
  <2> QED
    BY <2>1, <2>2, <2>6, <2>7
<1> QED
  BY <1>2, <1>3

LEMMA MergeMerges ==
    ASSUME Merge, Generated', Unfiltered
    PROVE  MergedFrom'
<1> DEFINE acl  == AclOf(results)
           safe == SafeAclOf(results)
           full == WithImplicit(Tree(results, FALSE))
           part == WithImplicit(Tree(results, TRUE))
           old  == WithImplicit(cfg.old)
           old1 == IF args.noAcl THEN old ELSE Applied(old, acl)
           new1 == IF args.noAcl THEN full ELSE Applied(full, acl)
           useSafe == ~args.noAcl /\ args.aclSafe
<1>1. UNCHANGED <<args, at, src, results>> /\ ~args.noNew
  BY DEF Merge, Generated
<1>2. cfg' = [old     |-> old1, new |-> new1,
              safeOld |-> IF useSafe THEN Applied(old1, safe) ELSE {},
              safeNew |-> IF useSafe THEN Applied(part, safe) ELSE part]
  BY <1>1 DEF Merge, Generated, Unfiltered, Raise, SafeOld
<1> HIDE DEF acl, safe, full, part, old1, new1
<1>3. /\ cfg'.old = old1 /\ cfg'.new = new1
      /\ cfg'.safeOld = IF useSafe THEN Applied(old1, safe) ELSE {}
      /\ cfg'.safeNew = IF useSafe THEN Applied(part, safe) ELSE part
  BY <1>2
<1>4. /\ AclOf(results)' = acl /\ SafeAclOf(results)' = safe
      /\ WithImplicit(Tree(results, FALSE))' = full /\ WithImplicit(Tree(results, TRUE))' = part
  BY <1>1 DEF acl, safe, full, part, AclOf, SafeAclOf, WithImplicit, Tree, here
<1> QED
  BY <1>1, <1>3, <1>4 DEF MergedFrom, new1, Applied

LEMMA KeepsMerged ==
    ASSUME SafeInv, UNCHANGED <<args, at, src, results, cfg>>,
           pc' = "raised" \/ pc' = "partial" \/ (pc = "files" /\ pc' \in {"files", "yield"}) \/ results = <<>> \/ pc' = pc,
           pc' = "read" => pc = "read"
    PROVE  SafeInv'
<1>1. here' = here
  BY DEF here
<1>2. AclOf(results)' = AclOf(results) /\ SafeAclOf(results)' = SafeAclOf(results)
  BY DEF AclOf, SafeAclOf
<1>3. \A b : WithImplicit(Tree(results, b))' = WithImplicit(Tree(results, b))
  BY <1>1 DEF WithImplicit, Tree
<1>4. MergedFrom' <=> MergedFrom
  BY <1>2, <1>3 DEF MergedFrom, Applied
<1>5. Generated' /\ Unfiltered' => Generated /\ Unfiltered
  BY DEF Generated, Unfiltered
<1> QED
  BY <1>4, <1>5 DEF SafeInv, Within

(* The part of the configuration that is from safe acls is within the rest *)
(* of it, at every step of a device's generation.                          *)
THEOREM SafeInvHolds == Spec => []SafeInv
<1>1. Init => SafeInv
  BY NoElements DEF Init, SafeInv, Within, Generated
<1>2. SafeInv /\ [Next]_vars => SafeInv'
  <2> SUFFICES ASSUME SafeInv, [Next]_vars PROVE SafeInv'
    OBVIOUS
  <2>1. CASE ReadConfig
    <3>1. results' = <<>> /\ pc' # "read"
      BY <2>1 DEF ReadConfig, Finish, SafeInv
    <3>2. ~Generated'
      BY <3>1 DEF Generated
    <3> QED
      BY <3>1, <3>2, NoElements DEF SafeInv, Within
  <2>2. CASE RunPartial
    <3> DEFINE r == PartialResult(gens[k + 1])
    <3>1. pc' \in {"partial", "raised"} /\ (results' = results \/ results' = AddByName(results, r))
      BY <2>2 DEF RunPartial, Raise
    <3>2. r.safeConfig \subseteq r.config
      BY SafePart
    <3> HIDE DEF r
    <3>3. Listed(results') /\ ToSet(results') \subseteq ToSet(results) \cup {r}
      BY <3>1, ResultAdded DEF SafeInv
    <3>4. ~Generated'
      BY <3>1 DEF Generated
    <3> QED
      BY <3>1, <3>2, <3>3, <3>4 DEF SafeInv, Within
  <2>3. CASE Merge
    <3>1. results' = results /\ args' = args /\ pc' # "read"
      BY <2>3 DEF Merge, Raise, StartFiles
    <3>2. Generated' /\ Unfiltered' => MergedFrom'
      BY <2>3, <3>1, MergeMerges DEF Unfiltered
    <3> QED
      BY <3>1, <3>2 DEF SafeInv, Within
  <2>4. CASE ReadFiles
    <3>1. results' = <<>> /\ pc' # "read"
      BY <2>4 DEF ReadFiles, StartFiles, Raise, Finish, SafeInv
    <3>2. ~Generated'
      BY <3>1 DEF Generated
    <3> QED
      BY <3>1, <3>2, NoElements DEF SafeInv, Within
  <2>5. CASE RunFile
    <3>1. pc = "files" /\ pc' \in {"files", "raised"} /\ UNCHANGED <<args, at, src, results, cfg>>
      BY <2>5 DEF RunFile, Raise
    <3> QED
      BY <3>1, KeepsMerged
  <2>6. CASE MakeFiles
    <3>1. pc = "files" /\ pc' = "yield" /\ UNCHANGED <<args, at, src, results, cfg>>
      BY <2>6 DEF MakeFiles, Finish
    <3> QED
      BY <3>1, KeepsMerged
  <2>7. CASE NextDevice
    <3>1. results' = <<>>
      BY <2>7 DEF NextDevice
    <3>2. ~Generated'
      BY <3>1 DEF Generated
    <3> QED
      BY <3>1, <3>2, NoElements DEF SafeInv, Within
  <2>8. CASE Ended \/ UNCHANGED vars
    <3>1. UNCHANGED <<args, at, src, results, cfg, pc>>
      BY <2>8 DEF Ended, vars
    <3> QED
      BY <3>1, KeepsMerged
  <2> QED
    BY <2>1, <2>2, <2>3, <2>4, <2>5, <2>6, <2>7, <2>8 DEF Next
<1> QED
  BY <1>1, <1>2, PTL DEF Spec

(* A default that the whole tree has the safe tree has, unless a row that  *)
(* takes its place is not safe.                                            *)
Missing(rows) == {i \in here.implicit : ~i.ignore /\ ~\E row \in rows : row.word \in i.words}

LEMMA ImplicitRows ==
    ASSUME NEW rows, NEW row
    PROVE  row \in WithImplicit(rows) <=> row \in rows \/ (args.addImplicit /\ \E i \in Missing(rows) : row = i.row)
BY DEF WithImplicit, Missing

LEMMA Trees ==
    ASSUME Within
    PROVE  /\ \A row : row \in Tree(results, FALSE) <=> \E r \in ToSet(results) : row \in r.config
           /\ \A row : row \in Tree(results, TRUE) <=> \E r \in ToSet(results) : row \in r.safeConfig
           /\ Tree(results, TRUE) \subseteq Tree(results, FALSE)
BY DEF Within, Tree

LEMMA DeletesWithin ==
    ASSUME Within, MergedFrom
    PROVE  SafeDeletes
<1> DEFINE full == Tree(results, FALSE)
           part == Tree(results, TRUE)
           acl  == AclOf(results)
           safe == SafeAclOf(results)
<1> SUFFICES ASSUME NEW row \in cfg.safeOld, row \notin cfg.safeNew, row \notin cfg.old \ cfg.new
             PROVE  \E r \in ToSet(results) : row \in r.config \ r.safeConfig
  BY DEF SafeDeletes
<1>1. /\ cfg.new = Applied(WithImplicit(full), acl)
      /\ cfg.safeOld = Applied(cfg.old, safe) /\ cfg.safeNew = Applied(WithImplicit(part), safe)
  BY DEF MergedFrom
<1>2. /\ row \in WithImplicit(full) <=> (row \in full \/ (args.addImplicit /\ \E i \in Missing(full) : row = i.row))
      /\ row \in WithImplicit(part) <=> (row \in part \/ (args.addImplicit /\ \E i \in Missing(part) : row = i.row))
  BY ImplicitRows
<1>3. /\ \A x : x \in full <=> \E r \in ToSet(results) : x \in r.config
      /\ \A x : x \in part <=> \E r \in ToSet(results) : x \in r.safeConfig
      /\ part \subseteq full
  BY Trees
<1> HIDE DEF full, part, acl, safe
<1>4. row \in WithImplicit(full) /\ row \notin WithImplicit(part)
  BY <1>1 DEF Applied
<1>5. \A i \in Missing(full) : i \in Missing(part)
  BY <1>3 DEF Missing
<1>6. row \in full /\ row \notin part
  BY <1>2, <1>4, <1>5
<1> QED
  BY <1>3, <1>6

LEMMA AddsWithin ==
    ASSUME Within, MergedFrom, ~args.noAcl, args.aclSafe,
           \A r \in ToSet(results) : \A row \in r.config \ cfg.new : \E s \in ToSet(results) : Forbids(s, row)
    PROVE  SafeAdds
<1> DEFINE full == Tree(results, FALSE)
           part == Tree(results, TRUE)
           acl  == AclOf(results)
           safe == SafeAclOf(results)
<1> SUFFICES ASSUME NEW row \in cfg.safeNew, row \notin cfg.safeOld, row \notin cfg.new \ cfg.old,
                    ~ \E r \in ToSet(results) : Forbids(r, row)
             PROVE  \E i \in here.implicit :
                        /\ i.row = row
                        /\ \/ ~Passes(row, acl)
                           \/ \E r \in ToSet(results) : \E x \in r.config \ r.safeConfig : x.word \in i.words
  BY DEF SafeAdds
<1>1. /\ cfg.new = Applied(WithImplicit(full), acl)
      /\ cfg.safeOld = Applied(cfg.old, safe) /\ cfg.safeNew = Applied(WithImplicit(part), safe)
  BY DEF MergedFrom
<1>2. /\ row \in WithImplicit(full) <=> (row \in full \/ (args.addImplicit /\ \E i \in Missing(full) : row = i.row))
      /\ row \in WithImplicit(part) <=> (row \in part \/ (args.addImplicit /\ \E i \in Missing(part) : row = i.row))
  BY ImplicitRows
<1>3. /\ \A x : x \in full <=> \E r \in ToSet(results) : x \in r.config
      /\ \A x : x \in part <=> \E r \in ToSet(results) : x \in r.safeConfig
      /\ part \subseteq full
  BY Trees
<1> HIDE DEF full, part, acl, safe
<1>4. row \in WithImplicit(part) /\ row \notin cfg.old /\ row \notin cfg.new
  BY <1>1 DEF Applied
<1>5. row \notin full
  BY <1>3, <1>4
<1>6. PICK i \in Missing(part) : row = i.row /\ args.addImplicit
  BY <1>2, <1>3, <1>4, <1>5
<1>7. i \in here.implicit /\ ~i.ignore /\ ~ \E x \in part : x.word \in i.words
  BY <1>6 DEF Missing
<1>8. ASSUME Passes(row, acl)
      PROVE  \E r \in ToSet(results) : \E x \in r.config \ r.safeConfig : x.word \in i.words
  <2>1. i \notin Missing(full)
    BY <1>1, <1>2, <1>4, <1>6, <1>8 DEF Applied
  <2>2. PICK x \in full : x.word \in i.words
    BY <1>7, <2>1 DEF Missing
  <2>3. PICK r \in ToSet(results) : x \in r.config
    BY <1>3, <2>2
  <2>4. x \notin r.safeConfig
    BY <1>3, <1>7, <2>2
  <2> QED
    BY <2>2, <2>3, <2>4
<1> QED
  BY <1>6, <1>7, <1>8

(* What --acl-safe deletes the full run deletes, unless another generator  *)
(* yields the row outside of its own safe acl: for any generators, acls,   *)
(* configurations and arguments.                                           *)
THEOREM SafeRunDeletes == Spec => [](Generated /\ Unfiltered => SafeDeletes)
<1>1. SafeInv => (Generated /\ Unfiltered => SafeDeletes)
  BY DeletesWithin DEF SafeInv
<1> QED
  BY <1>1, SafeInvHolds, PTL

-----------------------------------------------------------------------------
(* Lists in the order of their keys have the elements they had: no two     *)
(* places have equally many ahead of them.                                 *)
LEMMA PlacesTaken ==
    ASSUME NEW n \in Nat, NEW keys \in [1 .. n -> Int]
    PROVE  \A m \in 1 .. n : \E j \in 1 .. n : Cardinality(Ahead(keys, j)) = m - 1
<1> DEFINE rank == [j \in 1 .. n |-> Cardinality(Ahead(keys, j))]
           low  == 0 .. n - 1
<1>1. \A j \in 1 .. n : Ahead(keys, j) = {i \in 1 .. n : keys[i] < keys[j] \/ (keys[i] = keys[j] /\ i < j)}
  BY DEF Ahead
<1>2. /\ IsFiniteSet(1 .. n) /\ Cardinality(1 .. n) = n
      /\ IsFiniteSet(low) /\ Cardinality(low) = n
  BY FS_Interval
<1>3. ASSUME NEW j \in 1 .. n
      PROVE  IsFiniteSet(Ahead(keys, j)) /\ Cardinality(Ahead(keys, j)) \in Nat /\ Cardinality(Ahead(keys, j)) <= n - 1
  <2>1. IsFiniteSet((1 .. n) \ {j}) /\ Cardinality((1 .. n) \ {j}) = n - 1
    BY <1>2, FS_RemoveElement
  <2>2. Ahead(keys, j) \in SUBSET ((1 .. n) \ {j})
    BY <1>1
  <2>3. IsFiniteSet(Ahead(keys, j)) /\ Cardinality(Ahead(keys, j)) <= n - 1
    BY <2>1, <2>2, FS_Subset
  <2> QED
    BY <2>3, FS_CardinalityType
<1>4. ASSUME NEW i \in 1 .. n, NEW j \in 1 .. n, i \in Ahead(keys, j)
      PROVE  Cardinality(Ahead(keys, i)) < Cardinality(Ahead(keys, j))
  <2>1. /\ IsFiniteSet(Ahead(keys, j) \ {i})
        /\ Cardinality(Ahead(keys, j) \ {i}) = Cardinality(Ahead(keys, j)) - 1
    BY <1>3, <1>4, FS_RemoveElement
  <2>2. Ahead(keys, i) \in SUBSET (Ahead(keys, j) \ {i})
    BY <1>1, <1>4
  <2>3. Cardinality(Ahead(keys, i)) <= Cardinality(Ahead(keys, j)) - 1
    BY <2>1, <2>2, FS_Subset
  <2> QED
    BY <1>3, <2>3
<1>5. rank \in [1 .. n -> low]
  BY <1>3
<1>6. ASSUME NEW i \in 1 .. n, NEW j \in 1 .. n, i # j PROVE rank[i] # rank[j]
  <2>1. i \in Ahead(keys, j) \/ j \in Ahead(keys, i)
    BY <1>1, <1>6
  <2>2. /\ i \in Ahead(keys, j) => Cardinality(Ahead(keys, i)) < Cardinality(Ahead(keys, j))
        /\ j \in Ahead(keys, i) => Cardinality(Ahead(keys, j)) < Cardinality(Ahead(keys, i))
    BY <1>4
  <2> QED
    BY <1>3, <2>1, <2>2
<1>7. rank \in Injection(1 .. n, low)
  BY <1>5, <1>6 DEF Injection, IsInjective
<1>8. rank \in Surjection(1 .. n, low)
  BY <1>2, <1>7, FS_Injection
<1>9. \A m \in 1 .. n : \E j \in 1 .. n : rank[j] = m - 1
  <2> SUFFICES ASSUME NEW m \in 1 .. n PROVE \E j \in 1 .. n : rank[j] = m - 1
    OBVIOUS
  <2>1. m - 1 \in low
    OBVIOUS
  <2> QED
    BY <1>8, <2>1 DEF Surjection
<1> QED
  BY <1>9

(* A sorted list has the elements of the list.                             *)
LEMMA OrderTaken ==
    ASSUME NEW those, Listed(those), NEW keys, keys = [i \in DOMAIN those |-> keys[i]],
           \A i \in DOMAIN those : keys[i] \in Int
    PROVE  LET sorted == [p \in DOMAIN those |-> those[CHOOSE j \in DOMAIN those : Cardinality(Ahead(keys, j)) = p - 1]]
           IN Listed(sorted) /\ ToSet(sorted) \subseteq ToSet(those)
<1> DEFINE m      == Len(those)
           Place(p) == CHOOSE j \in DOMAIN those : Cardinality(Ahead(keys, j)) = p - 1
           sorted == [p \in DOMAIN those |-> those[Place(p)]]
<1>1. m \in Nat /\ DOMAIN those = 1 .. m /\ ToSet(those) = {those[i] : i \in 1 .. m}
  BY ListIs
<1> HIDE DEF m
<1>2. keys \in [1 .. m -> Int]
  BY <1>1
<1>3. \A p \in 1 .. m : \E j \in 1 .. m : Cardinality(Ahead(keys, j)) = p - 1
  BY <1>1, <1>2, PlacesTaken
<1>4. \A p \in 1 .. m : Place(p) \in 1 .. m
  BY <1>1, <1>3
<1> HIDE DEF Place
<1>5. sorted = [p \in 1 .. m |-> sorted[p]] /\ \A p \in 1 .. m : sorted[p] \in ToSet(those)
  BY <1>1, <1>4
<1> HIDE DEF sorted
<1>6. Listed(sorted) /\ ToSet(sorted) = {sorted[p] : p \in 1 .. m}
  BY <1>1, <1>5, Indexed
<1>7. ToSet(sorted) \subseteq ToSet(those)
  BY <1>5, <1>6
<1> QED
  BY <1>6, <1>7 DEF sorted, Place

LEMMA GeneratorsBuilt ==
    ASSUME NEW classes, Listed(classes), \A g \in ToSet(classes) : g.name \in Int
    PROVE  Listed(BuildGenerators(classes)) /\ ToSet(BuildGenerators(classes)) \subseteq ToSet(classes)
<1> DEFINE wanted == {g \in ToSet(classes) : Selected(g)}
           those  == FlattenSeq([i \in DOMAIN classes |-> IF Selected(classes[i]) THEN <<classes[i]>> ELSE <<>>])
           keys   == [i \in DOMAIN those |-> those[i].name]
           sorted == [p \in DOMAIN those |-> those[CHOOSE j \in DOMAIN those : Cardinality(Ahead(keys, j)) = p - 1]]
<1>1. BuildGenerators(classes) = sorted
  BY DEF BuildGenerators, SortedBy, Those, Collect
<1>2. DOMAIN classes = 1 .. Len(classes) /\ ToSet(classes) = {classes[i] : i \in 1 .. Len(classes)}
  BY ListIs
<1>3. those = FlattenSeq([i \in DOMAIN classes |-> IF classes[i] \in wanted THEN <<classes[i]>> ELSE <<>>])
  <2>1. \A i \in DOMAIN classes : classes[i] \in wanted <=> Selected(classes[i])
    BY <1>2
  <2>2. [i \in DOMAIN classes |-> IF Selected(classes[i]) THEN <<classes[i]>> ELSE <<>>]
            = [i \in DOMAIN classes |-> IF classes[i] \in wanted THEN <<classes[i]>> ELSE <<>>]
    BY <2>1
  <2> QED
    BY <2>2
<1>4. Listed(those) /\ ToSet(those) = ToSet(classes) \cap wanted
  <2> HIDE DEF wanted, those
  <2> QED
    BY <1>3, Chosen
<1> HIDE DEF those
<1>5. keys = [i \in DOMAIN those |-> keys[i]] /\ \A i \in DOMAIN those : keys[i] \in Int
  BY <1>4 DEF ToSet
<1> HIDE DEF keys
<1>6. Listed(sorted) /\ ToSet(sorted) \subseteq ToSet(those)
  BY <1>4, <1>5, OrderTaken
<1> QED
  BY <1>1, <1>4, <1>6

LEMMA EntireBuilt ==
    ASSUME NEW classes, Listed(classes), \A g \in ToSet(classes) : g.name \in Int /\ g.prio \in Int
    PROVE  Listed(BuildEntire(classes)) /\ ToSet(BuildEntire(classes)) \subseteq ToSet(classes)
<1> DEFINE those  == BuildGenerators(classes)
           keys   == [i \in DOMAIN those |-> -those[i].prio]
           sorted == [p \in DOMAIN those |-> those[CHOOSE j \in DOMAIN those : Cardinality(Ahead(keys, j)) = p - 1]]
<1>1. BuildEntire(classes) = sorted
  BY DEF BuildEntire, SortedBy
<1>2. Listed(those) /\ ToSet(those) \subseteq ToSet(classes)
  BY GeneratorsBuilt
<1> HIDE DEF those
<1>3. keys = [i \in DOMAIN those |-> keys[i]] /\ \A i \in DOMAIN those : keys[i] \in Int
  BY <1>2 DEF ToSet
<1> HIDE DEF keys
<1>4. Listed(sorted) /\ ToSet(sorted) \subseteq ToSet(those)
  BY <1>2, <1>3, OrderTaken
<1> QED
  BY <1>1, <1>2, <1>4

-----------------------------------------------------------------------------
(* The rules of the generators, each under the name of its own.            *)
LEMMA NamedIs ==
    ASSUME NEW rules, Listed(rules), \A r \in ToSet(rules) : IsRule(r), NEW gen
    PROVE  LET named == Named(rules, gen)
           IN /\ Listed(named) /\ DOMAIN named = DOMAIN rules
              /\ \A i \in DOMAIN rules : IsRule(named[i]) /\ CopyOf(rules[i], named[i], gen)
              /\ \A q \in ToSet(named) : \E i \in DOMAIN rules : q = named[i]
<1> DEFINE named == Named(rules, gen)
           n     == Len(rules)
           Mark(i) == <<[gen |-> gen, keep |-> rules[i].owners[1].keep]>>
<1>1. n \in Nat /\ DOMAIN rules = 1 .. n /\ \A i \in 1 .. n : IsRule(rules[i])
  BY ListIs
<1>2. named = [i \in 1 .. n |-> [rules[i] EXCEPT !.owners = Mark(i)]]
  BY <1>1 DEF Named
<1>3. \A i \in 1 .. n : IsList(Mark(i)) /\ Len(Mark(i)) = 1 /\ Mark(i)[1].gen = gen /\ Mark(i)[1].keep = rules[i].owners[1].keep
  <2> SUFFICES ASSUME NEW i \in 1 .. n
               PROVE  IsList(Mark(i)) /\ Len(Mark(i)) = 1 /\ Mark(i)[1].gen = gen /\ Mark(i)[1].keep = rules[i].owners[1].keep
    OBVIOUS
  <2>1. IsList(Mark(i))
    BY OneElement DEF Listed, IsList
  <2> QED
    BY <2>1
<1> HIDE DEF Mark
<1>4. ASSUME NEW i \in 1 .. n PROVE IsRule(named[i]) /\ CopyOf(rules[i], named[i], gen)
  <2>1. named[i] = [rules[i] EXCEPT !.owners = Mark(i)]
    BY <1>2
  <2>2. DOMAIN rules[i] = {"pat", "words", "undo", "sim", "prio", "global", "ignore", "owners", "kids"}
    BY <1>1 DEF IsRule
  <2>3. /\ named[i].owners = Mark(i) /\ DOMAIN named[i] = DOMAIN rules[i]
        /\ named[i].pat = rules[i].pat /\ named[i].words = rules[i].words /\ named[i].undo = rules[i].undo
        /\ named[i].sim = rules[i].sim /\ named[i].prio = rules[i].prio /\ named[i].ignore = rules[i].ignore
    BY <2>1, <2>2
  <2> QED
    BY <1>1, <1>3, <2>3 DEF IsRule, CopyOf
<1>5. named = [i \in 1 .. n |-> named[i]]
  BY <1>2
<1> HIDE DEF named
<1>6. Listed(named) /\ DOMAIN named = 1 .. n /\ ToSet(named) = {named[i] : i \in 1 .. n}
  BY <1>1, <1>5, Indexed
<1> QED
  BY <1>1, <1>4, <1>6 DEF named

(* What is in store: lists of generators whose patterns agree.             *)
IsSource(s) ==
    /\ Listed(s.partial) /\ Listed(s.refs) /\ \A g \in GeneratorsOf(s) : IsGenerator(g)
    /\ \A r, q \in RulesOf(s) : r.pat = q.pat => r.words = q.words /\ r.sim = q.sim
Known(g)     == \E h \in GeneratorsOf(here) : g.acl = h.acl

LEMMA HereIsSource == TypeOK => IsSource(here)
BY StoreAssumption DEF TypeOK, IsSource, Listed, IsList, here

LEMMA AclsTogether ==
    ASSUME IsSource(here), Listed(results), OwnNames(results), \A r \in ToSet(results) : Known(r)
    PROVE  LET all == FlattenSeq([i \in DOMAIN results |-> Named(results[i].acl, results[i].name)])
           IN /\ WellFormed(all)
              /\ \A r \in ToSet(results) : WellFormed(r.acl) /\ Among(r.acl, all, r.name) /\ ToSet(r.acl) \subseteq RulesOf(here)
              /\ \A q \in ToSet(all) : \E r \in ToSet(results) : \E i \in DOMAIN r.acl : CopyOf(r.acl[i], q, r.name)
<1> DEFINE n     == Len(results)
           parts == [i \in DOMAIN results |-> Named(results[i].acl, results[i].name)]
           all   == FlattenSeq(parts)
<1>1. n \in Nat /\ DOMAIN results = 1 .. n /\ \A r : r \in ToSet(results) <=> \E i \in 1 .. n : r = results[i]
  BY ListIs
<1>2. ASSUME NEW r \in ToSet(results)
      PROVE  /\ Listed(r.acl) /\ (\A q \in ToSet(r.acl) : IsRule(q))
             /\ ToSet(r.acl) \subseteq RulesOf(here)
  <2>1. PICK h \in GeneratorsOf(here) : r.acl = h.acl
    BY DEF Known
  <2>2. IsGenerator(h)
    BY DEF IsSource
  <2> QED
    BY <2>1, <2>2 DEF IsGenerator, RulesOf, IsList, Listed
<1>3. \A r \in ToSet(results) : WellFormed(r.acl)
  BY <1>2 DEF WellFormed, IsSource
<1>4. ASSUME NEW i \in 1 .. n
      PROVE  LET r == results[i]
             IN /\ Listed(parts[i]) /\ DOMAIN parts[i] = DOMAIN r.acl
                /\ \A j \in DOMAIN r.acl : IsRule(parts[i][j]) /\ CopyOf(r.acl[j], parts[i][j], r.name)
                /\ \A q \in ToSet(parts[i]) : \E j \in DOMAIN r.acl : q = parts[i][j]
  <2>1. results[i] \in ToSet(results) /\ parts[i] = Named(results[i].acl, results[i].name)
    BY <1>1
  <2>2. Listed(results[i].acl) /\ \A q \in ToSet(results[i].acl) : IsRule(q)
    BY <1>2, <2>1
  <2> QED
    BY <2>1, <2>2, NamedIs
<1>5. parts = [i \in 1 .. n |-> parts[i]]
  BY <1>1
<1> HIDE DEF parts
<1>6. Listed(all) /\ ToSet(all) = UNION {ToSet(parts[i]) : i \in 1 .. n}
  BY <1>1, <1>4, <1>5, Collected
<1>7. \A q : q \in ToSet(all) <=> \E i \in 1 .. n : q \in ToSet(parts[i])
  BY <1>6
<1> HIDE DEF all
<1>8. \A q \in ToSet(all) : IsRule(q) /\ \E i \in 1 .. n : \E j \in DOMAIN results[i].acl :
          q = parts[i][j] /\ CopyOf(results[i].acl[j], q, results[i].name)
  <2> SUFFICES ASSUME NEW q \in ToSet(all)
               PROVE  IsRule(q) /\ \E i \in 1 .. n : \E j \in DOMAIN results[i].acl :
                          q = parts[i][j] /\ CopyOf(results[i].acl[j], q, results[i].name)
    OBVIOUS
  <2>1. PICK i \in 1 .. n : q \in ToSet(parts[i])
    BY <1>7
  <2>2. PICK j \in DOMAIN results[i].acl : q = parts[i][j]
    BY <1>4, <2>1
  <2>3. IsRule(q) /\ CopyOf(results[i].acl[j], q, results[i].name)
    BY <1>4, <2>2
  <2> QED
    BY <2>2, <2>3
<1>9. \A q \in ToSet(all) : \E i \in 1 .. n : \E j \in DOMAIN results[i].acl : CopyOf(results[i].acl[j], q, results[i].name)
  BY <1>8
<1>10. \A q \in ToSet(all) : \E r \in RulesOf(here) : q.pat = r.pat /\ q.words = r.words /\ q.sim = r.sim
  <2> SUFFICES ASSUME NEW q \in ToSet(all)
               PROVE  \E r \in RulesOf(here) : q.pat = r.pat /\ q.words = r.words /\ q.sim = r.sim
    OBVIOUS
  <2>1. PICK i \in 1 .. n : \E j \in DOMAIN results[i].acl : CopyOf(results[i].acl[j], q, results[i].name)
    BY <1>9
  <2>2. PICK j \in DOMAIN results[i].acl : CopyOf(results[i].acl[j], q, results[i].name)
    BY <2>1
  <2>3. results[i] \in ToSet(results) /\ results[i].acl[j] \in ToSet(results[i].acl)
    BY <1>1, <1>2, ListIs
  <2> QED
    BY <1>2, <2>2, <2>3 DEF CopyOf
<1>11. WellFormed(all)
  <2>1. \A r, q \in ToSet(all) : r.pat = q.pat => r.words = q.words /\ r.sim = q.sim
    BY <1>10 DEF IsSource
  <2> QED
    BY <1>6, <1>8, <2>1 DEF WellFormed
<1>12. ASSUME NEW r \in ToSet(results) PROVE Among(r.acl, all, r.name)
  <2>1. PICK i \in 1 .. n : r = results[i]
    BY <1>1
  <2>2. DOMAIN all = 1 .. Len(all) /\ ToSet(all) = {all[l] : l \in 1 .. Len(all)}
    BY <1>6, ListIs
  <2>3. ASSUME NEW j \in DOMAIN r.acl PROVE \E l \in DOMAIN all : CopyOf(r.acl[j], all[l], r.name)
    <3>1. CopyOf(r.acl[j], parts[i][j], r.name) /\ Listed(parts[i]) /\ j \in DOMAIN parts[i]
      BY <1>4, <2>1
    <3>2. parts[i][j] \in ToSet(parts[i])
      BY <3>1 DEF ToSet
    <3>3. parts[i][j] \in ToSet(all)
      BY <1>7, <3>2
    <3> QED
      BY <2>2, <3>1, <3>3
  <2>4. ASSUME NEW l \in DOMAIN all, all[l].owners[1].gen = r.name PROVE \E j \in DOMAIN r.acl : CopyOf(r.acl[j], all[l], r.name)
    <3>1. all[l] \in ToSet(all)
      BY <2>2
    <3>2. PICK m \in 1 .. n : \E j \in DOMAIN results[m].acl : CopyOf(results[m].acl[j], all[l], results[m].name)
      BY <1>9, <3>1
    <3>3. PICK j \in DOMAIN results[m].acl : CopyOf(results[m].acl[j], all[l], results[m].name)
      BY <3>2
    <3>4. results[m].name = results[i].name
      BY <2>1, <2>4, <3>3 DEF CopyOf
    <3>5. m = i
      BY <1>1, <3>4 DEF OwnNames
    <3> QED
      BY <2>1, <3>3, <3>5
  <2> QED
    BY <2>3, <2>4 DEF Among
<1>13. \A q \in ToSet(all) : \E r \in ToSet(results) : \E i \in DOMAIN r.acl : CopyOf(r.acl[i], q, r.name)
  BY <1>1, <1>9
<1> QED
  BY <1>2, <1>3, <1>11, <1>12, <1>13 DEF all, parts

-----------------------------------------------------------------------------
(* Where the results come from.                                            *)
RunsFor(g)  == Known(g) /\ \A row \in g.rows : IsRow(row)
CameFrom(r) ==
    /\ Known(r) /\ r.ok
    /\ \A row \in r.config : IsRow(row) /\ (args.noAcl \/ Passes(row, MergeToplevel(r.acl)))

GenInv ==
    /\ Listed(results) /\ OwnNames(results) /\ \A r \in ToSet(results) : CameFrom(r)
    /\ pc = "read" => results = <<>> /\ refs = {} /\ k = 0
    /\ pc = "partial" => Listed(gens) /\ k \in 0 .. Len(gens) /\ \A g \in ToSet(gens) : RunsFor(g)

LEMMA SameDevice ==
    ASSUME UNCHANGED <<args, at, src>>
    PROVE  /\ here' = here
           /\ \A r : CameFrom(r)' <=> CameFrom(r)
           /\ \A g : RunsFor(g)' <=> RunsFor(g)
<1>1. here' = here
  BY DEF here
<1> QED
  BY <1>1 DEF CameFrom, RunsFor, Known

LEMMA ResultIs ==
    ASSUME NEW g, RunsFor(g)
    PROVE  LET r    == PartialResult(g)
               rows == IF args.noNew THEN {} ELSE g.rows
           IN /\ r.name = g.name /\ r.acl = g.acl
              /\ r.config = IF args.noAcl THEN rows ELSE Applied(rows, MergeToplevel(g.acl))
              /\ r.ok = (args.noAcl \/ ~NotAllowed(rows, MergeToplevel(g.acl)))
              /\ r.ok => CameFrom(r)
BY DEF PartialResult, CameFrom, RunsFor, Known, Applied

(* The reference generators a configuration refers to.                     *)
Called(config, g)   == {row.word : row \in config} \cap g.ref
Extended(config, g) == [g EXCEPT !.rows = @ \cup UNION {g.defs[w] : w \in Called(config, g)}]

LEMMA ReferredIs ==
    ASSUME IsSource(here), NEW config
    PROVE  /\ Listed(RefMatch(config))
           /\ \A m : m \in ToSet(RefMatch(config)) <=>
                 \E g \in ToSet(here.refs) : Called(config, g) # {} /\ m = Extended(config, g)
<1> DEFINE n      == Len(here.refs)
           called == {i \in 1 .. n : Called(config, here.refs[i]) # {}}
           found  == [i \in 1 .. n |-> Extended(config, here.refs[i])]
           parts  == [i \in DOMAIN here.refs |-> IF Called(config, here.refs[i]) = {} THEN <<>>
                                                 ELSE <<Extended(config, here.refs[i])>>]
<1>1. n \in Nat /\ DOMAIN here.refs = 1 .. n /\ \A g : g \in ToSet(here.refs) <=> \E i \in 1 .. n : g = here.refs[i]
  BY ListIs DEF IsSource
<1>2. RefMatch(config) = FlattenSeq(parts)
  BY DEF RefMatch, Collect, Called, Extended
<1>3. /\ parts = [i \in 1 .. n |-> parts[i]]
      /\ \A i \in 1 .. n : parts[i] = IF i \in called THEN <<found[i]>> ELSE <<>>
  BY <1>1
<1>4. \A m : m \in ValuesAt(n, called, found) <=>
               \E i \in 1 .. n : Called(config, here.refs[i]) # {} /\ m = Extended(config, here.refs[i])
  BY DEF ValuesAt
<1> HIDE DEF parts, called, found
<1>5. Listed(FlattenSeq(parts)) /\ ToSet(FlattenSeq(parts)) = ValuesAt(n, called, found)
  BY <1>1, <1>3, Gathered
<1> QED
  BY <1>1, <1>2, <1>4, <1>5

LEMMA ExtendedIs ==
    ASSUME IsSource(here), NEW config, NEW g \in ToSet(here.refs)
    PROVE  LET m == Extended(config, g)
           IN /\ m.name = g.name /\ m.acl = g.acl /\ m.does = g.does
              /\ m.rows = g.rows \cup UNION {g.defs[w] : w \in Called(config, g)}
              /\ RunsFor(m)
<1> DEFINE m == Extended(config, g)
<1>1. IsGenerator(g) /\ g \in GeneratorsOf(here)
  BY DEF IsSource, GeneratorsOf
<1>2. /\ m.name = g.name /\ m.acl = g.acl /\ m.does = g.does
      /\ m.rows = g.rows \cup UNION {g.defs[w] : w \in Called(config, g)}
  BY <1>1 DEF IsGenerator, Extended
<1>3. \A row \in m.rows : IsRow(row)
  BY <1>1, <1>2 DEF IsGenerator, Called
<1> QED
  BY <1>1, <1>2, <1>3 DEF RunsFor, Known

(* A turn of the loop over the partial generators that yields a result.    *)
LEMMA TurnYields ==
    ASSUME TypeOK, GenInv, RunPartial, pc' # "raised", ~Skipped(gens[k + 1])
    PROVE  LET g == gens[k + 1]
               r == PartialResult(g)
           IN /\ RunsFor(g) /\ ~Broken(g) /\ CameFrom(r) /\ r.name = g.name
              /\ gens' = gens \o RefMatch(r.config)
              /\ refs' = refs \cup {[from |-> g.name, to |-> m.name] : m \in ToSet(RefMatch(r.config))}
              /\ results' = AddByName(results, r)
<1> DEFINE g == gens[k + 1]
           r == PartialResult(g)
<1>1. pc = "partial" /\ k < Len(gens)
  BY DEF RunPartial
<1>2. Listed(gens) /\ k \in 0 .. Len(gens) /\ \A h \in ToSet(gens) : RunsFor(h)
  BY <1>1 DEF GenInv
<1>3. k + 1 \in 1 .. Len(gens) /\ g \in ToSet(gens)
  BY <1>1, <1>2, ListIs
<1>4. RunsFor(g)
  BY <1>2, <1>3
<1>5. /\ ~Broken(g) /\ r.ok
      /\ gens' = gens \o RefMatch(r.config)
      /\ refs' = refs \cup {[from |-> g.name, to |-> m.name] : m \in ToSet(RefMatch(r.config))}
      /\ results' = AddByName(results, r)
  BY DEF RunPartial, Raise
<1> QED
  BY <1>4, <1>5, ResultIs

LEMMA GenTurn ==
    ASSUME TypeOK, GenInv, RunPartial
    PROVE  GenInv'
<1> DEFINE g == gens[k + 1]
           r == PartialResult(g)
<1>1. pc = "partial" /\ k < Len(gens) /\ k' = k + 1 /\ UNCHANGED <<args, at, src>> /\ pc' \in {"partial", "raised"}
  BY DEF RunPartial, Raise
<1>2. Listed(gens) /\ k \in 0 .. Len(gens) /\ \A h \in ToSet(gens) : RunsFor(h)
  BY <1>1 DEF GenInv
<1>3. /\ \A q : CameFrom(q)' <=> CameFrom(q)
      /\ \A h : RunsFor(h)' <=> RunsFor(h)
  BY <1>1, SameDevice
<1>4. Len(gens) \in Nat
  BY <1>2, ListIs
<1>5. CASE Skipped(g) \/ pc' = "raised"
  <2>1. UNCHANGED <<gens, results>>
    BY <1>5 DEF RunPartial, Raise
  <2> QED
    BY <1>1, <1>2, <1>3, <1>4, <2>1 DEF GenInv
<1>6. CASE ~Skipped(g) /\ pc' # "raised"
  <2>1. /\ CameFrom(r) /\ gens' = gens \o RefMatch(r.config) /\ results' = AddByName(results, r)
    BY <1>6, TurnYields
  <2>2. IsSource(here)
    BY HereIsSource
  <2>3. Listed(results') /\ OwnNames(results') /\ \A q \in ToSet(results') : q = r \/ q \in ToSet(results)
    BY <2>1, ResultAdded DEF GenInv
  <2>4. Listed(RefMatch(r.config)) /\ \A m \in ToSet(RefMatch(r.config)) : RunsFor(m)
    <3> HIDE DEF r
    <3>1. Listed(RefMatch(r.config)) /\ \A m \in ToSet(RefMatch(r.config)) : \E h \in ToSet(here.refs) : m = Extended(r.config, h)
      BY <2>2, ReferredIs
    <3> QED
      BY <2>2, <3>1, ExtendedIs
  <2>5. /\ Listed(gens') /\ ToSet(gens') = ToSet(gens) \cup ToSet(RefMatch(r.config))
        /\ Len(gens') = Len(gens) + Len(RefMatch(r.config)) /\ Len(RefMatch(r.config)) \in Nat
    BY <1>2, <2>1, <2>4, ListsJoined
  <2> HIDE DEF r, g
  <2>6. k' \in 0 .. Len(gens') /\ \A h \in ToSet(gens') : RunsFor(h)
    BY <1>1, <1>2, <1>4, <2>4, <2>5
  <2>7. \A q \in ToSet(results') : CameFrom(q)
    BY <2>1, <2>3 DEF GenInv
  <2> QED
    BY <1>1, <1>3, <2>3, <2>5, <2>6, <2>7 DEF GenInv
<1> QED
  BY <1>5, <1>6

(* Each result came from a generator of the source and its own acl.        *)
THEOREM GenInvHolds == Spec => []GenInv
<1>1. Init => GenInv
  BY NoElements DEF Init, GenInv, OwnNames
<1>2. TypeOK /\ GenInv /\ [Next]_vars => GenInv'
  <2> SUFFICES ASSUME TypeOK, GenInv, [Next]_vars PROVE GenInv'
    OBVIOUS
  <2>1. CASE ReadConfig
    <3>1. /\ pc = "read" /\ UNCHANGED <<args, at, src, results, refs, k>>
          /\ pc' # "read" /\ (pc' = "partial" => gens' = BuildGenerators(here.partial))
      BY <2>1 DEF ReadConfig, Finish
    <3>2. results' = <<>> /\ k' = 0
      BY <3>1 DEF GenInv
    <3>3. IsSource(here) /\ (\A g : RunsFor(g)' <=> RunsFor(g))
      BY <3>1, HereIsSource, SameDevice
    <3>4. \A g \in ToSet(here.partial) : IsGenerator(g) /\ g.name \in Int /\ RunsFor(g)
      BY <3>3 DEF IsSource, GeneratorsOf, IsGenerator, RunsFor, Known
    <3>5. Listed(BuildGenerators(here.partial)) /\ ToSet(BuildGenerators(here.partial)) \subseteq ToSet(here.partial)
      BY <3>3, <3>4, GeneratorsBuilt DEF IsSource
    <3>6. pc' = "partial" => Listed(gens') /\ k' \in 0 .. Len(gens') /\ \A g \in ToSet(gens') : RunsFor(g)
      <4>1. Len(BuildGenerators(here.partial)) \in Nat
        BY <3>5, ListIs
      <4> QED
        BY <3>1, <3>2, <3>4, <3>5, <4>1
    <3> QED
      BY <3>1, <3>2, <3>3, <3>6, NoElements DEF GenInv, OwnNames
  <2>2. CASE RunPartial
    BY <2>2, GenTurn
  <2>3. CASE Merge
    <3>1. UNCHANGED <<args, at, src, results>> /\ pc' \in {"files", "raised"}
      BY <2>3 DEF Merge, Raise, StartFiles
    <3> QED
      BY <3>1, SameDevice DEF GenInv
  <2>4. CASE ReadFiles
    <3>1. UNCHANGED <<args, at, src, results>> /\ pc' \in {"files", "raised", "yield"}
      BY <2>4 DEF ReadFiles, Raise, StartFiles, Finish
    <3> QED
      BY <3>1, SameDevice DEF GenInv
  <2>5. CASE RunFile
    <3>1. UNCHANGED <<args, at, src, results>> /\ pc' \in {"files", "raised"}
      BY <2>5 DEF RunFile, Raise
    <3> QED
      BY <3>1, SameDevice DEF GenInv
  <2>6. CASE MakeFiles
    <3>1. UNCHANGED <<args, at, src, results>> /\ pc' = "yield"
      BY <2>6 DEF MakeFiles, Finish
    <3> QED
      BY <3>1, SameDevice DEF GenInv
  <2>7. CASE NextDevice
    <3>1. results' = <<>> /\ refs' = {} /\ k' = 0 /\ pc' = "read"
      BY <2>7 DEF NextDevice
    <3> QED
      BY <3>1, NoElements DEF GenInv, OwnNames
  <2>8. CASE Ended \/ UNCHANGED vars
    <3>1. UNCHANGED <<args, at, src, results, pc, gens, k, refs>>
      BY <2>8 DEF Ended, vars
    <3> QED
      BY <3>1, SameDevice DEF GenInv
  <2> QED
    BY <2>1, <2>2, <2>3, <2>4, <2>5, <2>6, <2>7, <2>8 DEF Next
<1> QED
  BY <1>1, <1>2, TypeCorrect, PTL DEF Spec

-----------------------------------------------------------------------------
(* A row that passed the acl of its generator passes those of all, or is   *)
(* what another one forbids.                                               *)
LEMMA RowStays ==
    ASSUME TypeOK, GenInv, MergedFrom, NoIgnores, ~args.noNew,
           NEW r \in ToSet(results), NEW row \in r.config, row \notin cfg.new
    PROVE  \E s \in ToSet(results) : s.name # r.name /\ Forbids(s, row)
<1> DEFINE all == FlattenSeq([i \in DOMAIN results |-> Named(results[i].acl, results[i].name)])
<1>1. IsSource(here) /\ Listed(results) /\ OwnNames(results) /\ \A q \in ToSet(results) : Known(q)
  BY HereIsSource DEF GenInv, CameFrom
<1>2. /\ WellFormed(all)
      /\ \A q \in ToSet(results) : WellFormed(q.acl) /\ Among(q.acl, all, q.name) /\ ToSet(q.acl) \subseteq RulesOf(here)
      /\ \A q \in ToSet(all) : \E s \in ToSet(results) : \E i \in DOMAIN s.acl : CopyOf(s.acl[i], q, s.name)
  BY <1>1, AclsTogether
<1>3. AclOf(results) = MergeToplevel(all)
  BY DEF AclOf
<1> HIDE DEF all
<1>4. row \in WithImplicit(Tree(results, FALSE))
  BY DEF WithImplicit, Tree
<1>5. ~args.noAcl /\ ~Passes(row, MergeToplevel(all))
  BY <1>3, <1>4 DEF MergedFrom, Applied
<1>6. IsRow(row) /\ Passes(row, MergeToplevel(r.acl))
  BY <1>5 DEF GenInv, CameFrom
<1>7. \A q \in RulesOf(here) : ~q.ignore
  BY DEF NoIgnores, TypeOK, here
<1>8. \A q \in ToSet(all) : ~q.ignore
  <2> SUFFICES ASSUME NEW q \in ToSet(all) PROVE ~q.ignore
    OBVIOUS
  <2>1. PICK s \in ToSet(results) : \E i \in DOMAIN s.acl : CopyOf(s.acl[i], q, s.name)
    BY <1>2
  <2>2. PICK i \in DOMAIN s.acl : CopyOf(s.acl[i], q, s.name)
    BY <2>1
  <2>3. s.acl[i] \in RulesOf(here)
    BY <1>2 DEF ToSet
  <2> QED
    BY <1>7, <2>2, <2>3 DEF CopyOf
<1>9. OthersForbid(all, r.name, row)
  <2>1. Unignored(r.acl) /\ Unignored(all)
    BY <1>2, <1>7, <1>8 DEF Unignored
  <2>2. row.undo \in BOOLEAN
    BY <1>6 DEF IsRow
  <2> QED
    BY <1>2, <1>5, <1>6, <2>1, <2>2, PassesTogether
<1>10. PICK j \in DOMAIN all : all[j].owners[1].gen # r.name /\ all[j].owners[1].keep /\ RowMatches(all[j], row, TRUE)
  BY <1>9 DEF OthersForbid
<1>11. all[j] \in ToSet(all)
  BY DEF ToSet
<1>12. PICK s \in ToSet(results) : \E i \in DOMAIN s.acl : CopyOf(s.acl[i], all[j], s.name)
  BY <1>2, <1>11
<1>13. PICK i \in DOMAIN s.acl : CopyOf(s.acl[i], all[j], s.name)
  BY <1>12
<1>14. s.name # r.name /\ Forbids(s, row)
  BY <1>10, <1>13 DEF CopyOf, Forbids, RowMatches
<1> QED
  BY <1>14

(* Whatever the acls of the others say, a row that passed the acl of its   *)
(* generator is generated, unless it removes what another one forbids to   *)
(* delete: for any generators without ignores in their acls.               *)
THEOREM RowsStay == ASSUME NoIgnores PROVE Spec => []GeneratedStays
<1>1. TypeOK /\ GenInv /\ SafeInv => GeneratedStays
  BY RowStays DEF SafeInv, GeneratedStays, Generated
<1> QED
  BY <1>1, TypeCorrect, GenInvHolds, SafeInvHolds, PTL

(* And --acl-safe adds no more than the full run, but for the rows that    *)
(* SafeAdds names.                                                         *)
THEOREM SafeRunWithin == ASSUME NoIgnores PROVE Spec => []SafeWithin
<1>1. SafeInv /\ GeneratedStays => SafeWithin
  BY DeletesWithin, AddsWithin DEF SafeInv, GeneratedStays, SafeWithin
<1> QED
  BY <1>1, SafeInvHolds, RowsStay, PTL

-----------------------------------------------------------------------------
(* References.  The last of the runs of a reference generator that is      *)
(* referred to by one result only is for the words of that result; once it *)
(* is done its result is there.                                            *)
OnlyFrom(r, g) == \A e \in refs : e.to = g.name => e.from = r.name
Awaited(r, g)  ==
    \E j \in DOMAIN gens :
        /\ gens[j] = Extended(r.config, g)
        /\ \A l \in DOMAIN gens : l > j /\ gens[l].name = g.name => gens[l] = gens[j]
        /\ j <= k => PartialResult(gens[j]) \in ToSet(results)
RefInv ==
    /\ pc = "partial" =>
          \A r \in ToSet(results), g \in ToSet(here.refs) :
              OnlyFrom(r, g) /\ Called(r.config, g) # {} => Awaited(r, g)
    /\ ReferencesDefined

LEMMA RefsHere ==
    ASSUME TypeOK, RefsSound, NEW g \in ToSet(here.refs)
    PROVE  /\ IsGenerator(g) /\ g.does \in {"runs", "fails"}
           /\ \A h \in ToSet(here.refs) : h.name = g.name => h = g
           /\ \A w \in g.ref : \A row \in g.defs[w] :
                 LET m == MatchRowToAcl(row, MergeToplevel(g.acl)) IN ~(m.reverse /\ m.keep)
<1>1. IsGenerator(g)
  BY HereIsSource DEF IsSource, GeneratorsOf
<1>2. at \in DOMAIN Devices /\ src \in DOMAIN Store[at] /\ here = Store[at][src]
  BY DEF TypeOK, here
<1> QED
  BY <1>1, <1>2 DEF RefsSound

(* A turn that yields nothing is not one of a reference generator.         *)
LEMMA AwaitedBeyond ==
    ASSUME TypeOK, GenInv, RefsSound, RunPartial, Skipped(gens[k + 1]),
           NEW r, NEW g \in ToSet(here.refs), Awaited(r, g)
    PROVE  Awaited(r, g)'
<1>1. /\ UNCHANGED <<args, at, src, gens, results>> /\ k' = k + 1 /\ pc = "partial"
  BY DEF RunPartial
<1>2. PICK j \in DOMAIN gens :
        /\ gens[j] = Extended(r.config, g)
        /\ \A l \in DOMAIN gens : l > j /\ gens[l].name = g.name => gens[l] = gens[j]
        /\ j <= k => PartialResult(gens[j]) \in ToSet(results)
  BY DEF Awaited
<1>3. gens[j].does \in {"runs", "fails"}
  BY <1>2, RefsHere, HereIsSource, ExtendedIs
<1>4. j # k + 1
  BY <1>3 DEF Skipped
<1>5. j \in Nat /\ k \in Nat
  BY <1>1, ListIs DEF GenInv
<1>6. j <= k + 1 => PartialResult(gens[j]) \in ToSet(results)
  BY <1>2, <1>4, <1>5
<1>7. \A h : PartialResult(h)' = PartialResult(h)
  BY <1>1 DEF PartialResult
<1> QED
  BY <1>1, <1>2, <1>6, <1>7 DEF Awaited

(* A turn that yields a result.                                            *)
LEMMA AwaitedThen ==
    ASSUME TypeOK, GenInv, RefInv, RefsSound, RunPartial, ~Skipped(gens[k + 1]), pc' # "raised",
           NEW q \in ToSet(results'), NEW g \in ToSet(here.refs), OnlyFrom(q, g)', Called(q.config, g) # {}
    PROVE  Awaited(q, g)'
<1> DEFINE h    == gens[k + 1]
           r    == PartialResult(h)
           more == RefMatch(r.config)
           n    == Len(gens)
<1>1. /\ RunsFor(h) /\ r.name = h.name
      /\ gens' = gens \o more
      /\ refs' = refs \cup {[from |-> h.name, to |-> m.name] : m \in ToSet(more)}
      /\ results' = AddByName(results, r)
  BY TurnYields
<1>2. /\ UNCHANGED <<args, at, src>> /\ k' = k + 1 /\ pc = "partial" /\ k < n
  BY DEF RunPartial
<1>3. Listed(gens) /\ k \in 0 .. n /\ Listed(results)
  BY <1>2 DEF GenInv
<1>4. n \in Nat /\ DOMAIN gens = 1 .. n
  BY <1>3, ListIs
<1>5. IsSource(here)
  BY HereIsSource
<1> HIDE DEF r, h
<1>6. /\ Listed(more)
      /\ \A m : m \in ToSet(more) <=> \E f \in ToSet(here.refs) : Called(r.config, f) # {} /\ m = Extended(r.config, f)
  BY <1>5, ReferredIs
<1>7. \A f \in ToSet(here.refs) : Extended(r.config, f).name = f.name /\ Extended(q.config, f).name = f.name
  BY <1>5, ExtendedIs
<1> HIDE DEF more
<1>8. /\ Len(more) \in Nat /\ Len(gens') = n + Len(more) /\ Listed(gens')
      /\ \A i \in 1 .. n : gens'[i] = gens[i]
  BY <1>1, <1>3, <1>6, ListsJoined
<1>9. \A i \in n + 1 .. n + Len(more) : gens'[i] = more[i - n] /\ more[i - n] \in ToSet(more)
  BY <1>1, <1>3, <1>6, ListsJoined
<1>10. DOMAIN gens' = 1 .. n + Len(more)
  BY <1>8, ListIs
<1>11. \A x : PartialResult(x)' = PartialResult(x)
  BY <1>2 DEF PartialResult
<1>12. /\ r \in ToSet(results')
       /\ q = r \/ (q \in ToSet(results) /\ q.name # r.name)
       /\ \A x \in ToSet(results) : x.name # r.name => x \in ToSet(results')
  BY <1>1, <1>3, ResultAdded
<1>13. CASE q = r
  <2>1. Extended(r.config, g) \in ToSet(more)
    BY <1>6, <1>13
  <2>2. ToSet(more) = {more[i] : i \in 1 .. Len(more)}
    BY <1>6, ListIs
  <2>3. PICK i \in 1 .. Len(more) : more[i] = Extended(r.config, g)
    BY <2>1, <2>2
  <2> DEFINE j == n + i
  <2>4. j \in n + 1 .. n + Len(more) /\ j - n = i /\ ~(j <= k + 1) /\ j \in DOMAIN gens'
    BY <1>2, <1>3, <1>4, <1>8, <1>10
  <2>5. gens'[j] = Extended(q.config, g)
    BY <1>9, <1>13, <2>3, <2>4
  <2>6. ASSUME NEW l \in DOMAIN gens', l > j, gens'[l].name = g.name PROVE gens'[l] = gens'[j]
    <3>1. l \in n + 1 .. n + Len(more)
      BY <1>4, <1>10, <2>4, <2>6
    <3>2. gens'[l] \in ToSet(more)
      BY <1>9, <3>1
    <3>3. PICK f \in ToSet(here.refs) : gens'[l] = Extended(r.config, f)
      BY <1>6, <3>2
    <3>4. f.name = g.name
      BY <1>7, <2>6, <3>3
    <3>5. f = g
      BY <3>4, RefsHere
    <3> QED
      BY <1>13, <2>5, <3>3, <3>5
  <2> HIDE DEF j
  <2> QED
    BY <1>2, <2>4, <2>5, <2>6 DEF Awaited
<1>14. CASE q \in ToSet(results) /\ q.name # r.name
  <2>1. OnlyFrom(q, g)
    BY <1>1 DEF OnlyFrom
  <2>2. PICK j \in DOMAIN gens :
          /\ gens[j] = Extended(q.config, g)
          /\ \A l \in DOMAIN gens : l > j /\ gens[l].name = g.name => gens[l] = gens[j]
          /\ j <= k => PartialResult(gens[j]) \in ToSet(results)
    BY <1>2, <1>14, <2>1 DEF RefInv, Awaited
  <2>3. \A m \in ToSet(more) : m.name # g.name
    <3> SUFFICES ASSUME NEW m \in ToSet(more), m.name = g.name PROVE FALSE
      OBVIOUS
    <3>1. [from |-> h.name, to |-> g.name] \in refs'
      BY <1>1
    <3>2. h.name = q.name
      BY <3>1 DEF OnlyFrom
    <3> QED
      BY <1>1, <1>14, <3>2
  <2>4. j \in 1 .. n /\ j \in DOMAIN gens' /\ gens'[j] = Extended(q.config, g)
    BY <1>4, <1>8, <1>10, <2>2
  <2>5. ASSUME NEW l \in DOMAIN gens', l > j, gens'[l].name = g.name PROVE gens'[l] = gens'[j]
    <3>1. l \notin n + 1 .. n + Len(more)
      BY <1>9, <2>3, <2>5
    <3>2. l \in DOMAIN gens
      BY <1>4, <1>8, <1>10, <3>1
    <3> QED
      BY <1>4, <1>8, <2>2, <2>4, <2>5, <3>2
  <2>6. ASSUME j <= k + 1 PROVE PartialResult(gens[j]) \in ToSet(results')
    <3>1. CASE j = k + 1
      BY <1>12, <3>1 DEF r, h
    <3>2. CASE j <= k
      <4>1. PartialResult(gens[j]) \in ToSet(results) /\ PartialResult(gens[j]).name = g.name
        BY <1>7, <2>2, <3>2 DEF PartialResult
      <4>2. CASE g.name # r.name
        BY <1>12, <4>1, <4>2
      <4>3. CASE g.name = r.name
        <5>1. k + 1 \in DOMAIN gens /\ k + 1 > j
          BY <1>2, <1>3, <1>4, <3>2
        <5>2. gens[k + 1] = gens[j]
          BY <1>1, <2>2, <4>3, <5>1 DEF h
        <5> QED
          BY <1>12, <5>2 DEF r, h
      <4> QED
        BY <4>2, <4>3
    <3> QED
      BY <1>3, <1>4, <2>4, <2>6, <3>1, <3>2
  <2> QED
    BY <1>2, <1>8, <1>11, <2>4, <2>5, <2>6 DEF Awaited
<1> QED
  BY <1>12, <1>13, <1>14

(* When the generators have run, what a result refers to is there.         *)
LEMMA DefinedNow ==
    ASSUME TypeOK, GenInv, RefInv, RefsSound, pc = "partial", k = Len(gens), ~args.noNew,
           NEW r \in ToSet(results), NEW g \in ToSet(here.refs), OnlyFrom(r, g),
           NEW row \in r.config, row.word \in g.ref
    PROVE  \E s \in ToSet(results) : s.name = g.name /\ g.defs[row.word] \subseteq s.config
<1> DEFINE w == row.word
           m == Extended(r.config, g)
           s == PartialResult(m)
<1>1. w \in Called(r.config, g)
  BY DEF Called
<1>2. Awaited(r, g)
  BY <1>1 DEF RefInv
<1>3. PICK j \in DOMAIN gens : gens[j] = m /\ (j <= k => PartialResult(gens[j]) \in ToSet(results))
  BY <1>2 DEF Awaited
<1>4. s \in ToSet(results)
  BY <1>3, ListIs DEF GenInv
<1>5. m.name = g.name /\ m.acl = g.acl /\ RunsFor(m) /\ g.defs[w] \subseteq m.rows
  BY <1>1, HereIsSource, ExtendedIs
<1> HIDE DEF m, s
<1>6. /\ s.name = m.name
      /\ s.config = IF args.noAcl THEN m.rows ELSE Applied(m.rows, MergeToplevel(m.acl))
      /\ s.ok = (args.noAcl \/ ~NotAllowed(m.rows, MergeToplevel(m.acl)))
  BY <1>5, ResultIs DEF s
<1>7. s.ok
  BY <1>4 DEF GenInv, CameFrom
<1>8. ASSUME NEW x \in g.defs[w] PROVE x \in s.config
  <2>1. x \in m.rows
    BY <1>5
  <2>2. CASE ~args.noAcl
    <3>1. MatchRowToAcl(x, MergeToplevel(g.acl)).matched
      BY <1>5, <1>6, <1>7, <2>1, <2>2 DEF NotAllowed
    <3>2. ~(MatchRowToAcl(x, MergeToplevel(g.acl)).reverse /\ MatchRowToAcl(x, MergeToplevel(g.acl)).keep)
      BY RefsHere
    <3>3. Passes(x, MergeToplevel(m.acl))
      BY <1>5, <3>1, <3>2 DEF Passes
    <3> QED
      BY <1>6, <2>1, <2>2, <3>3 DEF Applied
  <2> QED
    BY <1>6, <2>1, <2>2
<1> QED
  BY <1>4, <1>5, <1>6, <1>8

LEMMA DefinedStays ==
    ASSUME RefInv, UNCHANGED <<args, at, src, results, refs>>, Generated' => Generated
    PROVE  ReferencesDefined'
<1>1. here' = here
  BY DEF here
<1> SUFFICES ASSUME Generated', NEW r \in ToSet(results'), NEW g \in ToSet(here'.refs),
                    \A e \in refs' : e.to = g.name => e.from = r.name,
                    NEW row \in r.config, row.word \in g.ref
             PROVE  \E s \in ToSet(results') : s.name = g.name /\ g.defs[row.word] \subseteq s.config
  BY DEF ReferencesDefined
<1>2. r \in ToSet(results) /\ g \in ToSet(here.refs) /\ \A e \in refs : e.to = g.name => e.from = r.name
  BY <1>1
<1>3. \E s \in ToSet(results) : s.name = g.name /\ g.defs[row.word] \subseteq s.config
  BY <1>2 DEF RefInv, ReferencesDefined
<1> QED
  BY <1>3

THEOREM RefInvHolds == ASSUME RefsSound PROVE Spec => []RefInv
<1>1. Init => RefInv
  BY NoElements DEF Init, RefInv, ReferencesDefined, Generated
<1>2. TypeOK /\ GenInv /\ RefInv /\ [Next]_vars => RefInv'
  <2> SUFFICES ASSUME TypeOK, GenInv, RefInv, [Next]_vars PROVE RefInv'
    OBVIOUS
  <2>1. CASE ReadConfig \/ ReadFiles \/ NextDevice
    <3>1. results' = <<>>
      BY <2>1 DEF ReadConfig, ReadFiles, NextDevice, GenInv
    <3> QED
      BY <3>1, NoElements DEF RefInv, ReferencesDefined, Generated
  <2>2. CASE RunPartial
    <3>1. UNCHANGED <<args, at, src>> /\ pc' \in {"partial", "raised"}
      BY <2>2 DEF RunPartial, Raise
    <3>2. ReferencesDefined' /\ here' = here
      BY <3>1 DEF ReferencesDefined, Generated, here
    <3>3. ASSUME pc' = "partial", NEW q \in ToSet(results'), NEW g \in ToSet(here.refs),
                 OnlyFrom(q, g)', Called(q.config, g) # {}
          PROVE  Awaited(q, g)'
      <4>1. CASE Skipped(gens[k + 1])
        <5>1. UNCHANGED <<results, refs>> /\ pc = "partial"
          BY <2>2, <4>1 DEF RunPartial
        <5>2. Awaited(q, g)
          BY <3>3, <5>1 DEF RefInv, OnlyFrom
        <5> QED
          BY <2>2, <4>1, <5>2, AwaitedBeyond
      <4>2. CASE ~Skipped(gens[k + 1])
        BY <2>2, <3>3, <4>2, AwaitedThen
      <4> QED
        BY <4>1, <4>2
    <3> QED
      BY <3>2, <3>3 DEF RefInv
  <2>3. CASE Merge
    <3>1. /\ pc = "partial" /\ k = Len(gens) /\ UNCHANGED <<args, at, src, results, refs>>
          /\ pc' \in {"files", "raised"}
      BY <2>3 DEF Merge, Raise, StartFiles
    <3>2. here' = here
      BY <3>1 DEF here
    <3>3. Generated' => ~args.noNew
      BY <3>1 DEF Generated
    <3>4. ReferencesDefined'
      BY <3>1, <3>2, <3>3, DefinedNow DEF ReferencesDefined, OnlyFrom
    <3> QED
      BY <3>1, <3>4 DEF RefInv
  <2>4. CASE RunFile \/ MakeFiles
    <3>1. pc = "files" /\ pc' # "partial" /\ UNCHANGED <<args, at, src, results, refs>>
      BY <2>4 DEF RunFile, MakeFiles, Raise, Finish
    <3>2. Generated' => Generated
      BY <3>1 DEF Generated
    <3> QED
      BY <3>1, <3>2, DefinedStays DEF RefInv
  <2>5. CASE Ended \/ UNCHANGED vars
    <3>1. UNCHANGED <<args, at, src, results, pc, gens, k, refs>>
      BY <2>5 DEF Ended, vars
    <3>2. Generated' => Generated
      BY <3>1 DEF Generated
    <3>3. here' = here
      BY <3>1 DEF here
    <3>4. ReferencesDefined'
      BY <3>1, <3>2, DefinedStays
    <3>5. ASSUME pc' = "partial", NEW r \in ToSet(results'), NEW g \in ToSet(here'.refs),
                 OnlyFrom(r, g)', Called(r.config, g) # {}
          PROVE  Awaited(r, g)'
      <4>1. OnlyFrom(r, g) /\ pc = "partial" /\ r \in ToSet(results) /\ g \in ToSet(here.refs)
        BY <3>1, <3>3, <3>5 DEF OnlyFrom
      <4>2. Awaited(r, g)
        BY <3>5, <4>1 DEF RefInv
      <4>3. PICK j \in DOMAIN gens :
              /\ gens[j] = Extended(r.config, g)
              /\ \A l \in DOMAIN gens : l > j /\ gens[l].name = g.name => gens[l] = gens[j]
              /\ j <= k => PartialResult(gens[j]) \in ToSet(results)
        BY <4>2 DEF Awaited
      <4>4. PartialResult(gens[j])' = PartialResult(gens[j])
        BY <3>1 DEF PartialResult
      <4> QED
        BY <3>1, <4>3, <4>4 DEF Awaited
    <3> QED
      BY <3>4, <3>5 DEF RefInv
  <2> QED
    BY <2>1, <2>2, <2>3, <2>4, <2>5 DEF Next
<1> QED
  BY <1>1, <1>2, TypeCorrect, GenInvHolds, PTL DEF Spec

(* What a result refers to is generated, for all the words it refers with. *)
THEOREM ReferencesAreDefined == ASSUME RefsSound PROVE Spec => []ReferencesDefined
<1>1. RefInv => ReferencesDefined
  BY DEF RefInv
<1> QED
  BY <1>1, RefInvHolds, PTL

-----------------------------------------------------------------------------
(* The json files.  The results come from the generators of the source, in *)
(* a list, and the files are made of all of them.                          *)
HasFiles(s) ==
    /\ Listed(s.entire) /\ \A g \in ToSet(s.entire) : IsEntire(g)
    /\ Listed(s.jsonGens) /\ \A g \in ToSet(s.jsonGens) : IsJson(g)
    /\ \A p \in DOMAIN s.oldJson : IsDocument(s.oldJson[p])
RunsFiles(gs, n) == Listed(gs) /\ n \in 0 .. Len(gs) /\ \A g \in ToSet(gs) : g.type # "entire" => g \in ToSet(here.jsonGens)

FilesInv ==
    /\ made = [entire |-> made.entire, json |-> made.json]
    /\ Listed(made.json) /\ ToSet(made.json) \subseteq ToSet(here.jsonGens)
    /\ pc \in {"read", "partial"} => made = NoneMade
    /\ pc = "files" => RunsFiles(gens, k)
    /\ Finished => files.json = [p \in Paths(made.json) |-> JsonFile(p, FALSE)]

LEMMA HereHasFiles == TypeOK => HasFiles(here)
BY StoreAssumption DEF TypeOK, HasFiles, Listed, IsList, here

(* Only the generators of files are run for files.                         *)
LEMMA FilesStart ==
    ASSUME HasFiles(here), StartFiles, UNCHANGED <<args, at, src>>
    PROVE  RunsFiles(gens', k') /\ pc' \in {"files", "raised"}
<1> DEFINE first == BuildEntire(here.entire)
           then  == BuildGenerators(here.jsonGens)
<1>1. pc' \in {"files", "raised"} /\ k' = 0 /\ gens' = IF args.noNew THEN <<>> ELSE first \o then
  BY DEF StartFiles, Raise
<1>2. Listed(first) /\ ToSet(first) \subseteq ToSet(here.entire)
  BY EntireBuilt DEF HasFiles, IsEntire
<1>3. Listed(then) /\ ToSet(then) \subseteq ToSet(here.jsonGens)
  BY GeneratorsBuilt DEF HasFiles, IsJson
<1> HIDE DEF first, then
<1>4. /\ Listed(first \o then) /\ ToSet(first \o then) = ToSet(first) \cup ToSet(then)
  BY <1>2, <1>3, ListsJoined
<1>5. Listed(gens') /\ \A g \in ToSet(gens') : g \in ToSet(here.entire) \cup ToSet(here.jsonGens)
  BY <1>1, <1>2, <1>3, <1>4, NoElements
<1>6. \A g \in ToSet(gens') : g.type # "entire" => g \in ToSet(here.jsonGens)
  BY <1>5 DEF HasFiles, IsEntire
<1>7. k' \in 0 .. Len(gens')
  BY <1>1, <1>5, ListIs
<1> QED
  BY <1>1, <1>5, <1>6, <1>7 DEF RunsFiles

LEMMA FileTurn ==
    ASSUME FilesInv, pc = "files", RunFile
    PROVE  FilesInv'
<1> DEFINE g == gens[k + 1]
<1>1. /\ k < Len(gens) /\ k' = k + 1 /\ UNCHANGED <<args, at, src, gens, files>>
      /\ pc' \in {"files", "raised"} /\ here' = here
  BY DEF RunFile, Raise, here
<1>2. RunsFiles(gens, k) /\ Len(gens) \in Nat
  BY ListIs DEF FilesInv, RunsFiles
<1>3. RunsFiles(gens', k')
  BY <1>1, <1>2 DEF RunsFiles
<1>4. g \in ToSet(gens)
  <2>1. k + 1 \in 1 .. Len(gens)
    BY <1>1, <1>2 DEF RunsFiles
  <2> QED
    BY <1>2, <2>1, ListIs DEF RunsFiles
<1>5. \/ made' = made
      \/ g.type = "entire" /\ made' = [made EXCEPT !.entire = AddEntire(@, g)]
      \/ g.type # "entire" /\ made' = [made EXCEPT !.json = AddByName(@, g)]
  BY DEF RunFile
<1> HIDE DEF g
<1>6. \/ made'.json = made.json
      \/ g \in ToSet(here.jsonGens) /\ made'.json = AddByName(made.json, g)
  BY <1>2, <1>4, <1>5 DEF RunsFiles, FilesInv
<1>8. made' = [entire |-> made'.entire, json |-> made'.json]
  BY <1>5 DEF FilesInv
<1>7. Listed(made'.json) /\ ToSet(made'.json) \subseteq ToSet(here.jsonGens)
  <2>1. Listed(made.json) /\ ToSet(made.json) \subseteq ToSet(here.jsonGens)
    BY DEF FilesInv
  <2>2. Listed(AddByName(made.json, g)) /\ \A q \in ToSet(AddByName(made.json, g)) : q = g \/ q \in ToSet(made.json)
    BY <2>1, ResultAdded
  <2> QED
    BY <1>6, <2>1, <2>2
<1> QED
  BY <1>1, <1>3, <1>7, <1>8 DEF FilesInv, RunsFiles, Finished

THEOREM FilesInvHolds == Spec => []FilesInv
<1>1. Init => FilesInv
  BY NoElements DEF Init, FilesInv, NoneMade, Finished
<1>2. TypeOK /\ FilesInv /\ [Next]_vars => FilesInv'
  <2> SUFFICES ASSUME TypeOK, FilesInv, [Next]_vars PROVE FilesInv'
    OBVIOUS
  <2>1. HasFiles(here)
    BY HereHasFiles
  <2>2. ASSUME UNCHANGED <<args, at, src>> PROVE here' = here
    BY <2>2 DEF here
  <2>3. CASE ReadConfig
    <3>1. UNCHANGED <<args, at, src, made>> /\ pc = "read"
          /\ (pc' = "partial" \/ (pc' = "yield" /\ verdict' = [verdict EXCEPT ![at] = "error"]))
      BY <2>3 DEF ReadConfig, Finish
    <3>2. ~Finished'
      BY <3>1 DEF Finished, TypeOK
    <3> QED
      BY <2>2, <3>1, <3>2 DEF FilesInv
  <2>4. CASE RunPartial
    <3>1. UNCHANGED <<args, at, src, made>> /\ pc = "partial" /\ pc' \in {"partial", "raised"}
      BY <2>4 DEF RunPartial, Raise
    <3> QED
      BY <2>2, <3>1 DEF FilesInv, Finished
  <2>5. CASE Merge
    <3>1. /\ UNCHANGED <<args, at, src, made>> /\ pc = "partial"
          /\ (Raise /\ UNCHANGED <<cfg, gens, k>>) \/ StartFiles
      BY <2>5, ZenonT(30) DEF Merge
    <3>2. (pc' = "files" => RunsFiles(gens', k')) /\ pc' \in {"files", "raised"}
      BY <2>1, <3>1, FilesStart DEF Raise
    <3> QED
      BY <2>2, <3>1, <3>2 DEF FilesInv, Finished, RunsFiles
  <2>6. CASE ReadFiles
    <3>1. /\ UNCHANGED <<args, at, src, made>> /\ pc = "read"
          /\ (pc' = "yield" /\ verdict' = [verdict EXCEPT ![at] = "error"]) \/ StartFiles
      BY <2>6 DEF ReadFiles, Finish
    <3>2. CASE StartFiles
      <4>1. RunsFiles(gens', k') /\ pc' \in {"files", "raised"}
        BY <2>1, <3>1, <3>2, FilesStart
      <4> QED
        BY <2>2, <3>1, <4>1 DEF FilesInv, Finished, RunsFiles
    <3>3. CASE pc' = "yield" /\ verdict' = [verdict EXCEPT ![at] = "error"]
      <4>1. ~Finished'
        BY <3>1, <3>3 DEF Finished, TypeOK
      <4> QED
        BY <2>2, <3>1, <3>3, <4>1 DEF FilesInv
    <3> QED
      BY <3>1, <3>2, <3>3
  <2>7. CASE RunFile
    BY <2>7, FileTurn DEF RunFile
  <2>8. CASE MakeFiles
    <3>1. UNCHANGED <<args, at, src, made>> /\ pc' = "yield" /\ files'.json = [p \in Paths(made.json) |-> JsonFile(p, FALSE)]
      BY <2>8 DEF MakeFiles, Finish
    <3>2. \A p : JsonFile(p, FALSE)' = JsonFile(p, FALSE)
      BY <2>2, <3>1 DEF JsonFile, Those, Collect
    <3>3. files'.json = [p \in Paths(made'.json) |-> JsonFile(p, FALSE)']
      BY <3>1, <3>2
    <3> QED
      BY <2>2, <3>1, <3>3 DEF FilesInv, Finished
  <2>9. CASE NextDevice
    <3>1. made' = NoneMade /\ pc' = "read"
      BY <2>9 DEF NextDevice
    <3>2. made'.json = <<>> /\ made' = [entire |-> made'.entire, json |-> made'.json]
      BY <3>1 DEF NoneMade
    <3> QED
      BY <3>1, <3>2, NoElements DEF FilesInv, Finished
  <2>10. CASE Ended \/ UNCHANGED vars
    <3>1. UNCHANGED vars
      BY <2>10 DEF Ended
    <3>2. \A p : JsonFile(p, FALSE)' = JsonFile(p, FALSE)
      BY <2>2, <3>1 DEF JsonFile, Those, Collect, vars
    <3> QED
      BY <2>2, <3>1, <3>2 DEF FilesInv, RunsFiles, Finished, Paths, vars
  <2> QED
    BY <2>3, <2>4, <2>5, <2>6, <2>7, <2>8, <2>9, <2>10 DEF Next
<1> QED
  BY <1>1, <1>2, TypeCorrect, PTL DEF Spec

(* The fragments of a file, and the values there are.                      *)
FilesOver(path) == {"null"} \cup ValuesOf(IF path \in DOMAIN here.oldJson THEN here.oldJson[path] ELSE EmptyDoc)
                            \cup UNION {ValuesOf(r.config) : r \in ToSet(Fragments(path))}
OldFile(path)   == IF path \in DOMAIN here.oldJson THEN here.oldJson[path] ELSE EmptyDoc

LEMMA FragmentsAre ==
    ASSUME FilesInv, HasFiles(here), NEW path
    PROVE  /\ Listed(Fragments(path)) /\ OldFile(path) \in Documents(FilesOver(path))
           /\ \A r \in ToSet(Fragments(path)) :
                 IsFragment(r, ~args.noAcl, FALSE, FilesOver(path)) /\ AclsOf(r, TRUE, FALSE) = r.acl
<1> DEFINE A  == {r \in ToSet(made.json) : r.path = path}
           rs == Fragments(path)
           W  == FilesOver(path)
           d  == OldFile(path)
           those == FlattenSeq([i \in DOMAIN made.json |-> IF made.json[i] \in A THEN <<made.json[i]>> ELSE <<>>])
<1>1. rs = those
  <2>1. \A i \in DOMAIN made.json : made.json[i] \in A <=> made.json[i].path = path
    BY DEF ToSet
  <2>2. [i \in DOMAIN made.json |-> IF made.json[i].path = path THEN <<made.json[i]>> ELSE <<>>]
            = [i \in DOMAIN made.json |-> IF made.json[i] \in A THEN <<made.json[i]>> ELSE <<>>]
    BY <2>1
  <2>3. rs = FlattenSeq([i \in DOMAIN made.json |-> IF made.json[i].path = path THEN <<made.json[i]>> ELSE <<>>])
    BY DEF Fragments, Those, Collect
  <2> QED
    BY <2>2, <2>3
<1>2. Listed(rs) /\ ToSet(rs) = ToSet(made.json) \cap A
  <2>1. Listed(made.json)
    BY DEF FilesInv
  <2> HIDE DEF A, rs
  <2> QED
    BY <1>1, <2>1, Chosen
<1>3. \A r \in ToSet(rs) : IsJson(r) /\ Over(r.config, W)
  <2> SUFFICES ASSUME NEW r \in ToSet(rs) PROVE IsJson(r) /\ Over(r.config, W)
    OBVIOUS
  <2>1. IsJson(r)
    BY <1>2 DEF FilesInv, HasFiles
  <2>2. ValuesOf(r.config) \subseteq W
    BY DEF FilesOver
  <2> QED
    BY <2>1, <2>2, OverItself
<1>4. IsDocument(d) /\ Over(d, W)
  <2>1. IsDocument(EmptyDoc)
    BY FS_EmptySet DEF EmptyDoc, IsDocument
  <2>2. IsDocument(d)
    BY <2>1 DEF HasFiles, OldFile
  <2>3. ValuesOf(d) \subseteq W
    BY DEF FilesOver, OldFile
  <2> QED
    BY <2>2, <2>3, OverItself
<1>5. d \in Documents(W)
  BY <1>4, DocumentsAre
<1>6. ASSUME NEW r \in ToSet(rs)
      PROVE  IsFragment(r, ~args.noAcl, FALSE, W) /\ AclsOf(r, TRUE, FALSE) = r.acl
  <2>1. Listed(r.acl) /\ \A acl \in ToSet(r.acl) : IsAcl(acl)
    BY <1>3 DEF IsJson, IsAcl, IsList, Listed
  <2>2. Listed(<<Everything>>) /\ \A acl \in ToSet(<<Everything>>) : IsAcl(acl)
    BY OneElement DEF Everything, IsAcl
  <2>3. AclsOf(r, ~args.noAcl, FALSE) \in {r.acl, <<Everything>>} /\ AclsOf(r, TRUE, FALSE) = r.acl
    BY DEF AclsOf
  <2> QED
    BY <1>3, <2>1, <2>2, <2>3 DEF IsFragment, IsJson
<1> QED
  BY <1>2, <1>5, <1>6

LEMMA FilesDoSettle == FilesInv /\ HasFiles(here) => FilesSettle
<1> SUFFICES ASSUME FilesInv, HasFiles(here), Finished, NEW path \in DOMAIN files.json
             PROVE  NewJsonFile(files.json[path].config, Fragments(path),
                        ~args.noAcl, FALSE, args.fileFilters).config = files.json[path].config
  BY DEF FilesSettle
<1> DEFINE W  == FilesOver(path)
           rs == Fragments(path)
           d  == OldFile(path)
           useAcl  == ~args.noAcl
           safe    == FALSE
           filters == args.fileFilters
           new     == NewJsonFile(d, rs, useAcl, safe, filters).config
<1>1. files.json[path].config = new
  <2>1. files.json[path] = JsonFile(path, FALSE)
    BY DEF FilesInv
  <2> QED
    BY <2>1 DEF JsonFile, OldFile, Fragments
<1>2. Listed(rs) /\ d \in Documents(W) /\ "null" \in W /\ \A r \in ToSet(rs) : IsFragment(r, useAcl, safe, W)
  BY FragmentsAre DEF FilesOver
<1> HIDE DEF W, rs, d, useAcl, safe, filters
<1>3. NewJsonFile(new, rs, useAcl, safe, filters).config = new
  BY <1>2, FileSettles
<1> QED
  BY <1>1, <1>3 DEF rs, useAcl, safe, filters

(* What an acl sets or takes is at, above or below what its pointer says.  *)
LEMMA SetIsSaid ==
    ASSUME NEW acl, NEW f, IsDocument(f), NEW q \in Places, SetFor(acl, f, args.fileFilters, q)
    PROVE  Sets(acl, f, q)
<1> DEFINE filters == args.fileFilters
           glob    == acl.pointer
<1>1. PICK p \in OwnedLevel(glob, TRUE, filters, f) : Touches(p, q)
  BY DEF SetFor
<1> HIDE DEF filters
<1>2. p \in DOMAIN f /\ Owns(glob, TRUE, filters, p)
  BY <1>1, OwnedIs
<1>3. p \in Places /\ Places \subseteq Seq(Keys)
  BY <1>2 DEF IsDocument, Places
<1>4. PICK o \in Places : Under(o, p) /\ Globs(glob, o)
  <2>1. CASE Globs(glob, p)
    BY <1>3, <2>1, UnderItself
  <2>2. CASE ChosenBy(glob, filters, p)
    BY <2>2 DEF ChosenBy
  <2> QED
    BY <1>2, <2>1, <2>2 DEF Owns
<1>5. o \in Resolve(glob, f)
  BY <1>2, <1>4, HasParents DEF Resolve
<1>6. /\ Under(o, p) /\ Under(p, q) => Under(o, q)
      /\ Under(o, p) /\ Under(q, p) => Under(o, q) \/ Under(q, o)
  BY <1>3, <1>4, UnderTogether
<1> QED
  BY <1>1, <1>4, <1>5, <1>6 DEF Sets, Touches

LEMMA TakenIsSaid ==
    ASSUME NEW acl, IsAcl(acl), NEW f, IsDocument(f), NEW q \in Places, TakenFor(acl, f, args.fileFilters, q)
    PROVE  Sets(acl, f, q) \/ Removes(acl, f, q)
<1> DEFINE filters == args.fileFilters
           last    == Len(acl.pointer)
<1>1. PICK n \in 1 .. last : TakenAt(acl, n, f, filters, q)
  BY DEF TakenFor, Taken
<1> DEFINE glob == SubSeq(acl.pointer, 1, n)
<1>2. PICK p \in Places : /\ Under(p, q) /\ p \notin DOMAIN f /\ ~Protected(p, acl.cant_delete)
                           /\ Owns(glob, n = last, filters, p)
  BY <1>1 DEF TakenAt
<1>3. glob \notin acl.cant_delete
  BY <1>1 DEF TakenAt
<1>4. q \in Seq(Keys) /\ DOMAIN q = 1 .. Len(q) /\ Len(q) \in Nat
  BY LenProperties DEF Places
<1>5. ASSUME NEW o \in Places, Under(o, q) PROVE Len(o) \in 1 .. Len(q) /\ o = SubSeq(q, 1, Len(o))
  <2>1. o \in Seq(Keys) /\ Len(o) \in Nat /\ Len(o) # 0
    BY LenProperties DEF Places
  <2>2. Len(o) <= Len(q)
    BY <1>4, <1>5, <2>1, UnderTogether
  <2>3. Len(o) \in 1 .. Len(q)
    BY <1>4, <2>1, <2>2
  <2> QED
    BY <1>4, <1>5, <2>1, <2>3, Shortened
<1>6. p = SubSeq(q, 1, Len(p)) /\ Len(p) \in 1 .. Len(q)
  BY <1>2, <1>5
<1> HIDE DEF glob
<1>7. CASE Globs(glob, p)
  <2> DEFINE m == Len(p)
  <2>1. m \in DOMAIN q /\ SubSeq(q, 1, m) = p /\ m \in {m} /\ m \in m .. Len(q)
    BY <1>4, <1>6
  <2> HIDE DEF m
  <2>2. Globs(glob, SubSeq(q, 1, m)) /\ SubSeq(q, 1, m) \notin DOMAIN f /\ ~Protected(SubSeq(q, 1, m), acl.cant_delete)
    BY <1>2, <1>7, <2>1
  <2> QED
    BY <1>3, <2>1, <2>2 DEF Removes, glob
<1>8. CASE ChosenBy(glob, filters, p) /\ n = last /\ filters # {}
  <2>1. PICK o \in Places : Under(o, p) /\ Globs(glob, o)
    BY <1>8 DEF ChosenBy
  <2>2. Under(o, q) /\ Len(o) <= Len(p)
    BY <1>2, <1>4, <2>1, UnderTogether DEF Places
  <2>3. o = SubSeq(q, 1, Len(o)) /\ Len(o) \in 1 .. Len(q)
    BY <1>5, <2>2
  <2>4. CASE o \in DOMAIN f
    <3>1. glob = acl.pointer
      BY <1>8, SubSeqFull DEF glob, IsAcl, Listed
    <3> QED
      BY <2>1, <2>2, <2>4, <3>1 DEF Sets, Resolve
  <2>5. CASE o \notin DOMAIN f
    <3> DEFINE m == Len(o)
               l == Len(p)
    <3>1. m \in DOMAIN q /\ SubSeq(q, 1, m) = o /\ l \in m .. Len(q) /\ SubSeq(q, 1, l) = p
      BY <1>4, <1>6, <2>2, <2>3
    <3> HIDE DEF m, l
    <3>2. Globs(glob, SubSeq(q, 1, m)) /\ SubSeq(q, 1, m) \notin DOMAIN f /\ ~Protected(SubSeq(q, 1, l), acl.cant_delete)
      BY <1>2, <2>1, <2>5, <3>1
    <3> QED
      BY <1>3, <1>8, <3>1, <3>2 DEF Removes, glob
  <2> QED
    BY <2>4, <2>5
<1> QED
  BY <1>2, <1>7, <1>8 DEF Owns

LEMMA FragmentsDoStay == FilesInv /\ HasFiles(here) => FragmentsStay
<1> SUFFICES ASSUME FilesInv, HasFiles(here), Finished, ~args.noAcl, NEW path \in DOMAIN files.json,
                    NEW i \in DOMAIN Fragments(path), NEW a \in DOMAIN Fragments(path)[i].acl,
                    NEW p \in OwnedLevel(Fragments(path)[i].acl[a].pointer, TRUE, args.fileFilters, Fragments(path)[i].config),
                    NEW q \in DOMAIN Fragments(path)[i].config, Under(p, q)
             PROVE  \/ q \in DOMAIN files.json[path].config /\ files.json[path].config[q] = Fragments(path)[i].config[q]
                    \/ \E j \in i .. Len(Fragments(path)) : \E b \in DOMAIN Fragments(path)[j].acl :
                          /\ j = i => b > a
                          /\ \/ Sets(Fragments(path)[j].acl[b], Fragments(path)[j].config, q)
                             \/ Removes(Fragments(path)[j].acl[b], Fragments(path)[j].config, q)
  BY DEF FragmentsStay
<1> SUFFICES ASSUME ~\E j \in i .. Len(Fragments(path)) : \E b \in DOMAIN Fragments(path)[j].acl :
                        /\ j = i => b > a
                        /\ \/ Sets(Fragments(path)[j].acl[b], Fragments(path)[j].config, q)
                           \/ Removes(Fragments(path)[j].acl[b], Fragments(path)[j].config, q)
             PROVE  q \in DOMAIN files.json[path].config /\ files.json[path].config[q] = Fragments(path)[i].config[q]
  OBVIOUS
<1> DEFINE W       == FilesOver(path)
           rs      == Fragments(path)
           d       == OldFile(path)
           useAcl  == ~args.noAcl
           safe    == FALSE
           filters == args.fileFilters
           new     == NewJsonFile(d, rs, useAcl, safe, filters).config
<1>1. files.json[path].config = new
  <2>1. files.json[path] = JsonFile(path, FALSE)
    BY DEF FilesInv
  <2> QED
    BY <2>1 DEF JsonFile, OldFile, Fragments
<1>2. /\ Listed(rs) /\ d \in Documents(W) /\ "null" \in W
      /\ \A r \in ToSet(rs) : IsFragment(r, useAcl, safe, W) /\ AclsOf(r, useAcl, safe) = r.acl
  <2>1. /\ Listed(rs) /\ d \in Documents(W)
        /\ \A r \in ToSet(rs) : IsFragment(r, ~args.noAcl, FALSE, W) /\ AclsOf(r, TRUE, FALSE) = r.acl
    BY FragmentsAre
  <2>2. \A r : AclsOf(r, useAcl, safe) = AclsOf(r, TRUE, FALSE)
    BY DEF AclsOf
  <2> QED
    BY <2>1, <2>2 DEF FilesOver
<1>3. /\ i \in DOMAIN rs /\ a \in DOMAIN rs[i].acl /\ q \in DOMAIN rs[i].config
      /\ p \in OwnedLevel(rs[i].acl[a].pointer, TRUE, filters, rs[i].config)
      /\ \A j \in i .. Len(rs) : \A b \in DOMAIN rs[j].acl :
            (j = i => b > a) => ~Sets(rs[j].acl[b], rs[j].config, q) /\ ~Removes(rs[j].acl[b], rs[j].config, q)
  OBVIOUS
<1> HIDE DEF W, rs, d, useAcl, safe
<1>4. Len(rs) \in Nat /\ i \in 1 .. Len(rs) /\ \A j \in 1 .. Len(rs) : rs[j] \in ToSet(rs)
  BY <1>2, <1>3, ListIs
<1>5. \A j \in 1 .. Len(rs) :
          /\ IsDocument(rs[j].config) /\ AclsOf(rs[j], useAcl, safe) = rs[j].acl
          /\ Listed(rs[j].acl) /\ \A acl \in ToSet(rs[j].acl) : IsAcl(acl)
  BY <1>2, <1>4 DEF IsFragment
<1>6. q \in Places
  BY <1>3, <1>4, <1>5 DEF IsDocument, Places
<1>7. ASSUME NEW j \in i .. Len(rs), NEW b \in 1 .. Len(rs[j].acl), j = i => b > a
      PROVE  ~Touched(rs[j].acl[b], rs[j].config, filters, q)
  <2> DEFINE acl == rs[j].acl[b]
             f   == rs[j].config
  <2>1. j \in 1 .. Len(rs)
    BY <1>4
  <2>2. b \in DOMAIN rs[j].acl /\ acl \in ToSet(rs[j].acl) /\ IsDocument(f)
    BY <1>5, <2>1, ListIs
  <2>3. IsAcl(acl)
    BY <1>5, <2>1, <2>2
  <2>4. ~Sets(acl, f, q) /\ ~Removes(acl, f, q)
    BY <1>3, <1>7, <2>2
  <2> HIDE DEF acl, f
  <2>5. ~SetFor(acl, f, filters, q) /\ ~TakenFor(acl, f, filters, q)
    BY <1>6, <2>2, <2>3, <2>4, SetIsSaid, TakenIsSaid
  <2> QED
    BY <2>5 DEF Touched, acl, f
<1> DEFINE r == rs[i]
<1>8. a \in 1 .. Len(r.acl) /\ Len(r.acl) \in Nat /\ IsDocument(r.config) /\ AclsOf(r, useAcl, safe) = r.acl
  BY <1>3, <1>4, <1>5, ListIs
<1>9. SetFor(r.acl[a], r.config, filters, q)
  BY <1>3 DEF SetFor, Touches
<1>10. LeftAlone(r, useAcl, safe, filters, q, a)
  <2>1. i \in i .. Len(rs)
    BY <1>4
  <2>2. \A b \in a + 1 .. Len(r.acl) : b \in 1 .. Len(r.acl) /\ b > a
    BY <1>8
  <2>3. \A b \in a + 1 .. Len(r.acl) : ~Touched(r.acl[b], r.config, filters, q)
    BY <1>7, <2>1, <2>2
  <2> QED
    BY <1>8, <2>3 DEF LeftAlone
<1>11. ASSUME NEW j \in i + 1 .. Len(rs) PROVE LeftAlone(rs[j], useAcl, safe, filters, q, 0)
  <2>1. j \in i .. Len(rs) /\ j # i /\ j \in 1 .. Len(rs)
    BY <1>4
  <2>2. \A b \in 1 .. Len(rs[j].acl) : ~Touched(rs[j].acl[b], rs[j].config, filters, q)
    BY <1>7, <2>1
  <2>3. AclsOf(rs[j], useAcl, safe) = rs[j].acl
    BY <1>5, <2>1
  <2> QED
    BY <2>2, <2>3 DEF LeftAlone
<1>12. At(r.config, q) = {r.config[q]}
  BY <1>3 DEF At
<1>13. At(new, q) = At(r.config, q)
  <2>1. a \in 1 .. Len(AclsOf(rs[i], useAcl, safe)) /\ SetFor(AclsOf(rs[i], useAcl, safe)[a], rs[i].config, filters, q)
        /\ At(rs[i].config, q) # {} /\ LeftAlone(rs[i], useAcl, safe, filters, q, a)
    BY <1>8, <1>9, <1>10, <1>12
  <2>2. \A x \in ToSet(rs) : IsFragment(x, useAcl, safe, W)
    BY <1>2
  <2> HIDE DEF filters, r
  <2>4. StandsFrom(rs, useAcl, safe, filters, i, a, q)
    BY <1>11, <2>1 DEF StandsFrom
  <2>3. At(NewJsonFile(d, rs, useAcl, safe, filters).config, q) = At(rs[i].config, q)
    BY <1>2, <1>4, <1>6, <2>2, <2>4, FragmentKept
  <2> QED
    BY <2>3 DEF r
<1>14. q \in DOMAIN new /\ new[q] = r.config[q]
  BY <1>12, <1>13 DEF At
<1> QED
  BY <1>1, <1>14 DEF rs

(* A file is what its generators say, and a second run leaves it so.       *)
THEOREM FilesDoHold == Spec => []FilesHold
<1>1. TypeOK /\ FilesInv => FilesHold
  BY HereHasFiles, FragmentsDoStay, FilesDoSettle DEF FilesHold
<1> QED
  BY <1>1, TypeCorrect, FilesInvHolds, PTL
=============================================================================
