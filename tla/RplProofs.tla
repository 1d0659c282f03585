------------------------------ MODULE RplProofs ------------------------------
(***************************************************************************)
(* For any lists, policies and vendors: that the lists a policy names are  *)
(* written (ListsDefined), and that a written policy decides about every   *)
(* route as its statements say (VerdictsMeant).                            *)
(***************************************************************************)
EXTENDS Rpl, SequenceFacts

-----------------------------------------------------------------------------
(* The conditions of a statement are merged one after another.             *)
Conds(s) == Listed(s) /\ \A c \in ToSet(s) : IsCondition(c)

MergingUpTo(conds, m, f) ==
    f = [n \in 0 .. m |-> IF n = 0 THEN <<>> ELSE AddCondition(f[n - 1], conds[n])]

LEMMA MergingExists ==
    ASSUME NEW conds, NEW m \in Nat
    PROVE  \E f : MergingUpTo(conds, m, f)
<1> DEFINE lacking == {l \in Nat : ~ \E f : MergingUpTo(conds, l, f)}
<1>1. \E f : MergingUpTo(conds, 0, f)
  <2>1. MergingUpTo(conds, 0, [n \in 0 .. 0 |-> <<>>])
    BY DEF MergingUpTo
  <2> QED
    BY <2>1
<1>2. ASSUME NEW l \in Nat, NEW f, MergingUpTo(conds, l, f) PROVE \E g : MergingUpTo(conds, l + 1, g)
  <2> DEFINE g == [n \in 0 .. l + 1 |-> IF n = l + 1 THEN AddCondition(f[l], conds[l + 1]) ELSE f[n]]
  <2>1. ASSUME NEW n \in 0 .. l + 1 PROVE g[n] = IF n = 0 THEN <<>> ELSE AddCondition(g[n - 1], conds[n])
    <3>1. CASE n = l + 1
      <4>1. g[l] = f[l] /\ n # 0 /\ n - 1 = l
        BY <3>1
      <4> QED
        BY <3>1, <4>1
    <3>2. CASE n # l + 1
      <4>1. n \in 0 .. l
        BY <3>2
      <4>2. f[n] = IF n = 0 THEN <<>> ELSE AddCondition(f[n - 1], conds[n])
        BY <1>2, <4>1 DEF MergingUpTo
      <4>3. n # 0 => n - 1 \in 0 .. l + 1 /\ n - 1 # l + 1
        BY <4>1
      <4> QED
        BY <3>2, <4>2, <4>3
    <3> QED
      BY <3>1, <3>2
  <2>2. MergingUpTo(conds, l + 1, g)
    BY <2>1 DEF MergingUpTo
  <2> QED
    BY <2>2
<1>3. lacking = {}
  <2> SUFFICES ASSUME lacking # {} PROVE FALSE
    OBVIOUS
  <2>1. lacking \in SUBSET Nat
    OBVIOUS
  <2>2. PICK l \in lacking : \A j \in lacking : l <= j
    BY <2>1, LeastNatural
  <2>3. l # 0 /\ l \in Nat
    BY <1>1, <2>2
  <2>4. l - 1 \in Nat /\ ~(l <= l - 1) /\ (l - 1) + 1 = l
    BY <2>3
  <2>5. PICK f : MergingUpTo(conds, l - 1, f)
    BY <2>2, <2>4
  <2>6. \E g : MergingUpTo(conds, l, g)
    BY <1>2, <2>4, <2>5
  <2> QED
    BY <2>2, <2>6
<1> QED
  BY <1>3

LEMMA MergeIs ==
    ASSUME NEW a, IsCondition(a), NEW b
    PROVE  IsCondition(Merge(a, b)) /\ Merge(a, b).field = a.field /\ Merge(a, b).names = a.names
BY DEF Merge, Fails, IsCondition

LEMMA ConditionAdded ==
    ASSUME NEW merged, Conds(merged), NEW c, IsCondition(c)
    PROVE  Conds(AddCondition(merged, c))
<1>1. CASE \E i \in DOMAIN merged : merged[i].field = c.field
  <2> DEFINE n    == Len(merged)
             more == [i \in DOMAIN merged |-> IF merged[i].field = c.field THEN Merge(merged[i], c) ELSE merged[i]]
  <2>1. n \in Nat /\ DOMAIN merged = 1 .. n /\ \A i \in 1 .. n : IsCondition(merged[i])
    BY ListIs DEF Conds
  <2>2. more = [i \in 1 .. n |-> more[i]]
    BY <2>1
  <2>3. \A i \in 1 .. n : IsCondition(more[i])
    BY <2>1, MergeIs
  <2>4. AddCondition(merged, c) = more
    BY <1>1 DEF AddCondition
  <2> HIDE DEF more
  <2>5. Listed(more) /\ ToSet(more) = {more[i] : i \in 1 .. n}
    BY <2>1, <2>2, Indexed
  <2> QED
    BY <2>3, <2>4, <2>5 DEF Conds
<1>2. CASE ~ \E i \in DOMAIN merged : merged[i].field = c.field
  <2>1. AddCondition(merged, c) = Append(merged, c)
    BY <1>2 DEF AddCondition
  <2> QED
    BY <2>1, AppendElements DEF Conds
<1> QED
  BY <1>1, <1>2

LEMMA ConditionsMerged ==
    ASSUME NEW conds, Conds(conds)
    PROVE  Conds(MergeConditions(conds))
<1> DEFINE m     == Len(conds)
           f     == CHOOSE g : MergingUpTo(conds, m, g)
           wrong == {n \in 0 .. m : ~Conds(f[n])}
<1>1. m \in Nat /\ \A n \in 1 .. m : IsCondition(conds[n])
  BY ListIs DEF Conds
<1>2. MergingUpTo(conds, m, f)
  BY <1>1, MergingExists
<1>3. MergeConditions(conds) = f[m]
  BY DEF MergeConditions, MergingUpTo
<1> HIDE DEF f
<1>4. \A n \in 0 .. m : f[n] = IF n = 0 THEN <<>> ELSE AddCondition(f[n - 1], conds[n])
  BY <1>2 DEF MergingUpTo
<1>5. Conds(f[0])
  BY <1>1, <1>4, NoElements DEF Conds
<1>6. ASSUME NEW n \in 1 .. m, Conds(f[n - 1]) PROVE Conds(f[n])
  BY <1>1, <1>4, <1>6, ConditionAdded
<1>7. wrong = {}
  <2> SUFFICES ASSUME wrong # {} PROVE FALSE
    OBVIOUS
  <2>1. wrong \in SUBSET Nat
    OBVIOUS
  <2>2. PICK n \in wrong : \A j \in wrong : n <= j
    BY <2>1, LeastNatural
  <2>3. n \in 1 .. m
    BY <1>1, <1>5, <2>2
  <2>4. n - 1 \in 0 .. m /\ n - 1 \notin wrong
    BY <2>2, <2>3
  <2>5. Conds(f[n - 1])
    BY <2>4
  <2> QED
    BY <1>6, <2>2, <2>3, <2>5
<1>8. m \in 0 .. m /\ m \notin wrong
  BY <1>1, <1>7
<1> QED
  BY <1>3, <1>8

-----------------------------------------------------------------------------
(* What a policy is made of, and what the builder makes of it.             *)
IsValue(v) ==
    /\ DOMAIN v = DOMAIN NoValue
    /\ Listed(v.set) /\ Listed(v.added) /\ Listed(v.removed)
IsAction(a)  == DOMAIN a = {"field", "type", "v"} /\ IsValue(a.v)
Deeds(then)  == Listed(then) /\ \A a \in ToSet(then) : IsAction(a)
IsSaid(s)    == Conds(s.match) /\ Deeds(s.then)
SaidAll(ss)  == Listed(ss) /\ \A s \in ToSet(ss) : IsSaid(s)
IsBuilt(s)   ==
    /\ DOMAIN s = {"name", "number", "conds", "match", "then", "result", "custom", "calls"}
    /\ IsSaid(s)
    /\ DOMAIN s.custom = ToSet(CustomFields) /\ \A f \in ToSet(CustomFields) : IsValue(s.custom[f])
Policed(ps)  == Listed(ps) /\ \A p \in ToSet(ps) : SaidAll(p.statements)

LEMMA NothingAsked == IsValue(NoValue)
BY NoElements DEF IsValue, NoValue

LEMMA NumberHeld ==
    ASSUME NEW v, IsValue(v), NEW num
    PROVE  IsValue([v EXCEPT !.num = num])
BY DEF IsValue, NoValue

LEMMA ValueAmended ==
    ASSUME NEW v, IsValue(v), NEW c, IsList(c.names)
    PROVE  c.m \in {"add", "remove", "set", "prepend", "delete", "expand", "last", "target"} => IsValue(Amend(v, c))
<1>1. Listed(c.names)
  BY DEF Listed, IsList
<1>2. Listed(v.added \o c.names) /\ Listed(v.removed \o c.names)
  BY <1>1, ListsJoined DEF IsValue
<1> QED
  BY <1>1, <1>2, NothingAsked DEF Amend, IsValue, NoValue

LEMMA FieldSet ==
    ASSUME NEW then, Deeds(then), NEW field, NEW num
    PROVE  Deeds(SetField(then, field, num)) /\ Deeds(AddMetric(then, num))
<1> DEFINE n     == Len(then)
           new   == FieldAction(field, "set", num)
           added == FieldAction("metric", "add", num)
           Sum(a) == [a EXCEPT !.v.num = IF a.type = "set" THEN @ + num ELSE num]
           setAt == [i \in DOMAIN then |-> IF then[i].field = field THEN new ELSE then[i]]
           addAt == [i \in DOMAIN then |-> IF then[i].field = "metric" THEN Sum(then[i]) ELSE then[i]]
<1>1. n \in Nat /\ DOMAIN then = 1 .. n /\ \A i \in 1 .. n : IsAction(then[i])
  BY ListIs DEF Deeds
<1>2. IsAction(new) /\ IsAction(added)
  BY NumberHeld, NothingAsked DEF FieldAction, IsAction
<1>3. \A a : IsAction(a) => IsAction(Sum(a))
  <2> SUFFICES ASSUME NEW a, IsAction(a) PROVE IsAction(Sum(a))
    OBVIOUS
  <2> DEFINE k == IF a.type = "set" THEN a.v.num + num ELSE num
  <2>1. Sum(a) = [a EXCEPT !.v = [a.v EXCEPT !.num = k]]
    BY DEF IsAction
  <2>2. IsValue([a.v EXCEPT !.num = k])
    BY NumberHeld DEF IsAction
  <2> HIDE DEF k
  <2> QED
    BY <2>1, <2>2 DEF IsAction
<1>4. SetField(then, field, num) = IF Mentions(then, field) THEN setAt ELSE Append(then, new)
  BY DEF SetField, OnField
<1>5. AddMetric(then, num) = IF Mentions(then, "metric") THEN addAt ELSE Append(then, added)
  BY DEF AddMetric, OnField
<1>6. setAt = [i \in 1 .. n |-> setAt[i]] /\ \A i \in 1 .. n : IsAction(setAt[i])
  BY <1>1, <1>2
<1>7. addAt = [i \in 1 .. n |-> addAt[i]] /\ \A i \in 1 .. n : IsAction(addAt[i])
  BY <1>1, <1>3
<1> HIDE DEF setAt, addAt, new, added
<1>8. Deeds(setAt) /\ Deeds(addAt)
  <2>1. Listed(setAt) /\ ToSet(setAt) = {setAt[i] : i \in 1 .. n}
    BY <1>1, <1>6, Indexed
  <2>2. Listed(addAt) /\ ToSet(addAt) = {addAt[i] : i \in 1 .. n}
    BY <1>1, <1>7, Indexed
  <2> QED
    BY <1>6, <1>7, <2>1, <2>2 DEF Deeds
<1>9. Deeds(Append(then, new)) /\ Deeds(Append(then, added))
  BY <1>2, AppendElements DEF Deeds
<1> QED
  BY <1>4, <1>5, <1>8, <1>9

LEMMA Called1 ==
    ASSUME NEW s, IsBuilt(s), NEW c, IsCall(c)
    PROVE  IsBuilt(Call(s, c))
<1>1. Deeds(SetField(s.then, c.field, c.num)) /\ Deeds(AddMetric(s.then, c.num))
  BY FieldSet DEF IsBuilt, IsSaid
<1>2. c.field \in ToSet(CustomFields) => IsValue(Amend(s.custom[c.field], c))
  BY ValueAmended DEF IsBuilt, IsCall
<1>3. /\ Call(s, c).match = s.match
      /\ DOMAIN Call(s, c) = DOMAIN s
  BY DEF Call, IsBuilt
<1>4. Call(s, c).then \in {SetField(s.then, c.field, c.num), AddMetric(s.then, c.num), s.then}
  BY DEF Call, IsBuilt
<1>5. Call(s, c).custom = IF c.field \in DOMAIN s.custom THEN [s.custom EXCEPT ![c.field] = Amend(@, c)] ELSE s.custom
  BY DEF Call, IsBuilt
<1>6. IsSaid(Call(s, c))
  BY <1>1, <1>3, <1>4 DEF IsBuilt, IsSaid
<1>7. DOMAIN Call(s, c).custom = ToSet(CustomFields) /\ \A f \in ToSet(CustomFields) : IsValue(Call(s, c).custom[f])
  BY <1>2, <1>5 DEF IsBuilt
<1> QED
  BY <1>3, <1>6, <1>7 DEF IsBuilt

LEMMA Left ==
    ASSUME NEW s, IsBuilt(s), NEW result
    PROVE  IsSaid(LeaveWith(s, result))
<1> DEFINE names == Leaving(s)
           Custom(f) == [field |-> f, type |-> "custom", v |-> s.custom[f]]
           last  == [i \in DOMAIN names |-> [field |-> names[i], type |-> "custom", v |-> s.custom[names[i]]]]
           pieces == [i \in DOMAIN CustomFields |-> IF Asks(s.custom[CustomFields[i]]) THEN <<CustomFields[i]>> ELSE <<>>]
           asked == {i \in DOMAIN CustomFields : Asks(s.custom[CustomFields[i]])}
<1>1. DOMAIN CustomFields = 1 .. 7 /\ Len(CustomFields) = 7
  BY DEF CustomFields
<1>2. names = FlattenSeq(pieces)
  BY DEF Leaving, Those, Collect
<1>3. pieces = [i \in 1 .. 7 |-> pieces[i]] /\ \A i \in 1 .. 7 : pieces[i] = IF i \in asked THEN <<CustomFields[i]>> ELSE <<>>
  BY <1>1
<1> HIDE DEF pieces, asked, names
<1>4. Listed(FlattenSeq(pieces)) /\ ToSet(FlattenSeq(pieces)) = ValuesAt(7, asked, CustomFields)
  <2>1. 7 \in Nat
    OBVIOUS
  <2> QED
    BY <1>3, <2>1, Gathered
<1>5. \A i \in DOMAIN names : names[i] \in ToSet(CustomFields)
  BY <1>1, <1>2, <1>4, ListIs DEF ValuesAt, ToSet
<1>6. Len(names) \in Nat /\ DOMAIN names = 1 .. Len(names)
  BY <1>2, <1>4, ListIs
<1>7. last = [i \in 1 .. Len(names) |-> last[i]] /\ \A i \in 1 .. Len(names) : IsAction(last[i])
  BY <1>5, <1>6 DEF IsBuilt, IsAction
<1>8. LeaveWith(s, result).match = s.match /\ LeaveWith(s, result).then = s.then \o last
  BY DEF LeaveWith, names
<1> HIDE DEF last
<1>9. Deeds(last)
  BY <1>6, <1>7, Indexed DEF Deeds
<1>10. Deeds(s.then \o last)
  BY <1>9, ListsJoined DEF Deeds, IsBuilt, IsSaid
<1> QED
  BY <1>8, <1>10 DEF IsSaid, IsBuilt

LEMMA New ==
    ASSUME NEW name, NEW number, NEW conds, Conds(conds)
    PROVE  IsBuilt(NewStatement(name, number, conds))
<1>1. Conds(MergeConditions(conds)) /\ Deeds(<<>>)
  BY ConditionsMerged, NoElements DEF Deeds
<1> QED
  BY <1>1, NothingAsked DEF NewStatement, IsBuilt, IsSaid

(* While policies are built.                                               *)
BuildInv ==
    /\ subject \in DOMAIN Subjects /\ parts \in Int
    /\ IsBuilt(open) /\ SaidAll(statements) /\ Policed(policies)

(* Whatever a handler asks of Route and of the builder, the statements it  *)
(* makes have conditions the factories can make, merged, and actions with  *)
(* lists of names, each of a known kind.                                   *)
THEOREM BuildInvHolds == Spec => []BuildInv
<1>1. Init => BuildInv
  <2> SUFFICES ASSUME Init PROVE BuildInv
    OBVIOUS
  <2>1. Conds(<<>>) /\ SaidAll(<<>>) /\ Policed(<<>>)
    BY NoElements DEF Conds, SaidAll, Policed
  <2>2. IsBuilt(open) /\ SaidAll(statements) /\ Policed(policies)
    BY <2>1, New DEF Init, Closed
  <2>3. subject \in DOMAIN Subjects /\ parts \in Int
    BY DEF Init
  <2> QED
    BY <2>2, <2>3 DEF BuildInv
<1>2. BuildInv /\ [Next]_vars => BuildInv'
  <2> SUFFICES ASSUME BuildInv, [Next]_vars PROVE BuildInv'
    OBVIOUS
  <2>1. ASSUME NEW conds \in BoundedSeq(it.conds, MaxParts - parts), NEW name \in it.names, NEW number \in it.numbers,
               CallRoute(conds, name, number)
        PROVE  BuildInv'
    <3>1. PICK m \in 0 .. MaxParts - parts : conds \in [1 .. m -> it.conds]
      BY DEF BoundedSeq, SeqOf
    <3>2. MaxParts - parts \in Int /\ m \in Nat
      BY RplAssumption DEF BuildInv
    <3> HIDE DEF it
    <3>3. conds \in Seq(it.conds)
      BY <3>1, <3>2, FunctionSeq
    <3>4. Listed(conds) /\ ToSet(conds) \subseteq it.conds /\ Len(conds) \in Nat
      BY <3>3, SeqElements
    <3>5. \A c \in it.conds : IsCondition(c)
      BY RplAssumption DEF it, BuildInv
    <3>6. IsBuilt(NewStatement(name, number, conds))
      BY <3>5, <3>4, New DEF Conds
    <3> QED
      BY <2>1, <3>6, <3>4 DEF CallRoute, BuildInv
  <2>2. ASSUME NEW c \in it.calls, CallBuilder(c) PROVE BuildInv'
    <3>1. IsBuilt(Call(open, c))
      BY RplAssumption, Called1 DEF it, BuildInv
    <3> QED
      BY <2>2, <3>1 DEF CallBuilder, BuildInv
  <2>3. ASSUME NEW result \in it.results, Leave(result) PROVE BuildInv'
    <3>1. IsSaid(LeaveWith(open, result)) /\ IsBuilt(Closed)
      BY Left, New, NoElements DEF BuildInv, Closed, Conds
    <3>2. SaidAll(Append(statements, LeaveWith(open, result)))
      BY <3>1, AppendElements DEF BuildInv, SaidAll
    <3> QED
      BY <2>3, <3>1, <3>2 DEF Leave, BuildInv
  <2>4. CASE EndHandler
    <3> DEFINE p == [name |-> handlers[turn], statements |-> statements]
    <3>1. Policed(Append(policies, p)) /\ SaidAll(<<>>)
      BY AppendElements, NoElements DEF BuildInv, Policed, SaidAll
    <3> QED
      BY <2>4, <3>1 DEF EndHandler, BuildInv
  <2>5. ASSUME NEW vendor \in Vendors, Generate(vendor) PROVE BuildInv'
    BY <2>5 DEF Generate, BuildInv
  <2>6. CASE UNCHANGED vars
    BY <2>6 DEF vars, BuildInv
  <2> QED
    BY <2>1, <2>2, <2>3, <2>4, <2>5, <2>6 DEF Next
<1> QED
  BY <1>1, <1>2, PTL DEF Spec

-----------------------------------------------------------------------------
(* What the policies hold.                                                 *)
PrefixConds(ps) == {c \in Conditions(ps) : OfPrefix(c)}

OneFamilyIn(ps) ==
    \A c, d \in PrefixConds(ps) : c.field # d.field => ToSet(c.names) \cap ToSet(d.names) = {}

WellTypedIn(store, ps) ==
    /\ \A c \in CommunityConditions(ps) : \A n \in ToSet(c.names) :
          Named(store.comms, n).type = TypeOf[c.field]
    /\ \A a \in Actions(ps) : a.field \in CommunityFields =>
          \A n \in NamesOf(a.v) : Named(store.comms, n).type = TypeOf[a.field]

Given(vendor, store, ps) ==
    /\ vendor \in DOMAIN MatchMap /\ Policed(ps)
    /\ OneFamilyIn(ps) /\ WellTypedIn(store, ps)
    /\ ~PoliciesRaise(vendor, store, ps)

LEMMA StatementIs ==
    ASSUME NEW ps, Policed(ps), NEW s \in Statements(ps)
    PROVE  /\ IsSaid(s)
           /\ \A c \in ToSet(s.match) : IsCondition(c) /\ c \in Conditions(ps)
           /\ \A a \in ToSet(s.then) : IsAction(a) /\ a \in Actions(ps)
<1>1. PICK i \in DOMAIN ps : s \in ToSet(ps[i].statements)
  BY DEF Statements
<1>2. ps[i] \in ToSet(ps)
  BY DEF ToSet
<1>3. IsSaid(s)
  BY <1>1, <1>2 DEF Policed, SaidAll
<1>4. ToSet(s.match) \subseteq Conditions(ps) /\ ToSet(s.then) \subseteq Actions(ps)
  BY DEF Conditions, Actions
<1> QED
  BY <1>3, <1>4 DEF IsSaid, Conds, Deeds

LEMMA ConditionIs ==
    ASSUME NEW ps, Policed(ps), NEW c \in Conditions(ps)
    PROVE  IsCondition(c)
<1>1. PICK s \in Statements(ps) : c \in ToSet(s.match)
  BY DEF Conditions
<1> QED
  BY <1>1, StatementIs

-----------------------------------------------------------------------------
(* Community lists: those a vendor's generator writes.                     *)
Wanted(vendor, ps) ==
    IF Uniteds(vendor) THEN UnitedCommunities(ps) ELSE {Single(n) : n \in UsedCommunities(ps)}

LEMMA ListThere ==
    ASSUME NEW vendor, NEW store, NEW ps, NEW names, NEW t,
           names \in Wanted(vendor, ps), ToSet(names) # {},
           \A n \in ToSet(names) : Named(store.comms, n).type = t
    PROVE  Of(CommunityLists(vendor, store, ps), KindOf(vendor, t), names) # {}
<1> DEFINE lists == {Named(store.comms, n) : n \in ToSet(names)}
           l     == ListOf(vendor, store, names)
<1>1. l \in CommunityLists(vendor, store, ps)
  BY DEF CommunityLists, Wanted
<1>2. (CHOOSE c \in lists : TRUE) \in lists
  <2>1. lists # {}
    OBVIOUS
  <2> QED
    BY <2>1
<1>3. (CHOOSE c \in lists : TRUE).type = t
  BY <1>2
<1>4. l.kind = KindOf(vendor, t) /\ l.name = names
  BY <1>3 DEF ListOf, Mangle
<1> QED
  BY <1>1, <1>4 DEF Of

(* The names of a condition, one by one or, of has_any, united.            *)
LEMMA ConditionThere ==
    ASSUME NEW vendor, NEW store, NEW ps, Given(vendor, store, ps), NEW c \in CommunityConditions(ps)
    PROVE  LET kind  == KindOf(vendor, TypeOf[c.field])
               lists == CommunityLists(vendor, store, ps)
           IN /\ ~(Uniteds(vendor) /\ c.op = "has_any") =>
                     \A n \in ToSet(c.names) : Of(lists, kind, Single(n)) # {}
              /\ Uniteds(vendor) /\ c.op = "has_any" => Of(lists, kind, c.names) # {}
<1> DEFINE t == TypeOf[c.field]
<1>1. c \in Conditions(ps) /\ IsCondition(c) /\ Listed(c.names)
  BY ConditionIs DEF Given, CommunityConditions, CommunityFields, IsCondition, Listed, IsList
<1>2. \A n \in ToSet(c.names) : Named(store.comms, n).type = t
  BY DEF Given, WellTypedIn
<1>3. c.names = [i \in 1 .. Len(c.names) |-> c.names[i]] /\ ToSet(c.names) = {c.names[i] : i \in 1 .. Len(c.names)}
  BY <1>1, ListIs
<1>4. Len(c.names) \in Nat /\ (c.op = "has_any" => Len(c.names) # 0)
  BY <1>1, ListIs DEF IsCondition
<1>5. ASSUME c.op = "has_any" PROVE ToSet(c.names) # {}
  <2>1. 1 \in 1 .. Len(c.names)
    BY <1>4, <1>5
  <2> QED
    BY <1>3, <2>1
<1>6. \A n : ToSet(Single(n)) = {n}
  BY OneElement DEF Single
<1> HIDE DEF t
<1>7. ASSUME ~(Uniteds(vendor) /\ c.op = "has_any"), NEW n \in ToSet(c.names)
      PROVE  Of(CommunityLists(vendor, store, ps), KindOf(vendor, t), Single(n)) # {}
  <2>1. Single(n) \in Wanted(vendor, ps)
    BY <1>7 DEF Wanted, UnitedCommunities, UsedCommunities
  <2> QED
    BY <1>2, <1>6, <2>1, ListThere
<1>8. ASSUME Uniteds(vendor), c.op = "has_any"
      PROVE  Of(CommunityLists(vendor, store, ps), KindOf(vendor, t), c.names) # {}
  <2>1. CASE Len(c.names) > 1
    <3>1. c.names \in UnitedCommunities(ps)
      BY <1>8, <2>1 DEF UnitedCommunities
    <3>2. c.names \in Wanted(vendor, ps)
      BY <1>8, <3>1 DEF Wanted
    <3> QED
      BY <1>2, <1>5, <1>8, <3>2, ListThere
  <2>2. CASE Len(c.names) = 1
    <3>1. c.names = Single(c.names[1]) /\ c.names[1] \in ToSet(c.names)
      BY <1>3, <2>2 DEF Single
    <3>2. Single(c.names[1]) \in Wanted(vendor, ps)
      BY <1>8, <2>2, <3>1 DEF Wanted, UnitedCommunities
    <3> QED
      BY <1>2, <1>5, <1>8, <3>1, <3>2, ListThere
  <2>3. Len(c.names) = 1 \/ Len(c.names) > 1
    <3>1. \A m \in Nat : m # 0 => m = 1 \/ m > 1
      OBVIOUS
    <3> QED
      BY <1>4, <1>8, <3>1
  <2> QED
    BY <2>1, <2>2, <2>3
<1> QED
  BY <1>7, <1>8 DEF t

(* The names of an action on communities.                                  *)
LEMMA ActionThere ==
    ASSUME NEW vendor, NEW store, NEW ps, NEW a \in Actions(ps), NEW n \in NamesOf(a.v),
           a.field \in CommunityFields \/ (a.field = "extcommunity" /\ ~Uniteds(vendor))
    PROVE  Of(CommunityLists(vendor, store, ps), KindOf(vendor, Named(store.comms, n).type), Single(n)) # {}
<1>1. ToSet(Single(n)) = {n}
  BY OneElement DEF Single
<1>2. a.field \in CommunityFields => n \in ActionNames(ps, CommunityFields) /\ n \in ActionNames(ps, CommunityFields \cup {"extcommunity"})
  BY DEF ActionNames
<1>3. a.field = "extcommunity" => n \in ActionNames(ps, CommunityFields \cup {"extcommunity"})
  BY DEF ActionNames
<1>4. Single(n) \in Wanted(vendor, ps)
  <2>1. CASE Uniteds(vendor)
    BY <1>2, <2>1 DEF Wanted, UnitedCommunities
  <2>2. CASE ~Uniteds(vendor)
    BY <1>2, <1>3, <2>2 DEF Wanted, UsedCommunities
  <2> QED
    BY <2>1, <2>2
<1> QED
  BY <1>1, <1>4, ListThere

-----------------------------------------------------------------------------
(* Prefix lists: the uses of lists in conditions, and one list of a name.  *)
UseOf(n, c)        == [name |-> n, c |-> c]
UsesBy(c)          == {UseOf(n, c) : n \in ToSet(c.names)}
UsesOf(conds)      == UNION {UsesBy(c) : c \in conds}
OnField1(match, f) == {c \in ToSet(match) : c.field = f}

LEMMA UsesOfField ==
    ASSUME NEW match, Conds(match), NEW f
    PROVE  LET found == FlattenSeq([i \in DOMAIN match |->
                            IF match[i].field = f
                            THEN [j \in DOMAIN match[i].names |-> [name |-> match[i].names[j], c |-> match[i]]]
                            ELSE <<>>])
           IN Listed(found) /\ ToSet(found) = UsesOf(OnField1(match, f))
<1> DEFINE n     == Len(match)
           Use(i) == [j \in DOMAIN match[i].names |-> [name |-> match[i].names[j], c |-> match[i]]]
           pieces == [i \in DOMAIN match |-> IF match[i].field = f THEN Use(i) ELSE <<>>]
<1>1. n \in Nat /\ DOMAIN match = 1 .. n /\ ToSet(match) = {match[i] : i \in 1 .. n}
  BY ListIs DEF Conds
<1>2. \A i \in 1 .. n : Listed(match[i].names)
  BY <1>1 DEF Conds, IsCondition, Listed, IsList
<1>3. ASSUME NEW i \in 1 .. n
      PROVE  Listed(Use(i)) /\ ToSet(Use(i)) = UsesBy(match[i])
  <2> DEFINE names == match[i].names  m == Len(names)
  <2>1. m \in Nat /\ DOMAIN names = 1 .. m /\ ToSet(names) = {names[j] : j \in 1 .. m}
    BY <1>2, ListIs
  <2>2. Use(i) = [j \in 1 .. m |-> Use(i)[j]] /\ \A j \in 1 .. m : Use(i)[j] = UseOf(names[j], match[i])
    BY <2>1 DEF UseOf
  <2> HIDE DEF Use
  <2>3. Listed(Use(i)) /\ ToSet(Use(i)) = {Use(i)[j] : j \in 1 .. m}
    BY <2>1, <2>2, Indexed
  <2>4. {Use(i)[j] : j \in 1 .. m} = {UseOf(names[j], match[i]) : j \in 1 .. m}
    BY <2>2
  <2>5. {UseOf(names[j], match[i]) : j \in 1 .. m} = UsesBy(match[i])
    BY <2>1 DEF UsesBy
  <2> QED
    BY <2>3, <2>4, <2>5
<1>4. pieces = [i \in 1 .. n |-> pieces[i]] /\ \A i \in 1 .. n : pieces[i] = IF match[i].field = f THEN Use(i) ELSE <<>>
  BY <1>1
<1> HIDE DEF pieces, Use
<1>5. \A i \in 1 .. n : Listed(pieces[i])
  BY <1>3, <1>4, NoElements
<1>6. Listed(FlattenSeq(pieces)) /\ ToSet(FlattenSeq(pieces)) = UNION {ToSet(pieces[i]) : i \in 1 .. n}
  BY <1>1, <1>4, <1>5, Collected
<1>7. \A i \in 1 .. n : ToSet(pieces[i]) = IF match[i].field = f THEN UsesBy(match[i]) ELSE {}
  BY <1>3, <1>4, NoElements
<1>8. ASSUME NEW u
      PROVE  u \in UNION {ToSet(pieces[i]) : i \in 1 .. n} <=> u \in UsesOf(OnField1(match, f))
  <2>1. u \in UNION {ToSet(pieces[i]) : i \in 1 .. n} <=> \E i \in 1 .. n : match[i].field = f /\ u \in UsesBy(match[i])
    BY <1>7
  <2>2. u \in UsesOf(OnField1(match, f)) <=> \E i \in 1 .. n : match[i].field = f /\ u \in UsesBy(match[i])
    BY <1>1 DEF UsesOf, OnField1
  <2> QED
    BY <2>1, <2>2
<1> QED
  BY <1>6, <1>8 DEF pieces, Use

LEMMA UsesOfStatement ==
    ASSUME NEW s, IsSaid(s)
    PROVE  Listed(UsesIn(s)) /\ ToSet(UsesIn(s)) = UsesOf({c \in ToSet(s.match) : OfPrefix(c)})
<1> DEFINE Found(f) == FlattenSeq([i \in DOMAIN s.match |->
                            IF s.match[i].field = f
                            THEN [j \in DOMAIN s.match[i].names |-> [name |-> s.match[i].names[j], c |-> s.match[i]]]
                            ELSE <<>>])
<1>1. UsesIn(s) = Found("ip_prefix") \o Found("ipv6_prefix")
  BY DEF UsesIn
<1>2. \A f : Listed(Found(f)) /\ ToSet(Found(f)) = UsesOf(OnField1(s.match, f))
  BY UsesOfField DEF IsSaid
<1> HIDE DEF Found
<1>3. Listed(UsesIn(s)) /\ ToSet(UsesIn(s)) = UsesOf(OnField1(s.match, "ip_prefix")) \cup UsesOf(OnField1(s.match, "ipv6_prefix"))
  BY <1>1, <1>2, ListsJoined
<1>4. UsesOf(OnField1(s.match, "ip_prefix")) \cup UsesOf(OnField1(s.match, "ipv6_prefix"))
          = UsesOf(OnField1(s.match, "ip_prefix") \cup OnField1(s.match, "ipv6_prefix"))
  BY DEF UsesOf
<1>5. OnField1(s.match, "ip_prefix") \cup OnField1(s.match, "ipv6_prefix") = {c \in ToSet(s.match) : OfPrefix(c)}
  BY DEF OnField1, OfPrefix
<1> QED
  BY <1>3, <1>4, <1>5

LEMMA UsesOfPolicies ==
    ASSUME NEW ps, Policed(ps)
    PROVE  Listed(PrefixUses(ps)) /\ ToSet(PrefixUses(ps)) = UsesOf(PrefixConds(ps))
<1> DEFINE n     == Len(ps)
           In(i) == [j \in DOMAIN ps[i].statements |-> UsesIn(ps[i].statements[j])]
           pieces == [i \in DOMAIN ps |-> FlattenSeq(In(i))]
           Of1(s) == UsesOf({c \in ToSet(s.match) : OfPrefix(c)})
<1>1. n \in Nat /\ DOMAIN ps = 1 .. n /\ \A i \in 1 .. n : SaidAll(ps[i].statements)
  BY ListIs DEF Policed
<1>2. ASSUME NEW i \in 1 .. n
      PROVE  Listed(FlattenSeq(In(i))) /\ ToSet(FlattenSeq(In(i))) = UNION {Of1(s) : s \in ToSet(ps[i].statements)}
  <2> DEFINE ss == ps[i].statements  m == Len(ss)  uses == In(i)
  <2>1. m \in Nat /\ DOMAIN ss = 1 .. m /\ ToSet(ss) = {ss[j] : j \in 1 .. m}
    BY <1>1, ListIs DEF SaidAll
  <2>2. uses = [j \in 1 .. m |-> uses[j]] /\ \A j \in 1 .. m : uses[j] = UsesIn(ss[j])
    BY <2>1
  <2>3. \A j \in 1 .. m : Listed(UsesIn(ss[j])) /\ ToSet(UsesIn(ss[j])) = Of1(ss[j])
    BY <1>1, <2>1, UsesOfStatement DEF SaidAll
  <2> HIDE DEF uses, Of1
  <2>4. Listed(FlattenSeq(uses)) /\ ToSet(FlattenSeq(uses)) = UNION {ToSet(uses[j]) : j \in 1 .. m}
    <3>1. \A j \in 1 .. m : Listed(uses[j])
      BY <2>2, <2>3
    <3> QED
      BY <2>1, <2>2, <3>1, Collected
  <2>5. {ToSet(uses[j]) : j \in 1 .. m} = {Of1(ss[j]) : j \in 1 .. m}
    <3>1. \A j \in 1 .. m : ToSet(uses[j]) = Of1(ss[j])
      BY <2>2, <2>3
    <3> QED
      BY <3>1
  <2>6. {Of1(ss[j]) : j \in 1 .. m} = {Of1(s) : s \in ToSet(ss)}
    BY <2>1
  <2> QED
    BY <2>4, <2>5, <2>6 DEF uses
<1>3. pieces = [i \in 1 .. n |-> pieces[i]] /\ \A i \in 1 .. n : pieces[i] = FlattenSeq(In(i))
  BY <1>1
<1>4. PrefixUses(ps) = FlattenSeq(pieces)
  BY DEF PrefixUses
<1> HIDE DEF pieces, In, Of1
<1>5. Listed(FlattenSeq(pieces)) /\ ToSet(FlattenSeq(pieces)) = UNION {ToSet(pieces[i]) : i \in 1 .. n}
  BY <1>1, <1>2, <1>3, Collected
<1>6. UNION {ToSet(pieces[i]) : i \in 1 .. n} = UNION {UNION {Of1(s) : s \in ToSet(ps[i].statements)} : i \in 1 .. n}
  BY <1>2, <1>3
<1>7. UNION {UNION {Of1(s) : s \in ToSet(ps[i].statements)} : i \in 1 .. n} = UNION {Of1(s) : s \in Statements(ps)}
  BY <1>1 DEF Statements
<1>8. UNION {Of1(s) : s \in Statements(ps)} = UsesOf(PrefixConds(ps))
  BY DEF Of1, UsesOf, PrefixConds, Conditions
<1> QED
  BY <1>4, <1>5, <1>6, <1>7, <1>8

(* A name of a list is of one user's name.                                 *)
LEMMA OneUserName ==
    ASSUME NEW vendor, NEW store, NEW n, NEW c, NEW k, NEW d,
           PrefixName(vendor, store, n, c) = PrefixName(vendor, store, k, d)
    PROVE  n = k
<1>1. \A x, e : PrefixName(vendor, store, x, e) = <<x>> \/ PrefixName(vendor, store, x, e) = <<x, e.lo, e.hi>>
  BY DEF PrefixName, JuniperPrefix, GetPrefix
<1>2. \A x, e : PrefixName(vendor, store, x, e)[1] = x
  <2> TAKE x, e
  <2> DEFINE name == PrefixName(vendor, store, x, e)
  <2>1. name = <<x>> \/ name = <<x, e.lo, e.hi>>
    BY <1>1
  <2> HIDE DEF name
  <2>2. name[1] = x
    BY <2>1
  <2> QED
    BY <2>2 DEF name
<1> QED
  BY <1>2

(* Juniper: whether a list is a route filter can be told from its name.    *)
LEMMA OneJuniperType ==
    ASSUME NEW store, NEW n, NEW c, NEW d, IsCondition(c), IsCondition(d), c.field = d.field,
           JuniperPrefix(store, n, c).name = JuniperPrefix(store, n, d).name
    PROVE  JuniperType(store, n, c) = JuniperType(store, n, d)
<1> DEFINE members == Named(store.prefixes, n).members
           plain   == Flavour(members, MaxLen(c.field))
<1>1. \A e : IsCondition(e) /\ e.field = c.field => FlavourOf(store, n, Plain(e)) = plain
  BY DEF FlavourOf, GetPrefix, Plain, Overrides, IsCondition
<1>2. \A e : IsCondition(e) /\ e.field = c.field /\ ~Overrides(e) => FlavourOf(store, n, e) = plain
  BY DEF FlavourOf, GetPrefix
<1>3. \A e : JuniperPrefix(store, n, e).name = IF FlavourOf(store, n, e) = "custom" /\ Overrides(e)
                                               THEN <<n, e.lo, e.hi>> ELSE <<n>>
  BY DEF JuniperPrefix, GetPrefix
<1>4. \A e : IsCondition(e) /\ e.field = c.field =>
                 JuniperType(store, n, e) = IF plain = "custom" \/ (FlavourOf(store, n, e) = "custom" /\ Overrides(e))
                                            THEN "route-filter" ELSE "prefix-list"
  BY <1>1, <1>2 DEF JuniperType
<1> DEFINE Lengths(e) == FlavourOf(store, n, e) = "custom" /\ Overrides(e)
<1>5. \A e : JuniperPrefix(store, n, e).name # <<n>> <=> Lengths(e)
  <2>1. \A e : <<n, e.lo, e.hi>> # <<n>>
    OBVIOUS
  <2> QED
    BY <1>3, <2>1
<1>6. Lengths(c) <=> Lengths(d)
  BY <1>5
<1>7. /\ JuniperType(store, n, c) = IF plain = "custom" \/ Lengths(c) THEN "route-filter" ELSE "prefix-list"
      /\ JuniperType(store, n, d) = IF plain = "custom" \/ Lengths(d) THEN "route-filter" ELSE "prefix-list"
  BY <1>4
<1> HIDE DEF plain, Lengths
<1> QED
  BY <1>6, <1>7

LEMMA PrefixThere ==
    ASSUME NEW vendor, NEW store, NEW ps, Given(vendor, store, ps),
           NEW c \in PrefixConds(ps), NEW n \in ToSet(c.names)
    PROVE  Of(PrefixLists(vendor, store, ps), PrefixKind(vendor, store, n, c), PrefixName(vendor, store, n, c)) # {}
<1> DEFINE uses     == PrefixUses(ps)
           Name1(i) == PrefixName(vendor, store, uses[i].name, uses[i].c)
           alike    == {j \in DOMAIN uses : Name1(j) = PrefixName(vendor, store, n, c)}
<1>1. Listed(uses) /\ ToSet(uses) = UsesOf(PrefixConds(ps))
  BY UsesOfPolicies DEF Given
<1>2. DOMAIN uses = 1 .. Len(uses) /\ Len(uses) \in Nat /\ ToSet(uses) = {uses[i] : i \in 1 .. Len(uses)}
  BY <1>1, ListIs
<1>3. alike # {}
  <2>1. UseOf(n, c) \in ToSet(uses)
    BY <1>1 DEF UsesOf, UsesBy
  <2>2. PICK j \in DOMAIN uses : uses[j] = UseOf(n, c)
    BY <1>2, <2>1
  <2> HIDE DEF uses
  <2>3. j \in alike
    BY <2>2 DEF UseOf
  <2> QED
    BY <2>3
<1>4. PICK j \in alike : \A i \in alike : j <= i
  <2>1. alike \in SUBSET Nat
    BY <1>2
  <2> QED
    BY <1>3, <2>1, LeastNatural
<1>5. \A i \in 1 .. j - 1 : Name1(i) # Name1(j)
  <2> SUFFICES ASSUME NEW i \in 1 .. j - 1, Name1(i) = Name1(j) PROVE FALSE
    OBVIOUS
  <2>1. j \in 1 .. Len(uses) /\ Name1(j) = PrefixName(vendor, store, n, c)
    BY <1>2, <1>4
  <2>2. i \in DOMAIN uses /\ ~(j <= i)
    BY <1>2, <2>1
  <2>3. i \in alike
    BY <2>1, <2>2
  <2> QED
    BY <1>4, <2>2, <2>3
<1> DEFINE k == uses[j].name  d == uses[j].c
<1>6. PrefixList(vendor, store, k, d) \in PrefixLists(vendor, store, ps)
  BY <1>4, <1>5 DEF PrefixLists
<1>7. d \in PrefixConds(ps) /\ k \in ToSet(d.names)
  <2>1. uses[j] \in UsesOf(PrefixConds(ps))
    BY <1>1, <1>2, <1>4
  <2> HIDE DEF uses
  <2> QED
    BY <2>1 DEF UsesOf, UsesBy, UseOf
<1>8. PrefixName(vendor, store, k, d) = PrefixName(vendor, store, n, c)
  BY <1>4
<1> HIDE DEF k, d
<1>9. k = n
  BY <1>8, OneUserName
<1>10. d.field = c.field
  BY <1>7, <1>9 DEF Given, OneFamilyIn
<1>11. IsCondition(c) /\ IsCondition(d)
  BY <1>7, ConditionIs DEF Given, PrefixConds
<1>12. PrefixKind(vendor, store, n, d) = PrefixKind(vendor, store, n, c)
  <2>1. CASE vendor = "juniper"
    <3>1. JuniperPrefix(store, n, c).name = JuniperPrefix(store, n, d).name
      BY <1>8, <1>9, <2>1 DEF PrefixName
    <3>2. JuniperType(store, n, c) = JuniperType(store, n, d)
      BY <1>10, <1>11, <3>1, OneJuniperType
    <3> QED
      BY <2>1, <3>2 DEF PrefixKind
  <2>2. CASE vendor # "juniper"
    BY <1>10, <2>2 DEF PrefixKind
  <2> QED
    BY <2>1, <2>2
<1>13. PrefixList(vendor, store, k, d).kind = PrefixKind(vendor, store, n, c)
       /\ PrefixList(vendor, store, k, d).name = PrefixName(vendor, store, n, c)
  BY <1>8, <1>9, <1>12 DEF PrefixList
<1> QED
  BY <1>6, <1>13 DEF Of

(* As-path filters and rd filters.                                         *)
LEMMA OthersThere ==
    ASSUME NEW vendor, NEW store, NEW ps, Given(vendor, store, ps), NEW c \in Conditions(ps)
    PROVE  LET others == AsPathFilters(store, ps) \cup RdFilters(vendor, store, ps)
           IN /\ c.field = "as_path_filter" => Of(others, "as-path", c.names) # {}
              /\ c.field = "rd" /\ vendor \notin {"arista", "cumulus"} =>
                     \A n \in ToSet(c.names) : Of(others, "rd", Single(RdName(vendor, store, n))) # {}
<1>1. IsCondition(c)
  BY ConditionIs DEF Given
<1>2. ASSUME c.field = "as_path_filter" PROVE Of(AsPathFilters(store, ps), "as-path", c.names) # {}
  <2>1. Len(c.names) = 1 /\ c.names = [i \in 1 .. Len(c.names) |-> c.names[i]] /\ ToSet(c.names) = {c.names[i] : i \in 1 .. Len(c.names)}
    BY <1>1, <1>2, ListIs DEF IsCondition, IsList, Listed
  <2>2. c.names = Single(c.names[1]) /\ c.names[1] \in ToSet(c.names)
    BY <2>1 DEF Single
  <2>3. c.names[1] \in UsedIn(ps, "as_path_filter")
    BY <1>2, <2>2 DEF UsedIn
  <2> DEFINE l == [kind |-> "as-path", name |-> Single(c.names[1]), items |-> Named(store.aspaths, c.names[1]).filters]
  <2>4. l \in AsPathFilters(store, ps)
    BY <2>3 DEF AsPathFilters
  <2>5. l.kind = "as-path" /\ l.name = c.names
    BY <2>2
  <2> QED
    BY <2>4, <2>5 DEF Of
<1>3. ASSUME c.field = "rd", vendor \notin {"arista", "cumulus"}, NEW n \in ToSet(c.names)
      PROVE  Of(RdFilters(vendor, store, ps), "rd", Single(RdName(vendor, store, n))) # {}
  <2>1. n \in UsedIn(ps, "rd")
    BY <1>3 DEF UsedIn
  <2> DEFINE l == [kind |-> "rd", name |-> Single(RdName(vendor, store, n)), items |-> Named(store.rds, n).members]
  <2>2. l \in RdFilters(vendor, store, ps)
    BY <1>3, <2>1 DEF RdFilters
  <2>3. l.kind = "rd" /\ l.name = Single(RdName(vendor, store, n))
    OBVIOUS
  <2> QED
    BY <2>2, <2>3 DEF Of
<1> QED
  BY <1>2, <1>3 DEF Of

-----------------------------------------------------------------------------
(* Rows whose lists are written: those of matches among all lists, where   *)
(* the row is about lists at all, those of bodies among the community      *)
(* lists.                                                                  *)
ReferKinds == CommunityKinds \cup PrefixKinds \cup OtherKinds

ListsFor(part, lists) ==
    IF part = "match" THEN lists.comms \cup lists.prefixes \cup lists.others ELSE lists.comms
HasList(part, lists, kind, name) == Of(ListsFor(part, lists), kind, name) # {}
IsBacked(part, lists, row) ==
    (part = "match" => row.kind \in ReferKinds) => \A i \in DOMAIN row.names : HasList(part, lists, row.kind, row.names[i])
AllBacked(part, lists, rows) == Listed(rows) /\ \A row \in ToSet(rows) : IsBacked(part, lists, row)

LEMMA FewRows ==
    ASSUME NEW part, NEW lists
    PROVE  /\ AllBacked(part, lists, <<>>)
           /\ \A row : IsBacked(part, lists, row) => AllBacked(part, lists, <<row>>)
BY NoElements, OneElement DEF AllBacked

LEMMA RowPerElement ==
    ASSUME NEW part, NEW lists, NEW n \in Nat, NEW rows, rows = [i \in 1 .. n |-> rows[i]],
           \A i \in 1 .. n : IsBacked(part, lists, rows[i])
    PROVE  AllBacked(part, lists, rows)
BY Indexed DEF AllBacked

LEMMA RowsJoined ==
    ASSUME NEW part, NEW lists, NEW s, NEW t, AllBacked(part, lists, s), AllBacked(part, lists, t)
    PROVE  AllBacked(part, lists, s \o t)
BY ListsJoined DEF AllBacked

LEMMA RowsFlat ==
    ASSUME NEW part, NEW lists, NEW n \in Nat, NEW groups, groups = [i \in 1 .. n |-> groups[i]],
           \A i \in 1 .. n : AllBacked(part, lists, groups[i])
    PROVE  AllBacked(part, lists, FlattenSeq(groups))
<1>1. \A i \in 1 .. n : Listed(groups[i])
  BY DEF AllBacked
<1>2. Listed(FlattenSeq(groups)) /\ ToSet(FlattenSeq(groups)) = UNION {ToSet(groups[i]) : i \in 1 .. n}
  BY <1>1, Collected
<1> QED
  BY <1>2 DEF AllBacked

LEMMA OneName ==
    ASSUME NEW part, NEW lists, NEW row, NEW name, row.names = <<name>>,
           (part = "match" => row.kind \in ReferKinds) => HasList(part, lists, row.kind, name)
    PROVE  IsBacked(part, lists, row)
BY DEF IsBacked

LEMMA NoName ==
    ASSUME NEW part, NEW lists, NEW row, row.names = <<>>
    PROVE  IsBacked(part, lists, row)
BY DEF IsBacked

LEMMA ListsAmong ==
    ASSUME NEW vendor, NEW store, NEW ps, NEW kind, NEW name
    PROVE  LET lists == AllLists(vendor, store, ps)
           IN /\ Of(CommunityLists(vendor, store, ps), kind, name) # {} =>
                     HasList("match", lists, kind, name) /\ HasList("body", lists, kind, name)
              /\ Of(PrefixLists(vendor, store, ps), kind, name) # {} => HasList("match", lists, kind, name)
              /\ Of(AsPathFilters(store, ps) \cup RdFilters(vendor, store, ps), kind, name) # {} =>
                     HasList("match", lists, kind, name)
BY DEF HasList, ListsFor, Of, AllLists

-----------------------------------------------------------------------------
(* Matches, by what they are about.                                        *)
LEMMA PlainlyBacked ==
    ASSUME NEW vendor, NEW store, NEW ps, Given(vendor, store, ps), NEW c \in Conditions(ps), ~NotPlain(vendor, c)
    PROVE  AllBacked("match", AllLists(vendor, store, ps), Plainly(c))
<1> DEFINE lists == AllLists(vendor, store, ps)
<1>1. CASE c.field = "as_path_filter"
  <2>1. HasList("match", lists, "as-path", c.names)
    BY <1>1, OthersThere, ListsAmong
  <2> HIDE DEF lists
  <2>2. IsBacked("match", lists, Refer("as-path", c.names))
    BY <2>1, OneName DEF Refer, Refers
  <2> QED
    BY <1>1, <2>2, FewRows DEF Plainly, lists
<1>2. CASE c.field # "as_path_filter"
  <2>1. c.field \in MatchMap[vendor] /\ vendor \in DOMAIN MatchMap
    BY DEF NotPlain, Given
  <2>2. c.field \notin ReferKinds
    BY <2>1 DEF MatchMap, ReferKinds, CommunityKinds, PrefixKinds, OtherKinds
  <2>3. IsBacked("match", lists, Test(c.field, "eq", c.lo, 0))
    BY NoName DEF Test
  <2>4. IsBacked("match", lists, Is(c.field, c.names[1]))
    BY <2>2 DEF IsBacked, Is, Refer, Refers
  <2> QED
    BY <1>2, <2>3, <2>4, FewRows DEF Plainly
<1> QED
  BY <1>1, <1>2

LEMMA ComparesBacked ==
    ASSUME NEW lists, NEW c
    PROVE  AllBacked("match", lists, Compares(c))
<1>1. \A op, lo : IsBacked("match", lists, Test(c.field, op, lo, 0))
  BY NoName DEF Test
<1>2. \A op, lo, op2, lo2 : AllBacked("match", lists, <<Test(c.field, op, lo, 0), Test(c.field, op2, lo2, 0)>>)
  <2> TAKE op, lo, op2, lo2
  <2> DEFINE rows == <<Test(c.field, op, lo, 0), Test(c.field, op2, lo2, 0)>>
  <2>1. rows = [i \in 1 .. 2 |-> rows[i]] /\ \A i \in 1 .. 2 : IsBacked("match", lists, rows[i])
    BY <1>1
  <2> HIDE DEF rows
  <2>2. AllBacked("match", lists, rows)
    <3>1. 2 \in Nat
      OBVIOUS
    <3> QED
      BY <2>1, <3>1, RowPerElement
  <2> QED
    BY <2>2 DEF rows
<1> QED
  BY <1>1, <1>2, FewRows DEF Compares

LEMMA PrefixesBacked ==
    ASSUME NEW vendor, NEW store, NEW ps, Given(vendor, store, ps), NEW c \in PrefixConds(ps)
    PROVE  AllBacked("match", AllLists(vendor, store, ps), PrefixRows(vendor, store, c))
<1> DEFINE lists == AllLists(vendor, store, ps)
           rows  == PrefixRows(vendor, store, c)
           m     == Len(c.names)
<1>1. m \in Nat /\ DOMAIN c.names = 1 .. m /\ \A i \in 1 .. m : c.names[i] \in ToSet(c.names)
  <2>1. Listed(c.names)
    BY ConditionIs DEF Given, PrefixConds, IsCondition, IsList, Listed
  <2> QED
    BY <2>1, ListIs
<1>2. \A n \in ToSet(c.names) : HasList("match", lists, PrefixKind(vendor, store, n, c), PrefixName(vendor, store, n, c))
  BY PrefixThere, ListsAmong
<1>3. rows = [i \in 1 .. m |-> rows[i]]
      /\ \A i \in 1 .. m : rows[i] = Refer(PrefixKind(vendor, store, c.names[i], c), PrefixName(vendor, store, c.names[i], c))
  BY <1>1 DEF PrefixRows, Rows
<1> HIDE DEF rows, lists, m
<1>4. \A i \in 1 .. m : IsBacked("match", lists, rows[i])
  <2> SUFFICES ASSUME NEW i \in 1 .. m PROVE IsBacked("match", lists, rows[i])
    OBVIOUS
  <2> DEFINE kind == PrefixKind(vendor, store, c.names[i], c)  name == PrefixName(vendor, store, c.names[i], c)
  <2>1. HasList("match", lists, kind, name) /\ rows[i] = Refer(kind, name)
    BY <1>1, <1>2, <1>3
  <2> HIDE DEF kind, name
  <2> QED
    BY <2>1, OneName DEF Refer, Refers
<1>5. AllBacked("match", lists, rows)
  BY <1>1, <1>3, <1>4, RowPerElement
<1> QED
  BY <1>5 DEF rows, lists

LEMMA HuaweiMatchBacked ==
    ASSUME NEW store, NEW ps, Given("huawei", store, ps), NEW c \in Conditions(ps), ~HuaweiMatchRaises(c)
    PROVE  AllBacked("match", AllLists("huawei", store, ps), HuaweiMatch(store, c))
<1> DEFINE lists == AllLists("huawei", store, ps)
           rows  == HuaweiMatch(store, c)
           m     == Len(c.names)
<1>1. IsCondition(c) /\ m \in Nat /\ DOMAIN c.names = 1 .. m /\ \A i \in 1 .. m : c.names[i] \in ToSet(c.names)
  <2>1. IsCondition(c) /\ Listed(c.names)
    BY ConditionIs DEF Given, IsCondition, IsList, Listed
  <2> QED
    BY <2>1, ListIs
<1>2. CASE IsCommunity(c)
  <2>1. \A n \in ToSet(c.names) : HasList("match", lists, TypeOf[c.field], Single(n))
    BY <1>2, ConditionThere, ListsAmong DEF CommunityConditions, IsCommunity, KindOf, Uniteds
  <2>2. rows = [i \in 1 .. m |-> rows[i]]
        /\ \A i \in 1 .. m : rows[i].kind = TypeOf[c.field] /\ rows[i].names = <<Single(c.names[i])>>
    <3>1. c.field # "rd" /\ ~OfPrefix(c) /\ c.field # "as_path_length"
      BY <1>2 DEF IsCommunity, CommunityFields, OfPrefix
    <3>2. rows = [i \in DOMAIN c.names |-> [Refer(TypeOf[c.field], Single(c.names[i])) EXCEPT
                     !.every = IF c.field = "extcommunity_rt" THEN OfLogicAnd(store, <<c.names[i]>>) ELSE {}]]
      BY <1>2, <3>1 DEF HuaweiMatch, Rows
    <3> HIDE DEF rows, m
    <3> QED
      BY <1>1, <3>2 DEF Refer, Refers
  <2> HIDE DEF rows, lists, m
  <2>3. \A i \in 1 .. m : IsBacked("match", lists, rows[i])
    BY <1>1, <2>1, <2>2, OneName
  <2>4. AllBacked("match", lists, rows)
    BY <1>1, <2>2, <2>3, RowPerElement
  <2> QED
    BY <2>4 DEF rows, lists
<1>3. CASE c.field = "rd"
  <2>1. 1 \in 1 .. m
    <3>1. HuaweiMatchRaises(c) = (Len(c.names) # 1)
      BY <1>3 DEF HuaweiMatchRaises, OfPrefix
    <3>2. m = 1
      BY <3>1
    <3> QED
      BY <3>2
  <2>2. HasList("match", lists, "rd", Single(RdName("huawei", store, c.names[1])))
    BY <1>1, <1>3, <2>1, OthersThere, ListsAmong
  <2>3. rows = <<Refer("rd", Single(RdName("huawei", store, c.names[1])))>>
    BY <1>3 DEF HuaweiMatch, RdName, IsCommunity, CommunityFields, OfPrefix
  <2> HIDE DEF lists, rows
  <2>4. IsBacked("match", lists, Refer("rd", Single(RdName("huawei", store, c.names[1]))))
    BY <2>2, OneName DEF Refer, Refers
  <2>5. AllBacked("match", lists, rows)
    BY <2>3, <2>4, FewRows
  <2> QED
    BY <2>5 DEF rows, lists
<1>4. CASE OfPrefix(c)
  BY <1>4, PrefixesBacked DEF HuaweiMatch, OfPrefix, IsCommunity, CommunityFields, PrefixConds
<1>5. CASE c.field = "as_path_length"
  <2>1. IsBacked("match", lists, Test(c.field, "between", c.lo, c.hi))
    BY NoName DEF Test
  <2> QED
    BY <1>5, <2>1, FewRows, ComparesBacked DEF HuaweiMatch, OfPrefix, IsCommunity, CommunityFields
<1>6. CASE ~IsCommunity(c) /\ c.field # "rd" /\ ~OfPrefix(c) /\ c.field # "as_path_length"
  <2>1. ~NotPlain("huawei", c)
    BY <1>6 DEF HuaweiMatchRaises, IsCommunity, CommunityFields
  <2>2. HuaweiMatch(store, c) = Plainly(c)
    BY <1>6 DEF HuaweiMatch
  <2> QED
    BY <2>1, <2>2, PlainlyBacked
<1> QED
  BY <1>2, <1>3, <1>4, <1>5, <1>6

LEMMA UnitedMatchBacked ==
    ASSUME NEW vendor \in {"arista", "cumulus"}, NEW store, NEW ps, Given(vendor, store, ps),
           NEW c \in Conditions(ps), ~UnitedMatchRaises(vendor, c)
    PROVE  AllBacked("match", AllLists(vendor, store, ps), UnitedMatch(vendor, store, c))
<1> DEFINE lists == AllLists(vendor, store, ps)
           kind  == KindOf(vendor, TypeOf[c.field])
           m     == Len(c.names)
<1>1. m \in Nat /\ DOMAIN c.names = 1 .. m /\ \A i \in 1 .. m : c.names[i] \in ToSet(c.names)
  <2>1. Listed(c.names)
    BY ConditionIs DEF Given, IsCondition, IsList, Listed
  <2> QED
    BY <2>1, ListIs
<1>2. CASE IsCommunity(c) /\ c.op = "has_any"
  <2>1. HasList("match", lists, kind, c.names)
    <3>1. c \in CommunityConditions(ps) /\ Uniteds(vendor)
      BY <1>2 DEF CommunityConditions, IsCommunity, Uniteds
    <3>2. Of(CommunityLists(vendor, store, ps), kind, c.names) # {}
      BY <1>2, <3>1, ConditionThere
    <3> QED
      BY <3>2, ListsAmong
  <2>2. UnitedMatch(vendor, store, c) = <<Refer(kind, c.names)>>
    BY <1>2 DEF UnitedMatch, Mangle, IsCommunity, CommunityFields, OfPrefix
  <2> HIDE DEF lists, kind
  <2>3. IsBacked("match", lists, Refer(kind, c.names))
    BY <2>1, OneName DEF Refer, Refers
  <2> QED
    BY <2>2, <2>3, FewRows DEF lists
<1>3. CASE IsCommunity(c) /\ c.op # "has_any"
  <2>1. \A n \in ToSet(c.names) : HasList("match", lists, kind, Single(n))
    <3>1. c \in CommunityConditions(ps)
      BY <1>3 DEF CommunityConditions, IsCommunity
    <3>2. \A n \in ToSet(c.names) : Of(CommunityLists(vendor, store, ps), kind, Single(n)) # {}
      BY <1>3, <3>1, ConditionThere
    <3> QED
      BY <3>2, ListsAmong
  <2> DEFINE names == [i \in DOMAIN c.names |-> Single(c.names[i])]
             each  == [i \in DOMAIN c.names |-> Refer(kind, Single(c.names[i]))]
  <2>2. UnitedMatch(vendor, store, c) = IF vendor = "arista" THEN <<Refers(kind, names, "and", {})>> ELSE each
    BY <1>3 DEF UnitedMatch, Rows, IsCommunity, CommunityFields, OfPrefix
  <2>3. each = [i \in 1 .. m |-> each[i]] /\ \A i \in 1 .. m : each[i] = Refer(kind, Single(c.names[i]))
    BY <1>1
  <2>4. DOMAIN names = 1 .. m /\ \A i \in 1 .. m : names[i] = Single(c.names[i])
    BY <1>1
  <2> HIDE DEF lists, kind, names, each, m
  <2>5. IsBacked("match", lists, Refers(kind, names, "and", {}))
    BY <1>1, <2>1, <2>4 DEF IsBacked, Refers
  <2>6. \A i \in 1 .. m : IsBacked("match", lists, each[i])
    BY <1>1, <2>1, <2>3, OneName DEF Refer, Refers
  <2>7. AllBacked("match", lists, each)
    BY <1>1, <2>3, <2>6, RowPerElement
  <2> QED
    BY <2>2, <2>5, <2>7, FewRows DEF lists
<1>4. CASE OfPrefix(c)
  BY <1>4, PrefixesBacked DEF UnitedMatch, OfPrefix, IsCommunity, CommunityFields, PrefixConds
<1>5. CASE c.field = "as_path_length"
  BY <1>5, ComparesBacked DEF UnitedMatch, OfPrefix, IsCommunity, CommunityFields
<1>6. CASE ~IsCommunity(c) /\ ~OfPrefix(c) /\ c.field # "as_path_length"
  <2>1. ~NotPlain(vendor, c)
    BY <1>6 DEF UnitedMatchRaises
  <2>2. UnitedMatch(vendor, store, c) = Plainly(c)
    BY <1>6 DEF UnitedMatch
  <2> QED
    BY <2>1, <2>2, PlainlyBacked
<1> QED
  BY <1>2, <1>3, <1>4, <1>5, <1>6

LEMMA IosxrMatchBacked ==
    ASSUME NEW store, NEW ps, Given("iosxr", store, ps), NEW c \in Conditions(ps), ~IosxrMatchRaises(c)
    PROVE  AllBacked("match", AllLists("iosxr", store, ps), IosxrMatch(store, c))
<1> DEFINE lists    == AllLists("iosxr", store, ps)
           kind     == TypeOf[c.field]
           m        == Len(c.names)
           single   == [i \in DOMAIN c.names |-> Single(c.names[i])]
           prefixed == [i \in DOMAIN c.names |-> PrefixName("iosxr", store, c.names[i], c)]
<1>1. m \in Nat /\ DOMAIN c.names = 1 .. m /\ \A i \in 1 .. m : c.names[i] \in ToSet(c.names)
  <2>1. Listed(c.names)
    BY ConditionIs DEF Given, IsCondition, IsList, Listed
  <2> QED
    BY <2>1, ListIs
<1>2. DOMAIN single = 1 .. m /\ DOMAIN prefixed = 1 .. m
      /\ \A i \in 1 .. m : single[i] = Single(c.names[i]) /\ prefixed[i] = PrefixName("iosxr", store, c.names[i], c)
  BY <1>1
<1>3. CASE IsCommunity(c)
  <2>1. \A n \in ToSet(c.names) : HasList("match", lists, kind, Single(n))
    BY <1>3, ConditionThere, ListsAmong DEF CommunityConditions, IsCommunity, KindOf, Uniteds
  <2>2. IosxrMatch(store, c) = <<Refers(kind, single, Joined(c), OfLogicAnd(store, c.names))>>
    BY <1>3 DEF IosxrMatch, Rows, IsCommunity, CommunityFields, OfPrefix
  <2> HIDE DEF lists, kind, single, prefixed, m
  <2>3. IsBacked("match", lists, Refers(kind, single, Joined(c), OfLogicAnd(store, c.names)))
    BY <1>1, <1>2, <2>1 DEF IsBacked, Refers
  <2> QED
    BY <2>2, <2>3, FewRows DEF lists
<1>4. CASE c.field = "rd"
  <2>1. \A n \in ToSet(c.names) : HasList("match", lists, "rd", Single(n))
    BY <1>4, OthersThere, ListsAmong DEF RdName
  <2>2. IosxrMatch(store, c) = <<Refers("rd", single, Joined(c), {})>>
    BY <1>4 DEF IosxrMatch, Rows, IsCommunity, CommunityFields, OfPrefix
  <2> HIDE DEF lists, single, prefixed, m
  <2>3. IsBacked("match", lists, Refers("rd", single, Joined(c), {}))
    BY <1>1, <1>2, <2>1 DEF IsBacked, Refers
  <2> QED
    BY <2>2, <2>3, FewRows DEF lists
<1>5. CASE OfPrefix(c)
  <2>1. \A n \in ToSet(c.names) : HasList("match", lists, "prefix-set", PrefixName("iosxr", store, n, c))
    BY <1>5, PrefixThere, ListsAmong DEF PrefixConds, PrefixKind
  <2>2. IosxrMatch(store, c) = <<Refers("prefix-set", prefixed, Joined(c), {})>>
    BY <1>5 DEF IosxrMatch, Rows, IsCommunity, CommunityFields, OfPrefix
  <2> HIDE DEF lists, single, prefixed, m
  <2>3. IsBacked("match", lists, Refers("prefix-set", prefixed, Joined(c), {}))
    BY <1>1, <1>2, <2>1 DEF IsBacked, Refers
  <2> QED
    BY <2>2, <2>3, FewRows DEF lists
<1>6. CASE c.field \in {"local_pref", "as_path_length"}
  BY <1>6, ComparesBacked DEF IosxrMatch, OfPrefix, IsCommunity, CommunityFields
<1>7. CASE ~IsCommunity(c) /\ c.field # "rd" /\ ~OfPrefix(c) /\ c.field \notin {"local_pref", "as_path_length"}
  <2>1. ~NotPlain("iosxr", c)
    BY <1>7 DEF IosxrMatchRaises, IsCommunity, CommunityFields
  <2>2. IosxrMatch(store, c) = Plainly(c)
    BY <1>7 DEF IosxrMatch
  <2> QED
    BY <2>1, <2>2, PlainlyBacked
<1> QED
  BY <1>3, <1>4, <1>5, <1>6, <1>7

(* Juniper gathers the conditions of a kind.                               *)
LEMMA Taken1 ==
    ASSUME NEW s, Listed(s), NEW A, NEW pieces, pieces = [i \in DOMAIN s |-> pieces[i]],
           \A i \in DOMAIN s : pieces[i] = IF s[i] \in A THEN <<s[i]>> ELSE <<>>
    PROVE  Listed(FlattenSeq(pieces)) /\ ToSet(FlattenSeq(pieces)) = ToSet(s) \cap A
<1> DEFINE those == [i \in DOMAIN s |-> IF s[i] \in A THEN <<s[i]>> ELSE <<>>]
<1>1. pieces = those
  OBVIOUS
<1> QED
  BY <1>1, Chosen

LEMMA ByKind ==
    ASSUME NEW match, Conds(match)
    PROVE  /\ LET those == Those(match, IsCommunity) IN Listed(those) /\ ToSet(those) = {c \in ToSet(match) : IsCommunity(c)}
           /\ LET those == Those(match, OfPrefix)    IN Listed(those) /\ ToSet(those) = {c \in ToSet(match) : OfPrefix(c)}
           /\ LET those == Those(match, IsRd)        IN Listed(those) /\ ToSet(those) = {c \in ToSet(match) : IsRd(c)}
           /\ LET those == Those(match, IsLength)    IN Listed(those) /\ ToSet(those) = {c \in ToSet(match) : IsLength(c)}
           /\ LET those == Those(match, IsSimple)    IN Listed(those) /\ ToSet(those) = {c \in ToSet(match) : IsSimple(c)}
<1>1. ASSUME NEW A, NEW pieces, pieces = [i \in DOMAIN match |-> pieces[i]],
             \A i \in DOMAIN match : pieces[i] = IF match[i] \in A THEN <<match[i]>> ELSE <<>>
      PROVE  Listed(FlattenSeq(pieces)) /\ ToSet(FlattenSeq(pieces)) = ToSet(match) \cap A
  BY <1>1, Taken1 DEF Conds
<1>2. \A i \in DOMAIN match : match[i] \in ToSet(match)
  BY DEF ToSet
<1>3. LET those == Those(match, IsCommunity) IN Listed(those) /\ ToSet(those) = {c \in ToSet(match) : IsCommunity(c)}
  <2> DEFINE pieces == [i \in DOMAIN match |-> IF IsCommunity(match[i]) THEN <<match[i]>> ELSE <<>>]
             A     == {c \in ToSet(match) : IsCommunity(c)}
  <2>1. pieces = [i \in DOMAIN match |-> pieces[i]] /\ \A i \in DOMAIN match : pieces[i] = IF match[i] \in A THEN <<match[i]>> ELSE <<>>
    BY <1>2
  <2>2. Those(match, IsCommunity) = FlattenSeq(pieces) /\ ToSet(match) \cap A = A
    BY DEF Those, Collect
  <2> HIDE DEF pieces, A
  <2>3. Listed(FlattenSeq(pieces)) /\ ToSet(FlattenSeq(pieces)) = A
    BY <1>1, <2>1, <2>2
  <2> QED
    BY <2>2, <2>3 DEF A
<1>4. LET those == Those(match, OfPrefix) IN Listed(those) /\ ToSet(those) = {c \in ToSet(match) : OfPrefix(c)}
  <2> DEFINE pieces == [i \in DOMAIN match |-> IF OfPrefix(match[i]) THEN <<match[i]>> ELSE <<>>]
             A     == {c \in ToSet(match) : OfPrefix(c)}
  <2>1. pieces = [i \in DOMAIN match |-> pieces[i]] /\ \A i \in DOMAIN match : pieces[i] = IF match[i] \in A THEN <<match[i]>> ELSE <<>>
    BY <1>2
  <2>2. Those(match, OfPrefix) = FlattenSeq(pieces) /\ ToSet(match) \cap A = A
    BY DEF Those, Collect
  <2> HIDE DEF pieces, A
  <2>3. Listed(FlattenSeq(pieces)) /\ ToSet(FlattenSeq(pieces)) = A
    BY <1>1, <2>1, <2>2
  <2> QED
    BY <2>2, <2>3 DEF A
<1>5. LET those == Those(match, IsRd) IN Listed(those) /\ ToSet(those) = {c \in ToSet(match) : IsRd(c)}
  <2> DEFINE pieces == [i \in DOMAIN match |-> IF IsRd(match[i]) THEN <<match[i]>> ELSE <<>>]
             A     == {c \in ToSet(match) : IsRd(c)}
  <2>1. pieces = [i \in DOMAIN match |-> pieces[i]] /\ \A i \in DOMAIN match : pieces[i] = IF match[i] \in A THEN <<match[i]>> ELSE <<>>
    BY <1>2
  <2>2. Those(match, IsRd) = FlattenSeq(pieces) /\ ToSet(match) \cap A = A
    BY DEF Those, Collect
  <2> HIDE DEF pieces, A
  <2>3. Listed(FlattenSeq(pieces)) /\ ToSet(FlattenSeq(pieces)) = A
    BY <1>1, <2>1, <2>2
  <2> QED
    BY <2>2, <2>3 DEF A
<1>6. LET those == Those(match, IsLength) IN Listed(those) /\ ToSet(those) = {c \in ToSet(match) : IsLength(c)}
  <2> DEFINE pieces == [i \in DOMAIN match |-> IF IsLength(match[i]) THEN <<match[i]>> ELSE <<>>]
             A     == {c \in ToSet(match) : IsLength(c)}
  <2>1. pieces = [i \in DOMAIN match |-> pieces[i]] /\ \A i \in DOMAIN match : pieces[i] = IF match[i] \in A THEN <<match[i]>> ELSE <<>>
    BY <1>2
  <2>2. Those(match, IsLength) = FlattenSeq(pieces) /\ ToSet(match) \cap A = A
    BY DEF Those, Collect
  <2> HIDE DEF pieces, A
  <2>3. Listed(FlattenSeq(pieces)) /\ ToSet(FlattenSeq(pieces)) = A
    BY <1>1, <2>1, <2>2
  <2> QED
    BY <2>2, <2>3 DEF A
<1>7. LET those == Those(match, IsSimple) IN Listed(those) /\ ToSet(those) = {c \in ToSet(match) : IsSimple(c)}
  <2> DEFINE pieces == [i \in DOMAIN match |-> IF IsSimple(match[i]) THEN <<match[i]>> ELSE <<>>]
             A     == {c \in ToSet(match) : IsSimple(c)}
  <2>1. pieces = [i \in DOMAIN match |-> pieces[i]] /\ \A i \in DOMAIN match : pieces[i] = IF match[i] \in A THEN <<match[i]>> ELSE <<>>
    BY <1>2
  <2>2. Those(match, IsSimple) = FlattenSeq(pieces) /\ ToSet(match) \cap A = A
    BY DEF Those, Collect
  <2> HIDE DEF pieces, A
  <2>3. Listed(FlattenSeq(pieces)) /\ ToSet(FlattenSeq(pieces)) = A
    BY <1>1, <2>1, <2>2
  <2> QED
    BY <2>2, <2>3 DEF A
<1> QED
  BY <1>3, <1>4, <1>5, <1>6, <1>7

LEMMA BracketBacked ==
    ASSUME NEW lists, NEW kind, NEW conds, Conds(conds),
           \A c \in ToSet(conds) : \A n \in ToSet(c.names) : HasList("match", lists, kind, Single(n))
    PROVE  AllBacked("match", lists, Bracket(kind, conds))
<1> DEFINE n     == Len(conds)
           each  == [i \in DOMAIN conds |-> conds[i].names]
           names == FlattenSeq(each)
           row   == Refers(kind, Rows(names, Single), "or", {})
<1>1. n \in Nat /\ DOMAIN conds = 1 .. n /\ \A i \in 1 .. n : conds[i] \in ToSet(conds) /\ Listed(conds[i].names)
  BY ListIs DEF Conds, IsCondition, IsList, Listed
<1>2. each = [i \in 1 .. n |-> each[i]] /\ \A i \in 1 .. n : each[i] = conds[i].names
  BY <1>1
<1> HIDE DEF each
<1>3. Listed(names) /\ ToSet(names) = UNION {ToSet(each[i]) : i \in 1 .. n}
  <2>1. \A i \in 1 .. n : Listed(each[i])
    BY <1>1, <1>2
  <2> QED
    BY <1>1, <1>2, <2>1, Collected
<1>4. \A x \in ToSet(names) : HasList("match", lists, kind, Single(x))
  BY <1>1, <1>2, <1>3
<1>5. \A i \in DOMAIN names : names[i] \in ToSet(names)
  BY DEF ToSet
<1>6. Bracket(kind, conds) = IF conds # <<>> THEN <<row>> ELSE <<>>
  BY DEF Bracket, If, NamesIn, Rows, each
<1> HIDE DEF names
<1>7. IsBacked("match", lists, row)
  BY <1>4, <1>5 DEF IsBacked, Refers, Rows
<1> QED
  BY <1>6, <1>7, FewRows

LEMMA JuniperPrefixBacked ==
    ASSUME NEW store, NEW ps, Given("juniper", store, ps), NEW c \in PrefixConds(ps)
    PROVE  AllBacked("match", AllLists("juniper", store, ps),
               [j \in DOMAIN c.names |->
                  LET n == c.names[j]
                  IN [Refer(JuniperType(store, n, c), JuniperPrefix(store, n, c).name) EXCEPT
                          !.op = IF JuniperType(store, n, c) = "prefix-list" THEN FlavourOf(store, n, c) ELSE ""]])
<1> DEFINE lists == AllLists("juniper", store, ps)
           rows  == [j \in DOMAIN c.names |->
                       LET n == c.names[j]
                       IN [Refer(JuniperType(store, n, c), JuniperPrefix(store, n, c).name) EXCEPT
                               !.op = IF JuniperType(store, n, c) = "prefix-list" THEN FlavourOf(store, n, c) ELSE ""]]
           m     == Len(c.names)
<1>1. m \in Nat /\ DOMAIN c.names = 1 .. m /\ \A i \in 1 .. m : c.names[i] \in ToSet(c.names)
  <2>1. Listed(c.names)
    BY ConditionIs DEF Given, PrefixConds, IsCondition, IsList, Listed
  <2> QED
    BY <2>1, ListIs
<1>2. \A n \in ToSet(c.names) : HasList("match", lists, JuniperType(store, n, c), JuniperPrefix(store, n, c).name)
  BY PrefixThere, ListsAmong DEF PrefixKind, PrefixName
<1>3. rows = [i \in 1 .. m |-> rows[i]]
      /\ \A i \in 1 .. m : /\ rows[i].kind = JuniperType(store, c.names[i], c)
                           /\ rows[i].names = <<JuniperPrefix(store, c.names[i], c).name>>
  BY <1>1 DEF Refer, Refers
<1> HIDE DEF rows, lists, m
<1>4. \A i \in 1 .. m : IsBacked("match", lists, rows[i])
  BY <1>1, <1>2, <1>3, OneName
<1>5. AllBacked("match", lists, rows)
  BY <1>1, <1>3, <1>4, RowPerElement
<1> QED
  BY <1>5 DEF rows, lists

LEMMA JuniperMatchBacked ==
    ASSUME NEW store, NEW ps, Given("juniper", store, ps), NEW s \in Statements(ps), ~JuniperMatchRaises(s.match)
    PROVE  AllBacked("match", AllLists("juniper", store, ps), JuniperMatch(store, s.match))
<1> DEFINE lists    == AllLists("juniper", store, ps)
           comms    == Those(s.match, IsCommunity)
           prefixes == Those(s.match, OfPrefix)
           lengths  == Those(s.match, IsLength)
           rds      == Those(s.match, IsRd)
           simples  == Those(s.match, IsSimple)
           PrefixRows1(c) == [j \in DOMAIN c.names |->
                                LET n == c.names[j]
                                IN [Refer(JuniperType(store, n, c), JuniperPrefix(store, n, c).name) EXCEPT
                                     !.op = IF JuniperType(store, n, c) = "prefix-list" THEN FlavourOf(store, n, c) ELSE ""]]
           ofPrefixes == [i \in DOMAIN prefixes |-> PrefixRows1(prefixes[i])]
           ofLengths  == [i \in DOMAIN lengths |-> Compares(lengths[i])]
           ofSimples  == [i \in DOMAIN simples |-> Plainly(simples[i])]
<1>1. JuniperMatch(store, s.match) = Bracket("community", comms) \o FlattenSeq(ofPrefixes) \o FlattenSeq(ofLengths)
                                         \o Bracket("rd", rds) \o FlattenSeq(ofSimples)
  BY DEF JuniperMatch, Rows
<1>2. Conds(s.match) /\ \A c \in ToSet(s.match) : c \in Conditions(ps) /\ IsCondition(c)
  BY StatementIs DEF Given, IsSaid
<1>3. /\ Listed(comms) /\ ToSet(comms) = {c \in ToSet(s.match) : IsCommunity(c)}
      /\ Listed(prefixes) /\ ToSet(prefixes) = {c \in ToSet(s.match) : OfPrefix(c)}
      /\ Listed(lengths)
      /\ Listed(rds) /\ ToSet(rds) = {c \in ToSet(s.match) : IsRd(c)}
      /\ Listed(simples) /\ ToSet(simples) = {c \in ToSet(s.match) : IsSimple(c)}
  BY <1>2, ByKind
<1> HIDE DEF comms, prefixes, lengths, rds, simples, lists, PrefixRows1
<1>4. AllBacked("match", lists, Bracket("community", comms))
  <2>1. Conds(comms)
    BY <1>2, <1>3 DEF Conds
  <2>2. ASSUME NEW c \in ToSet(comms), NEW n \in ToSet(c.names) PROVE HasList("match", lists, "community", Single(n))
    <3>1. c \in CommunityConditions(ps)
      BY <1>2, <1>3 DEF CommunityConditions, IsCommunity
    <3>2. Of(CommunityLists("juniper", store, ps), KindOf("juniper", TypeOf[c.field]), Single(n)) # {}
      BY <3>1, ConditionThere DEF Uniteds
    <3> QED
      BY <3>2, ListsAmong DEF KindOf, lists
  <2> QED
    BY <2>1, <2>2, BracketBacked
<1>5. AllBacked("match", lists, Bracket("rd", rds))
  <2>1. Conds(rds)
    BY <1>2, <1>3 DEF Conds
  <2>2. ASSUME NEW c \in ToSet(rds), NEW n \in ToSet(c.names) PROVE HasList("match", lists, "rd", Single(n))
    <3>1. c \in Conditions(ps) /\ c.field = "rd"
      BY <1>2, <1>3 DEF IsRd
    <3>2. Of(AsPathFilters(store, ps) \cup RdFilters("juniper", store, ps), "rd", Single(n)) # {}
      BY <3>1, OthersThere DEF RdName
    <3> QED
      BY <3>2, ListsAmong DEF lists
  <2> QED
    BY <2>1, <2>2, BracketBacked
<1>6. AllBacked("match", lists, FlattenSeq(ofPrefixes))
  <2>1. Len(prefixes) \in Nat /\ DOMAIN prefixes = 1 .. Len(prefixes)
        /\ \A i \in 1 .. Len(prefixes) : prefixes[i] \in PrefixConds(ps)
    BY <1>2, <1>3, ListIs DEF PrefixConds
  <2>2. \A c \in PrefixConds(ps) : AllBacked("match", lists, PrefixRows1(c))
    BY JuniperPrefixBacked DEF lists, PrefixRows1
  <2>3. ofPrefixes = [i \in 1 .. Len(prefixes) |-> ofPrefixes[i]]
        /\ \A i \in 1 .. Len(prefixes) : ofPrefixes[i] = PrefixRows1(prefixes[i])
    BY <2>1
  <2> HIDE DEF ofPrefixes
  <2>4. \A i \in 1 .. Len(prefixes) : AllBacked("match", lists, ofPrefixes[i])
    BY <2>1, <2>2, <2>3
  <2> QED
    BY <2>1, <2>3, <2>4, RowsFlat
<1>7. AllBacked("match", lists, FlattenSeq(ofLengths))
  <2>1. Len(lengths) \in Nat /\ DOMAIN lengths = 1 .. Len(lengths)
    BY <1>3, ListIs
  <2>2. ofLengths = [i \in 1 .. Len(lengths) |-> ofLengths[i]]
        /\ \A i \in 1 .. Len(lengths) : AllBacked("match", lists, ofLengths[i])
    BY <2>1, ComparesBacked
  <2> HIDE DEF ofLengths
  <2> QED
    BY <2>1, <2>2, RowsFlat
<1>8. AllBacked("match", lists, FlattenSeq(ofSimples))
  <2>1. Len(simples) \in Nat /\ DOMAIN simples = 1 .. Len(simples)
        /\ \A i \in 1 .. Len(simples) : simples[i] \in ToSet(s.match) /\ IsSimple(simples[i])
    BY <1>3, ListIs
  <2>2. \A c \in ToSet(s.match) : IsSimple(c) => ~NotPlain("juniper", c)
    BY DEF JuniperMatchRaises, ToSet
  <2>3. \A i \in 1 .. Len(simples) : AllBacked("match", lists, Plainly(simples[i]))
    BY <1>2, <2>1, <2>2, PlainlyBacked DEF lists
  <2>4. ofSimples = [i \in 1 .. Len(simples) |-> ofSimples[i]]
        /\ \A i \in 1 .. Len(simples) : AllBacked("match", lists, ofSimples[i])
    BY <2>1, <2>3
  <2> HIDE DEF ofSimples
  <2> QED
    BY <2>1, <2>4, RowsFlat
<1> QED
  BY <1>1, <1>4, <1>5, <1>6, <1>7, <1>8, RowsJoined DEF lists

LEMMA MatchesBacked ==
    ASSUME NEW vendor, NEW store, NEW ps, Given(vendor, store, ps), NEW s \in Statements(ps)
    PROVE  AllBacked("match", AllLists(vendor, store, ps), MatchRows(vendor, store, s.match))
<1> DEFINE lists == AllLists(vendor, store, ps)
           match == s.match
           m     == Len(match)
           One(c) == CASE vendor = "huawei" -> HuaweiMatch(store, c)
                       [] vendor = "iosxr"  -> IosxrMatch(store, c)
                       [] OTHER             -> UnitedMatch(vendor, store, c)
           each  == [i \in DOMAIN match |-> One(match[i])]
<1>1. ~MatchRaises(vendor, match)
  BY DEF Given, PoliciesRaise, StatementRaises
<1>2. vendor \in {"huawei", "arista", "cumulus", "iosxr", "juniper"}
  BY DEF Given, MatchMap
<1>3. m \in Nat /\ DOMAIN match = 1 .. m /\ \A i \in 1 .. m : match[i] \in Conditions(ps)
  BY StatementIs, ListIs DEF Given, IsSaid, Conds
<1>4. CASE vendor = "juniper"
  BY <1>1, <1>4, JuniperMatchBacked DEF MatchRaises, MatchRows
<1>5. CASE vendor # "juniper"
  <2>1. \A i \in 1 .. m : AllBacked("match", lists, One(match[i]))
    <3> SUFFICES ASSUME NEW i \in 1 .. m PROVE AllBacked("match", lists, One(match[i]))
      OBVIOUS
    <3>1. /\ vendor = "huawei" => ~HuaweiMatchRaises(match[i])
          /\ vendor = "iosxr" => ~IosxrMatchRaises(match[i])
          /\ vendor \in {"arista", "cumulus"} => ~UnitedMatchRaises(vendor, match[i])
      BY <1>1, <1>3, <1>5 DEF MatchRaises
    <3>2. CASE vendor = "huawei"
      BY <1>3, <3>1, <3>2, HuaweiMatchBacked
    <3>3. CASE vendor = "iosxr"
      BY <1>3, <3>1, <3>3, IosxrMatchBacked
    <3>4. CASE vendor \in {"arista", "cumulus"}
      BY <1>3, <3>1, <3>4, UnitedMatchBacked
    <3> QED
      BY <1>2, <1>5, <3>2, <3>3, <3>4
  <2>2. each = [i \in 1 .. m |-> each[i]] /\ \A i \in 1 .. m : each[i] = One(match[i])
    BY <1>3
  <2>3. MatchRows(vendor, store, match) = FlattenSeq(each)
    BY <1>5 DEF MatchRows, Rows
  <2> HIDE DEF each, One, lists, match, m
  <2>4. AllBacked("match", lists, FlattenSeq(each))
    BY <1>3, <2>1, <2>2, RowsFlat
  <2> QED
    BY <2>3, <2>4 DEF lists, match
<1> QED
  BY <1>4, <1>5

-----------------------------------------------------------------------------
(* Rows of actions: of no list, of one list each, of several.              *)
LEMMA Bare ==
    ASSUME NEW lists
    PROVE  /\ \A test, how, scope, vals : AllBacked("body", lists, If(test, <<Literal(how, scope, vals)>>))
           /\ \A test, how, items : AllBacked("body", lists, If(test, <<Path(how, items)>>))
           /\ \A how, scope, vals : AllBacked("body", lists, <<Literal(how, scope, vals)>>)
           /\ \A a : AllBacked("body", lists, Setting(a))
           /\ \A a, silent : AllBacked("body", lists, NextHop(a, silent))
<1>1. \A how, scope, vals : IsBacked("body", lists, Literal(how, scope, vals))
  BY NoName DEF Literal, NoRow
<1>2. \A how, items : IsBacked("body", lists, Path(how, items))
  BY NoName DEF Path, NoRow
<1>3. \A what, how, k : IsBacked("body", lists, Number(what, how, k))
  BY NoName DEF Number, NoRow
<1>4. \A items : IsBacked("body", lists, [NoRow EXCEPT !.what = "next_hop", !.items = items])
  BY NoName DEF NoRow
<1> QED
  BY <1>1, <1>2, <1>3, <1>4, FewRows DEF If, Setting, NextHop

LEMMA NamelessRows ==
    ASSUME NEW lists, NEW items, Listed(items), NEW rows, rows = [i \in DOMAIN items |-> rows[i]],
           \A i \in DOMAIN items : rows[i].names = <<>>
    PROVE  AllBacked("body", lists, rows)
<1> DEFINE n == Len(items)
<1>1. n \in Nat /\ DOMAIN items = 1 .. n
  BY ListIs
<1>2. rows = [i \in 1 .. n |-> rows[i]] /\ \A i \in 1 .. n : IsBacked("body", lists, rows[i])
  BY <1>1, NoName
<1> QED
  BY <1>1, <1>2, RowPerElement

LEMMA PathRows ==
    ASSUME NEW lists, NEW how, NEW items, Listed(items)
    PROVE  AllBacked("body", lists, PathEach(how, items))
<1> DEFINE rows == PathEach(how, items)
<1>1. rows = [i \in DOMAIN items |-> rows[i]] /\ \A i \in DOMAIN items : rows[i].names = <<>>
  BY DEF PathEach, Rows, Path, NoRow
<1> HIDE DEF rows
<1>2. AllBacked("body", lists, rows)
  BY <1>1, NamelessRows
<1> QED
  BY <1>2 DEF rows

LEMMA TypeRows ==
    ASSUME NEW lists, NEW store, NEW how, NEW names
    PROVE  AllBacked("body", lists, ByType(store, how, names))
<1> DEFINE types == <<"RT", "SOO">>
           One(t) == If(OfType(store, names, t) # <<>>, <<Literal(how, {t}, MembersAs(store, t, OfType(store, names, t)))>>)
           each  == [i \in DOMAIN types |-> One(types[i])]
<1>1. 2 \in Nat /\ DOMAIN types = 1 .. 2
  OBVIOUS
<1>2. \A t : AllBacked("body", lists, One(t))
  BY Bare
<1>3. ByType(store, how, names) = FlattenSeq(each)
  BY DEF ByType, Rows
<1> HIDE DEF One, types
<1>4. each = [i \in 1 .. 2 |-> each[i]] /\ \A i \in 1 .. 2 : AllBacked("body", lists, each[i])
  BY <1>1, <1>2
<1> HIDE DEF each
<1>5. AllBacked("body", lists, FlattenSeq(each))
  BY <1>1, <1>4, RowsFlat
<1> QED
  BY <1>3, <1>5

LEMMA RowPerName ==
    ASSUME NEW lists, NEW kind, NEW names, Listed(names), NEW rows, rows = [i \in DOMAIN names |-> rows[i]],
           \A i \in DOMAIN names : rows[i].kind = kind /\ rows[i].names = <<Single(names[i])>>,
           \A n \in ToSet(names) : HasList("body", lists, kind, Single(n))
    PROVE  AllBacked("body", lists, rows)
<1> DEFINE m == Len(names)
<1>1. m \in Nat /\ DOMAIN names = 1 .. m /\ \A i \in 1 .. m : names[i] \in ToSet(names)
  BY ListIs
<1>2. rows = [i \in 1 .. m |-> rows[i]] /\ \A i \in 1 .. m : IsBacked("body", lists, rows[i])
  BY <1>1, OneName
<1> QED
  BY <1>1, <1>2, RowPerElement

PerName(how, scope, kind, names) == [i \in DOMAIN names |-> ByLists(how, scope, kind, <<Single(names[i])>>)]

LEMMA ListRows ==
    ASSUME NEW lists, NEW kind, NEW how, NEW scope, NEW names, Listed(names),
           \A n \in ToSet(names) : HasList("body", lists, kind, Single(n))
    PROVE  /\ AllBacked("body", lists, PerName(how, scope, kind, names))
           /\ \A test : AllBacked("body", lists, If(test, <<ByLists(how, scope, kind, Rows(names, Single))>>))
<1> DEFINE rows == PerName(how, scope, kind, names)
           row  == ByLists(how, scope, kind, Rows(names, Single))
<1>1. rows = [i \in DOMAIN names |-> rows[i]]
      /\ \A i \in DOMAIN names : rows[i].kind = kind /\ rows[i].names = <<Single(names[i])>>
  BY DEF PerName, ByLists, NoRow
<1> HIDE DEF rows
<1>2. AllBacked("body", lists, rows)
  BY <1>1, RowPerName
<1>3. row.kind = kind /\ DOMAIN row.names = DOMAIN names /\ \A i \in DOMAIN names : row.names[i] = Single(names[i])
  BY DEF ByLists, NoRow, Rows
<1>4. \A i \in DOMAIN names : names[i] \in ToSet(names)
  BY DEF ToSet
<1> HIDE DEF row
<1>5. IsBacked("body", lists, row)
  BY <1>3, <1>4 DEF IsBacked
<1> QED
  BY <1>2, <1>5, FewRows DEF If, rows, row

(* The lists an action names, under the kind its vendor refers to.         *)
LEMMA ActionIs ==
    ASSUME NEW ps, Policed(ps), NEW a \in Actions(ps)
    PROVE  /\ Listed(a.v.set) /\ Listed(a.v.added) /\ Listed(a.v.removed)
           /\ NamesOf(a.v) = ToSet(a.v.set) \cup ToSet(a.v.added) \cup ToSet(a.v.removed)
<1>1. PICK s \in Statements(ps) : a \in ToSet(s.then)
  BY DEF Actions
<1> QED
  BY <1>1, StatementIs DEF IsAction, IsValue, NamesOf

LEMMA ActionLists ==
    ASSUME NEW vendor, NEW store, NEW ps, Given(vendor, store, ps), NEW a \in Actions(ps), a.field \in CommunityFields
    PROVE  \A n \in NamesOf(a.v) : HasList("body", AllLists(vendor, store, ps), KindOf(vendor, TypeOf[a.field]), Single(n))
<1> SUFFICES ASSUME NEW n \in NamesOf(a.v)
             PROVE  HasList("body", AllLists(vendor, store, ps), KindOf(vendor, TypeOf[a.field]), Single(n))
  OBVIOUS
<1>1. Named(store.comms, n).type = TypeOf[a.field]
  BY DEF Given, WellTypedIn
<1>2. Of(CommunityLists(vendor, store, ps), KindOf(vendor, Named(store.comms, n).type), Single(n)) # {}
  BY ActionThere
<1> QED
  BY <1>1, <1>2, ListsAmong

-----------------------------------------------------------------------------
(* Actions, vendor by vendor.                                              *)
LEMMA HuaweiThenBacked ==
    ASSUME NEW store, NEW ps, Given("huawei", store, ps), NEW a \in Actions(ps), ~HuaweiThenRaises(store, a)
    PROVE  AllBacked("body", AllLists("huawei", store, ps), HuaweiThen(store, a))
<1> DEFINE lists == AllLists("huawei", store, ps)
           v     == a.v
<1>1. /\ Listed(v.set) /\ Listed(v.added) /\ Listed(v.removed)
      /\ NamesOf(v) = ToSet(v.set) \cup ToSet(v.added) \cup ToSet(v.removed)
  BY ActionIs DEF Given
<1>2. a.field \in CommunityFields =>
          \A n \in ToSet(v.removed) : HasList("body", lists, TypeOf[a.field], Single(n))
  BY <1>1, ActionLists DEF KindOf
<1> HIDE DEF lists
<1>3. CASE a.field = "community"
  <2>1. HuaweiThen(store, a) = If(v.replaced, <<Literal("set", {"BASIC"}, MembersAs(store, "BASIC", v.set))>>)
                \o If(v.added # <<>>, <<Literal("add", {"BASIC"}, MembersAs(store, "BASIC", v.added))>>)
                \o PerName("del", {"BASIC"}, "BASIC", v.removed)
    BY <1>3 DEF HuaweiThen, PerName, Rows
  <2>2. \A n \in ToSet(v.removed) : HasList("body", lists, "BASIC", Single(n))
    BY <1>2, <1>3 DEF CommunityFields, TypeOf
  <2>3. AllBacked("body", lists, PerName("del", {"BASIC"}, "BASIC", v.removed))
    BY <1>1, <2>2, ListRows
  <2> QED
    BY <2>1, <2>3, Bare, RowsJoined DEF lists
<1>4. CASE a.field = "large_community"
  <2>1. HuaweiThen(store, a) = If(v.replaced, <<Literal("set", {"LARGE"}, MembersAs(store, "LARGE", v.set))>>)
                \o If(v.added # <<>>, <<Literal("add", {"LARGE"}, MembersAs(store, "LARGE", v.added))>>)
                \o If(v.removed # <<>>, <<Literal("del", {"LARGE"}, MembersAs(store, "LARGE", v.removed))>>)
    BY <1>4 DEF HuaweiThen
  <2> QED
    BY <2>1, Bare, RowsJoined DEF lists
<1>5. CASE a.field = "extcommunity_rt"
  <2>1. HuaweiThen(store, a) = If(v.added # <<>>, <<Literal("add", {"RT"}, MembersAs(store, "RT", v.added))>>)
                \o PerName("del", {"RT"}, "RT", v.removed)
    BY <1>5 DEF HuaweiThen, PerName, Rows
  <2>2. \A n \in ToSet(v.removed) : HasList("body", lists, "RT", Single(n))
    BY <1>2, <1>5 DEF CommunityFields, TypeOf
  <2>3. AllBacked("body", lists, PerName("del", {"RT"}, "RT", v.removed))
    BY <1>1, <2>2, ListRows
  <2> QED
    BY <2>1, <2>3, Bare, RowsJoined DEF lists
<1>6. CASE a.field = "extcommunity_soo"
  BY <1>6, Bare DEF HuaweiThen, lists
<1>7. CASE a.field = "extcommunity"
  <2>1. HuaweiThen(store, a) = ByType(store, "set", v.set) \o ByType(store, "add", v.added)
    BY <1>7 DEF HuaweiThen
  <2> QED
    BY <2>1, TypeRows, RowsJoined DEF lists
<1>8. CASE a.field = "as_path"
  <2>1. HuaweiThen(store, a) = If(v.replaced, <<Path("set", v.set)>>) \o If(v.added # <<>>, <<Path("prepend", v.added)>>)
                                   \o PathEach("delete", v.removed)
    BY <1>8 DEF HuaweiThen
  <2> QED
    BY <1>1, <2>1, Bare, PathRows, RowsJoined DEF lists
<1>9. CASE a.field \notin {"community", "large_community", "extcommunity_rt", "extcommunity_soo", "extcommunity", "as_path"}
  BY <1>9, Bare DEF HuaweiThen, lists
<1> QED
  BY <1>3, <1>4, <1>5, <1>6, <1>7, <1>8, <1>9

LEMMA AristaThenBacked ==
    ASSUME NEW store, NEW ps, Given("arista", store, ps), NEW a \in Actions(ps)
    PROVE  AllBacked("body", AllLists("arista", store, ps), AristaThen(store, a))
<1> DEFINE lists == AllLists("arista", store, ps)
           v     == a.v
<1>1. /\ Listed(v.set) /\ Listed(v.added) /\ Listed(v.removed)
      /\ NamesOf(v) = ToSet(v.set) \cup ToSet(v.added) \cup ToSet(v.removed)
  BY ActionIs DEF Given
<1>2. a.field \in {"community", "large_community"} =>
          \A n \in NamesOf(v) : HasList("body", lists, TypeOf[a.field], Single(n))
  BY ActionLists DEF KindOf, CommunityFields, TypeOf
<1> HIDE DEF lists
<1>3. CASE a.field = "community"
  <2>1. AristaThen(store, a) = If(v.replaced, <<ByLists("set", {"BASIC"}, "BASIC", Rows(v.set, Single))>>)
                \o If(v.added # <<>>, <<ByLists("add", {"BASIC"}, "BASIC", Rows(v.added, Single))>>)
                \o If(v.removed # <<>>, <<Literal("del", {"BASIC"}, MembersAs(store, "BASIC", v.removed))>>)
    BY <1>3 DEF AristaThen
  <2>2. /\ \A n \in ToSet(v.set) : HasList("body", lists, "BASIC", Single(n))
        /\ \A n \in ToSet(v.added) : HasList("body", lists, "BASIC", Single(n))
    BY <1>1, <1>2, <1>3 DEF TypeOf
  <2>3. /\ AllBacked("body", lists, If(v.replaced, <<ByLists("set", {"BASIC"}, "BASIC", Rows(v.set, Single))>>))
        /\ AllBacked("body", lists, If(v.added # <<>>, <<ByLists("add", {"BASIC"}, "BASIC", Rows(v.added, Single))>>))
    BY <1>1, <2>2, ListRows
  <2> QED
    BY <2>1, <2>3, Bare, RowsJoined DEF lists
<1>4. CASE a.field = "large_community"
  <2> DEFINE sets == [i \in DOMAIN v.set |-> ByLists(IF i = 1 THEN "set" ELSE "add", {"LARGE"}, "LARGE", <<Single(v.set[i])>>)]
  <2>1. AristaThen(store, a) = If(v.replaced /\ v.set = <<>>, <<ByLists("set", {"LARGE"}, "LARGE", <<>>)>>)
                \o sets
                \o If(v.added # <<>>, <<ByLists("add", {"LARGE"}, "LARGE", Rows(v.added, Single))>>)
                \o If(v.removed # <<>>, <<ByLists("del", {"LARGE"}, "LARGE", Rows(v.removed, Single))>>)
    BY <1>4 DEF AristaThen
  <2>2. /\ \A n \in ToSet(v.set) : HasList("body", lists, "LARGE", Single(n))
        /\ \A n \in ToSet(v.added) : HasList("body", lists, "LARGE", Single(n))
        /\ \A n \in ToSet(v.removed) : HasList("body", lists, "LARGE", Single(n))
    BY <1>1, <1>2, <1>4 DEF TypeOf
  <2>3. /\ AllBacked("body", lists, If(v.added # <<>>, <<ByLists("add", {"LARGE"}, "LARGE", Rows(v.added, Single))>>))
        /\ AllBacked("body", lists, If(v.removed # <<>>, <<ByLists("del", {"LARGE"}, "LARGE", Rows(v.removed, Single))>>))
    BY <1>1, <2>2, ListRows
  <2>4. sets = [i \in DOMAIN v.set |-> sets[i]]
        /\ \A i \in DOMAIN v.set : sets[i].kind = "LARGE" /\ sets[i].names = <<Single(v.set[i])>>
    BY DEF ByLists, NoRow
  <2> HIDE DEF sets
  <2>5. AllBacked("body", lists, sets)
    BY <1>1, <2>2, <2>4, RowPerName
  <2>6. IsBacked("body", lists, ByLists("set", {"LARGE"}, "LARGE", <<>>))
    BY NoName DEF ByLists, NoRow
  <2>7. AllBacked("body", lists, If(v.replaced /\ v.set = <<>>, <<ByLists("set", {"LARGE"}, "LARGE", <<>>)>>))
    BY <2>6, FewRows DEF If
  <2> QED
    BY <2>1, <2>3, <2>5, <2>7, RowsJoined DEF lists
<1>5. CASE a.field \in {"extcommunity_rt", "extcommunity_soo"}
  <2> DEFINE t == TypeOf[a.field]
  <2>1. AristaThen(store, a) = If(v.added # <<>>, <<Literal("add", {t}, MembersAs(store, t, v.removed))>>)
                                  \o If(v.removed # <<>>, <<Literal("del", {t}, MembersAs(store, t, v.removed))>>)
    BY <1>5 DEF AristaThen
  <2> QED
    BY <2>1, Bare, RowsJoined DEF lists
<1>6. CASE a.field = "extcommunity"
  <2>1. AristaThen(store, a) =
            If(v.replaced, <<Literal("set", IF v.set = <<>> THEN {"RT", "SOO"} ELSE TypesOf(store, v.set), OwnTypes(store, v.set))>>)
                \o If(v.added # <<>>, <<Literal("add", {"RT", "SOO"}, OwnTypes(store, v.added))>>)
                \o If(v.removed # <<>>, <<Literal("del", {"RT", "SOO"}, OwnTypes(store, v.removed))>>)
    BY <1>6 DEF AristaThen
  <2> QED
    BY <2>1, Bare, RowsJoined DEF lists
<1>7. CASE a.field = "as_path"
  <2>1. AristaThen(store, a) = If(v.replaced, <<Path("set", v.set)>>) \o If(v.added # <<>>, <<Path("prepend", v.added)>>)
                                   \o If(v.last # <<>>, <<Path("last", v.last)>>)
    BY <1>7 DEF AristaThen
  <2> QED
    BY <2>1, Bare, RowsJoined DEF lists
<1>8. CASE a.field \notin {"community", "large_community", "extcommunity_rt", "extcommunity_soo", "extcommunity", "as_path"}
  BY <1>8, Bare DEF AristaThen, lists
<1> QED
  BY <1>3, <1>4, <1>5, <1>6, <1>7, <1>8

LEMMA CumulusThenBacked ==
    ASSUME NEW store, NEW ps, Given("cumulus", store, ps), NEW a \in Actions(ps)
    PROVE  AllBacked("body", AllLists("cumulus", store, ps), CumulusThen(store, a))
<1> DEFINE lists == AllLists("cumulus", store, ps)
           v     == a.v
<1>1. /\ Listed(v.set) /\ Listed(v.added) /\ Listed(v.removed)
      /\ NamesOf(v) = ToSet(v.set) \cup ToSet(v.added) \cup ToSet(v.removed)
  BY ActionIs DEF Given
<1>2. a.field = "community" => \A n \in ToSet(v.removed) : HasList("body", lists, "BASIC", Single(n))
  BY <1>1, ActionLists DEF KindOf, CommunityFields, TypeOf
<1> HIDE DEF lists
<1>3. CASE a.field = "community"
  <2>1. CumulusThen(store, a) = If(v.replaced, <<Literal("set", {"BASIC"}, MembersAs(store, "BASIC", v.set))>>)
                \o If(v.added # <<>>, <<Literal("add", {"BASIC"}, MembersAs(store, "BASIC", v.added))>>)
                \o PerName("del", {"BASIC"}, "BASIC", v.removed)
    BY <1>3 DEF CumulusThen, PerName, Rows
  <2>2. AllBacked("body", lists, PerName("del", {"BASIC"}, "BASIC", v.removed))
    BY <1>1, <1>2, <1>3, ListRows
  <2> QED
    BY <2>1, <2>2, Bare, RowsJoined DEF lists
<1>4. CASE a.field \in {"large_community", "extcommunity_rt", "extcommunity_soo"}
  <2> DEFINE rows == CumulusThen(store, a)
  <2>1. rows = [i \in DOMAIN v.added |-> rows[i]] /\ \A i \in DOMAIN v.added : rows[i].names = <<>>
    <3>1. rows = [i \in DOMAIN v.added |-> Literal("add", {TypeOf[a.field]}, {<<TypeOf[a.field], v.added[i]>>})]
      BY <1>4 DEF CumulusThen, Rows
    <3> HIDE DEF rows
    <3> QED
      BY <3>1 DEF Literal, NoRow
  <2> HIDE DEF rows
  <2>2. AllBacked("body", lists, rows)
    BY <1>1, <2>1, NamelessRows
  <2> QED
    BY <2>2 DEF rows, lists
<1>5. CASE a.field = "extcommunity"
  BY <1>5, Bare, TypeRows DEF CumulusThen, lists
<1>6. CASE a.field = "as_path"
  <2>1. CumulusThen(store, a) = PathEach("prepend", v.added) \o PathEach("delete", v.removed)
                \o If(v.replaced, <<Path("set", <<>>)>>) \o PathEach("prepend", v.set)
                \o If(v.last # <<>>, <<Path("last", v.last)>>)
    BY <1>6 DEF CumulusThen
  <2> QED
    BY <1>1, <2>1, Bare, PathRows, RowsJoined DEF lists
<1>7. CASE a.field \notin {"community", "large_community", "extcommunity_rt", "extcommunity_soo", "extcommunity", "as_path"}
  BY <1>7, Bare DEF CumulusThen, lists
<1> QED
  BY <1>3, <1>4, <1>5, <1>6, <1>7

LEMMA IosxrThenBacked ==
    ASSUME NEW store, NEW ps, Given("iosxr", store, ps), NEW a \in Actions(ps), ~IosxrThenRaises(store, a)
    PROVE  AllBacked("body", AllLists("iosxr", store, ps), IosxrThen(a))
<1> DEFINE lists == AllLists("iosxr", store, ps)
           v     == a.v
           type  == IF a.field = "community" THEN "BASIC" ELSE "RT"
           named == v.set \o v.added
<1>1. /\ Listed(v.set) /\ Listed(v.added) /\ Listed(v.removed)
      /\ NamesOf(v) = ToSet(v.set) \cup ToSet(v.added) \cup ToSet(v.removed)
  BY ActionIs DEF Given
<1>2. Listed(named) /\ ToSet(named) = ToSet(v.set) \cup ToSet(v.added)
      /\ Listed(named \o v.removed) /\ ToSet(named \o v.removed) = NamesOf(v)
  BY <1>1, ListsJoined
<1>3. CASE a.field \in {"community", "extcommunity"}
  <2>1. IosxrThen(a) = If(v.replaced, <<Literal("set", {type}, {})>>)
                           \o PerName("add", {type}, type, named)
                           \o PerName("del", {type}, type, v.removed)
    BY <1>3 DEF IosxrThen, PerName, Rows
  <2>2. ASSUME NEW n \in NamesOf(v) PROVE HasList("body", lists, type, Single(n))
    <3>1. Named(store.comms, n).type = type
      <4>1. CASE a.field = "community"
        BY <4>1 DEF Given, WellTypedIn, CommunityFields, TypeOf
      <4>2. CASE a.field = "extcommunity"
        <5>1. TypesOf(store, named \o v.removed) \ {"RT"} = {}
          BY <4>2 DEF IosxrThenRaises
        <5>2. Named(store.comms, n).type \in TypesOf(store, named \o v.removed)
          BY <1>2 DEF TypesOf
        <5> QED
          BY <4>2, <5>1, <5>2
      <4> QED
        BY <1>3, <4>1, <4>2
    <3>2. a.field \in CommunityFields \/ (a.field = "extcommunity" /\ ~Uniteds("iosxr"))
      BY <1>3 DEF CommunityFields, Uniteds
    <3>3. Of(CommunityLists("iosxr", store, ps), KindOf("iosxr", Named(store.comms, n).type), Single(n)) # {}
      BY <3>2, ActionThere
    <3>4. \A t : KindOf("iosxr", t) = t
      BY DEF KindOf
    <3> QED
      BY <3>1, <3>3, <3>4, ListsAmong
  <2> HIDE DEF lists, type, named
  <2>3. AllBacked("body", lists, PerName("add", {type}, type, named))
    BY <1>1, <1>2, <2>2, ListRows
  <2>4. AllBacked("body", lists, PerName("del", {type}, type, v.removed))
    BY <1>1, <2>2, ListRows
  <2>5. AllBacked("body", lists, If(v.replaced, <<Literal("set", {type}, {})>>))
    BY Bare
  <2> QED
    BY <2>1, <2>3, <2>4, <2>5, RowsJoined DEF lists
<1> HIDE DEF lists, named, type
<1>4. CASE a.field = "as_path"
  BY <1>1, <1>4, PathRows DEF IosxrThen, lists
<1>5. CASE a.field \notin {"community", "extcommunity", "as_path"}
  BY <1>5, Bare DEF IosxrThen, lists
<1> QED
  BY <1>3, <1>4, <1>5

LEMMA JuniperThenBacked ==
    ASSUME NEW store, NEW ps, Given("juniper", store, ps), NEW a \in Actions(ps)
    PROVE  AllBacked("body", AllLists("juniper", store, ps), JuniperThen(store, a))
<1> DEFINE lists == AllLists("juniper", store, ps)
           v     == a.v
           By(how, names) == Rows(names, LAMBDA n : ByLists(how, TypesOf(store, <<n>>), "community", <<Single(n)>>))
<1>1. /\ Listed(v.set) /\ Listed(v.added) /\ Listed(v.removed)
      /\ NamesOf(v) = ToSet(v.set) \cup ToSet(v.added) \cup ToSet(v.removed)
  BY ActionIs DEF Given
<1>2. CASE a.field \in CommunityActions
  <2>1. JuniperThen(store, a) = By("del", v.removed) \o By("set", v.set) \o By("add", v.added)
    BY <1>2 DEF JuniperThen, CommunityActions
  <2>2. ASSUME NEW n \in NamesOf(v) PROVE HasList("body", lists, "community", Single(n))
    <3>1. a.field \in CommunityFields \/ (a.field = "extcommunity" /\ ~Uniteds("juniper"))
      BY <1>2 DEF CommunityActions, CommunityFields, Uniteds
    <3>2. Of(CommunityLists("juniper", store, ps), KindOf("juniper", Named(store.comms, n).type), Single(n)) # {}
      BY <3>1, ActionThere
    <3> QED
      BY <3>2, ListsAmong DEF KindOf
  <2> HIDE DEF lists
  <2>3. ASSUME NEW how, NEW names, Listed(names), ToSet(names) \subseteq NamesOf(v)
        PROVE  AllBacked("body", lists, By(how, names))
    <3> DEFINE rows == By(how, names)
    <3>1. rows = [i \in DOMAIN names |-> rows[i]]
          /\ \A i \in DOMAIN names : rows[i].kind = "community" /\ rows[i].names = <<Single(names[i])>>
      BY DEF Rows, ByLists, NoRow
    <3> HIDE DEF rows
    <3>2. AllBacked("body", lists, rows)
      BY <2>2, <2>3, <3>1, RowPerName
    <3> QED
      BY <3>2 DEF rows
  <2> HIDE DEF By
  <2>4. AllBacked("body", lists, By("del", v.removed)) /\ AllBacked("body", lists, By("set", v.set))
        /\ AllBacked("body", lists, By("add", v.added))
    BY <1>1, <2>3
  <2> QED
    BY <2>1, <2>4, RowsJoined DEF lists
<1>3. CASE a.field = "as_path"
  <2>1. JuniperThen(store, a) = If(v.added # <<>>, <<Path("prepend", v.added)>>)
                                    \o If(v.expand # <<>>, <<Path("expand", v.expand)>>)
                                    \o If(v.last # <<>>, <<Path("last", v.last)>>)
    BY <1>3 DEF JuniperThen, CommunityActions
  <2> QED
    BY <2>1, Bare, RowsJoined
<1>4. CASE a.field \notin CommunityActions \cup {"as_path"}
  BY <1>4, Bare DEF JuniperThen, lists
<1> QED
  BY <1>2, <1>3, <1>4

LEMMA Sorted1 ==
    ASSUME NEW then, Listed(then)
    PROVE  Listed(JuniperSorted(then)) /\ ToSet(JuniperSorted(then)) \subseteq ToSet(then)
<1> DEFINE Wanted1(n, a) == CASE n = 1 -> a.field \in CommunityActions
                             [] n = 2 -> a.field = "next_hop"
                             [] n = 3 -> a.field = "as_path"
                             [] n = 4 -> a.field \notin CommunityActions \cup {"next_hop", "as_path"}
           pieces(n) == [i \in DOMAIN then |-> IF Wanted1(n, then[i]) THEN <<then[i]>> ELSE <<>>]
           A(n)     == {a \in ToSet(then) : Wanted1(n, a)}
<1>1. \A i \in DOMAIN then : then[i] \in ToSet(then)
  BY DEF ToSet
<1>2. JuniperSorted(then) = FlattenSeq(pieces(1)) \o FlattenSeq(pieces(2)) \o FlattenSeq(pieces(3)) \o FlattenSeq(pieces(4))
  BY DEF JuniperSorted, Those, Collect
<1> HIDE DEF Wanted1
<1>3. ASSUME NEW n PROVE Listed(FlattenSeq(pieces(n))) /\ ToSet(FlattenSeq(pieces(n))) \subseteq ToSet(then)
  <2> DEFINE ps == pieces(n)  T == A(n)
  <2>1. ps = [i \in DOMAIN then |-> ps[i]] /\ \A i \in DOMAIN then : ps[i] = IF then[i] \in T THEN <<then[i]>> ELSE <<>>
    BY <1>1
  <2> HIDE DEF ps, T
  <2>2. Listed(FlattenSeq(ps)) /\ ToSet(FlattenSeq(ps)) = ToSet(then) \cap T
    BY <2>1, Taken1
  <2> QED
    BY <2>2 DEF ps
<1> HIDE DEF pieces
<1> QED
  BY <1>2, <1>3, ListsJoined

LEMMA ActionsBacked ==
    ASSUME NEW vendor, NEW store, NEW ps, Given(vendor, store, ps), NEW s \in Statements(ps)
    PROVE  AllBacked("body", AllLists(vendor, store, ps), ThenRows(vendor, store, s.then))
<1> DEFINE lists == AllLists(vendor, store, ps)
           done  == IF vendor = "juniper" THEN JuniperSorted(s.then) ELSE s.then
           m     == Len(done)
           One(a) == CASE vendor = "huawei"  -> HuaweiThen(store, a)
                       [] vendor = "arista"  -> AristaThen(store, a)
                       [] vendor = "cumulus" -> CumulusThen(store, a)
                       [] vendor = "iosxr"   -> IosxrThen(a)
                       [] vendor = "juniper" -> JuniperThen(store, a)
           each  == [i \in DOMAIN done |-> One(done[i])]
<1>1. ~ThenRaises(vendor, store, s.then)
  BY DEF Given, PoliciesRaise, StatementRaises
<1>2. vendor \in {"huawei", "arista", "cumulus", "iosxr", "juniper"}
  BY DEF Given, MatchMap
<1>3. Listed(s.then) /\ \A a \in ToSet(s.then) : a \in Actions(ps)
  BY StatementIs DEF Given, IsSaid, Deeds
<1>4. Listed(done) /\ ToSet(done) \subseteq ToSet(s.then)
  BY <1>3, Sorted1
<1>5. m \in Nat /\ DOMAIN done = 1 .. m /\ \A i \in 1 .. m : done[i] \in ToSet(s.then)
  BY <1>4, ListIs
<1>6. ASSUME NEW a \in ToSet(s.then) PROVE AllBacked("body", lists, One(a))
  <2>1. PICK i \in DOMAIN s.then : s.then[i] = a
    BY DEF ToSet
  <2>2. /\ vendor = "huawei" => ~HuaweiThenRaises(store, a)
        /\ vendor = "iosxr" => ~IosxrThenRaises(store, a)
    BY <1>1, <2>1 DEF ThenRaises
  <2>3. CASE vendor = "huawei"
    BY <1>3, <2>2, <2>3, HuaweiThenBacked
  <2>4. CASE vendor = "arista"
    BY <1>3, <2>4, AristaThenBacked
  <2>5. CASE vendor = "cumulus"
    BY <1>3, <2>5, CumulusThenBacked
  <2>6. CASE vendor = "iosxr"
    BY <1>3, <2>2, <2>6, IosxrThenBacked
  <2>7. CASE vendor = "juniper"
    BY <1>3, <2>7, JuniperThenBacked
  <2> QED
    BY <1>2, <2>3, <2>4, <2>5, <2>6, <2>7
<1>7. ThenRows(vendor, store, s.then) = FlattenSeq(each)
  BY DEF ThenRows, Rows
<1> HIDE DEF One, done, lists
<1>8. each = [i \in 1 .. m |-> each[i]] /\ \A i \in 1 .. m : AllBacked("body", lists, each[i])
  BY <1>5, <1>6
<1> HIDE DEF each, m
<1>9. AllBacked("body", lists, FlattenSeq(each))
  BY <1>5, <1>8, RowsFlat
<1> QED
  BY <1>7, <1>9 DEF lists

-----------------------------------------------------------------------------
(* Terms, and what becomes of them when the text is read back.             *)
IsTerm(t) == DOMAIN t = {"number", "name", "match", "body"}
TermBacked(lists, t) == IsTerm(t) /\ AllBacked("match", lists, t.match) /\ AllBacked("body", lists, t.body)
TermsBacked(lists, terms) == Listed(terms) /\ \A t \in ToSet(terms) : TermBacked(lists, t)

LEMMA TermsFlat ==
    ASSUME NEW lists, NEW n \in Nat, NEW groups, groups = [i \in 1 .. n |-> groups[i]],
           \A i \in 1 .. n : TermsBacked(lists, groups[i])
    PROVE  TermsBacked(lists, FlattenSeq(groups))
<1>1. \A i \in 1 .. n : Listed(groups[i])
  BY DEF TermsBacked
<1>2. Listed(FlattenSeq(groups)) /\ ToSet(FlattenSeq(groups)) = UNION {ToSet(groups[i]) : i \in 1 .. n}
  BY <1>1, Collected
<1> QED
  BY <1>2 DEF TermsBacked

LEMMA FewTerms ==
    ASSUME NEW lists
    PROVE  TermsBacked(lists, <<>>) /\ \A t : TermBacked(lists, t) => TermsBacked(lists, <<t>>)
BY NoElements, OneElement DEF TermsBacked

LEMMA TermsMade ==
    ASSUME NEW vendor, NEW store, NEW ps, Given(vendor, store, ps), NEW s \in Statements(ps), NEW n
    PROVE  TermsBacked(AllLists(vendor, store, ps), Terms(vendor, store, s, n))
<1> DEFINE lists == AllLists(vendor, store, ps)
           match == MatchRows(vendor, store, s.match)
           body  == Append(ThenRows(vendor, store, s.then), Says(s.result))
           Term(b) == [number |-> IF vendor = "iosxr" THEN 0 ELSE n,
                       name |-> IF vendor = "juniper" THEN s.name ELSE "", match |-> match, body |-> b]
           rows  == [i \in DOMAIN body |-> Term(<<body[i]>>)]
<1>1. AllBacked("match", lists, match)
  BY MatchesBacked
<1>2. AllBacked("body", lists, body)
  <2>1. AllBacked("body", lists, ThenRows(vendor, store, s.then))
    BY ActionsBacked
  <2>2. IsBacked("body", lists, Says(s.result))
    BY NoName DEF Says, NoRow
  <2> QED
    BY <2>1, <2>2, AppendElements DEF AllBacked
<1>3. Terms(vendor, store, s, n) = IF vendor = "iosxr" /\ match = <<>> THEN rows ELSE <<Term(body)>>
  BY DEF Terms, Rows
<1> HIDE DEF lists, match, body
<1>4. \A b : AllBacked("body", lists, b) => TermBacked(lists, Term(b))
  BY <1>1 DEF TermBacked, IsTerm
<1> HIDE DEF Term
<1>5. TermsBacked(lists, <<Term(body)>>)
  BY <1>2, <1>4, FewTerms
<1>6. TermsBacked(lists, rows)
  <2> DEFINE m == Len(body)
  <2>1. m \in Nat /\ DOMAIN body = 1 .. m /\ \A i \in 1 .. m : IsBacked("body", lists, body[i])
    BY <1>2, ListIs DEF AllBacked
  <2>2. rows = [i \in 1 .. m |-> rows[i]] /\ \A i \in 1 .. m : rows[i] = Term(<<body[i]>>)
    BY <2>1
  <2> HIDE DEF rows, m
  <2>3. \A i \in 1 .. m : TermBacked(lists, rows[i])
    BY <1>4, <2>1, <2>2, FewRows
  <2>4. Listed(rows) /\ ToSet(rows) = {rows[i] : i \in 1 .. m}
    BY <2>1, <2>2, Indexed
  <2> QED
    BY <2>3, <2>4 DEF TermsBacked
<1> QED
  BY <1>3, <1>5, <1>6 DEF lists

LEMMA DistinctBacked ==
    ASSUME NEW part, NEW lists, NEW rows, AllBacked(part, lists, rows)
    PROVE  AllBacked(part, lists, Distinct(rows))
<1> DEFINE n    == Len(rows)
           at   == [i \in DOMAIN rows |-> i]
           kept == [i \in DOMAIN at |-> IF \E m \in 1 .. at[i] - 1 : rows[m] = rows[at[i]] THEN <<>> ELSE <<rows[at[i]]>>]
<1>1. n \in Nat /\ DOMAIN rows = 1 .. n /\ \A i \in 1 .. n : IsBacked(part, lists, rows[i])
  BY ListIs DEF AllBacked
<1>2. Distinct(rows) = FlattenSeq(kept)
  BY DEF Distinct, Collect
<1>3. kept = [i \in 1 .. n |-> kept[i]] /\ \A i \in 1 .. n : kept[i] = <<>> \/ kept[i] = <<rows[i]>>
  BY <1>1
<1> HIDE DEF kept
<1>4. \A i \in 1 .. n : AllBacked(part, lists, kept[i])
  BY <1>1, <1>3, FewRows
<1>5. AllBacked(part, lists, FlattenSeq(kept))
  BY <1>1, <1>3, <1>4, RowsFlat
<1> QED
  BY <1>2, <1>5

LEMMA UnitedBacked ==
    ASSUME NEW lists, NEW vendor, NEW terms, TermsBacked(lists, terms), NEW i \in DOMAIN terms
    PROVE  TermBacked(lists, United(vendor, terms, i))
<1> DEFINE n       == Len(terms)
           block   == OneBlock(vendor, terms, i)
           matches == [j \in DOMAIN terms |-> IF j \in block THEN terms[j].match ELSE <<>>]
           bodies  == [j \in DOMAIN terms |-> IF j \in block THEN terms[j].body ELSE <<>>]
<1>1. n \in Nat /\ DOMAIN terms = 1 .. n /\ \A j \in 1 .. n : TermBacked(lists, terms[j])
  BY ListIs DEF TermsBacked
<1>2. United(vendor, terms, i) = [terms[i] EXCEPT !.match = Distinct(FlattenSeq(matches)), !.body = Distinct(FlattenSeq(bodies))]
  BY DEF United
<1>3. /\ matches = [j \in 1 .. n |-> matches[j]]
      /\ bodies = [j \in 1 .. n |-> bodies[j]]
      /\ \A j \in 1 .. n : /\ AllBacked("match", lists, matches[j])
                           /\ AllBacked("body", lists, bodies[j])
  BY <1>1, FewRows DEF TermBacked
<1> HIDE DEF matches, bodies
<1>4. AllBacked("match", lists, FlattenSeq(matches)) /\ AllBacked("body", lists, FlattenSeq(bodies))
  BY <1>1, <1>3, RowsFlat
<1>5. AllBacked("match", lists, Distinct(FlattenSeq(matches))) /\ AllBacked("body", lists, Distinct(FlattenSeq(bodies)))
  BY <1>4, DistinctBacked
<1>6. IsTerm(terms[i])
  BY <1>1 DEF TermBacked
<1> QED
  BY <1>2, <1>5, <1>6 DEF TermBacked, IsTerm

LEMMA ReadBackBacked ==
    ASSUME NEW lists, NEW vendor, NEW terms, TermsBacked(lists, terms)
    PROVE  TermsBacked(lists, ReadBack(vendor, terms))
<1> DEFINE n    == Len(terms)
           at   == [i \in DOMAIN terms |-> i]
           kept == [i \in DOMAIN at |-> IF at[i] = Min(OneBlock(vendor, terms, at[i])) THEN <<United(vendor, terms, at[i])>> ELSE <<>>]
<1>1. n \in Nat /\ DOMAIN terms = 1 .. n
  BY ListIs DEF TermsBacked
<1>2. vendor # "cumulus" => ReadBack(vendor, terms) = FlattenSeq(kept)
  BY DEF ReadBack, Collect
<1>3. kept = [i \in 1 .. n |-> kept[i]] /\ \A i \in 1 .. n : kept[i] = <<>> \/ kept[i] = <<United(vendor, terms, i)>>
  BY <1>1
<1> HIDE DEF kept
<1>4. \A i \in 1 .. n : TermsBacked(lists, kept[i])
  BY <1>1, <1>3, UnitedBacked, FewTerms
<1>5. TermsBacked(lists, FlattenSeq(kept))
  BY <1>1, <1>3, <1>4, TermsFlat
<1> QED
  BY <1>2, <1>5 DEF ReadBack

LEMMA PoliciesBacked ==
    ASSUME NEW vendor, NEW store, NEW ps, Given(vendor, store, ps), NEW k \in DOMAIN ps
    PROVE  TermsBacked(AllLists(vendor, store, ps), Policies(vendor, store, ps)[k].terms)
<1> DEFINE lists == AllLists(vendor, store, ps)
           ss    == ps[k].statements
           n     == Len(ss)
           each  == [i \in DOMAIN ss |-> Terms(vendor, store, ss[i], TermNumbers(ss)[i])]
<1>1. ps[k] \in ToSet(ps) /\ ToSet(ss) \subseteq Statements(ps)
  BY DEF ToSet, Statements
<1>2. n \in Nat /\ DOMAIN ss = 1 .. n /\ \A i \in 1 .. n : ss[i] \in Statements(ps)
  BY <1>1, ListIs DEF Given, Policed, SaidAll
<1>3. each = [i \in 1 .. n |-> each[i]] /\ \A i \in 1 .. n : TermsBacked(lists, each[i])
  BY <1>2, TermsMade
<1>4. Policies(vendor, store, ps)[k].terms = ReadBack(vendor, FlattenSeq(each))
  BY DEF Policies, PolicyTerms
<1> HIDE DEF each, n, lists
<1>5. TermsBacked(lists, FlattenSeq(each))
  BY <1>2, <1>3, TermsFlat
<1> QED
  BY <1>4, <1>5, ReadBackBacked DEF lists

-----------------------------------------------------------------------------
(* Once written, the output is that of one vendor's generators.            *)
WrittenInv ==
    pc = "written" /\ ~out.raises =>
        /\ out.vendor \in Vendors
        /\ ~ListsRaise(out.vendor, it.store, policies)
        /\ ~PoliciesRaise(out.vendor, it.store, policies)
        /\ out.lists = AllLists(out.vendor, it.store, policies)
        /\ out.policies = Policies(out.vendor, it.store, policies)

(* What is written for a device is what the generators of its vendor make  *)
(* of the policies, none of them having raised.                            *)
THEOREM WrittenInvHolds == Spec => []WrittenInv
<1>1. Init => WrittenInv
  BY DEF Init, WrittenInv
<1>2. WrittenInv /\ [Next]_vars => WrittenInv'
  <2> SUFFICES ASSUME WrittenInv, [Next]_vars PROVE WrittenInv'
    OBVIOUS
  <2>1. ASSUME NEW conds, NEW name, NEW number, CallRoute(conds, name, number) PROVE WrittenInv'
    BY <2>1 DEF CallRoute, WrittenInv
  <2>2. ASSUME NEW c, CallBuilder(c) PROVE WrittenInv'
    BY <2>2 DEF CallBuilder, WrittenInv
  <2>3. ASSUME NEW result, Leave(result) PROVE WrittenInv'
    BY <2>3 DEF Leave, WrittenInv
  <2>4. CASE EndHandler
    BY <2>4 DEF EndHandler, WrittenInv
  <2>5. ASSUME NEW vendor \in Vendors, Generate(vendor) PROVE WrittenInv'
    <3> DEFINE lists   == AllLists(vendor, it.store, policies)
               written == Policies(vendor, it.store, policies)
    <3>1. it' = it /\ policies' = policies
      BY <2>5 DEF Generate, it
    <3>2. CASE ListsRaise(vendor, it.store, policies) \/ PoliciesRaise(vendor, it.store, policies)
      BY <2>5, <3>2 DEF Generate, WrittenInv, NoOutput
    <3>3. CASE ~(ListsRaise(vendor, it.store, policies) \/ PoliciesRaise(vendor, it.store, policies))
      <4>1. out' = [vendor |-> vendor, raises |-> FALSE, lists |-> lists, policies |-> written]
        BY <2>5, <3>3 DEF Generate
      <4> HIDE DEF lists, written
      <4>2. out'.vendor = vendor /\ out'.lists = lists /\ out'.policies = written
        BY <4>1
      <4> HIDE DEF it
      <4> QED
        BY <3>1, <3>3, <4>2 DEF WrittenInv, lists, written
    <3> QED
      BY <3>2, <3>3
  <2>6. CASE UNCHANGED vars
    BY <2>6 DEF vars, WrittenInv, it
  <2> QED
    BY <2>1, <2>2, <2>3, <2>4, <2>5, <2>6 DEF Next
<1> QED
  BY <1>1, <1>2, PTL DEF Spec

(* Whatever the user's lists, conditions, calls and handlers, and on every *)
(* vendor: each list a written policy refers to is written, under the kind *)
(* and the name of the reference, while no prefix list serves two address  *)
(* families and no community list stands for another type.                 *)
THEOREM ListsAreDefined == Spec => []ListsDefined
<1>1. BuildInv /\ WrittenInv => ListsDefined
  <2> SUFFICES ASSUME BuildInv, WrittenInv, Written1, OneFamily, WellTyped
               PROVE  /\ \A row \in AllRows(LAMBDA t : t.match) : IsBacked("match", out.lists, row)
                      /\ \A row \in AllRows(LAMBDA t : t.body) : IsBacked("body", out.lists, row)
    BY DEF ListsDefined, IsBacked, HasList, ListsFor, ReferKinds
  <2> DEFINE store == it.store
  <2>1. Given(out.vendor, store, policies)
    <3>1. out.vendor \in DOMAIN MatchMap /\ Policed(policies) /\ ~PoliciesRaise(out.vendor, store, policies)
      BY RplAssumption DEF BuildInv, WrittenInv, Written1
    <3>2. OneFamilyIn(policies) /\ WellTypedIn(store, policies)
      BY DEF OneFamily, WellTyped, OneFamilyIn, WellTypedIn, PolicyConds, PrefixConds
    <3> QED
      BY <3>1, <3>2 DEF Given
  <2>2. out.lists = AllLists(out.vendor, store, policies) /\ out.policies = Policies(out.vendor, store, policies)
    BY DEF WrittenInv, Written1
  <2> HIDE DEF store
  <2>3. ASSUME NEW i \in DOMAIN out.policies, NEW j \in DOMAIN TermsOf(i)
        PROVE  TermBacked(out.lists, TermsOf(i)[j])
    <3>1. i \in DOMAIN policies
      BY <2>2 DEF Policies
    <3>2. TermsBacked(out.lists, TermsOf(i))
      BY <2>1, <2>2, <3>1, PoliciesBacked DEF TermsOf
    <3>3. TermsOf(i)[j] \in ToSet(TermsOf(i))
      BY DEF ToSet
    <3> QED
      BY <3>2, <3>3 DEF TermsBacked
  <2> QED
    BY <2>3 DEF AllRows, TermBacked, AllBacked
<1> QED
  BY <1>1, BuildInvHolds, WrittenInvHolds, PTL

-----------------------------------------------------------------------------
(* Merged conditions hold together as those they were made of did.         *)
MadeAll(s) == Conds(s) /\ \A c \in ToSet(s) : IsMade(c)
NumberFields == {"local_pref", "as_path_length", "metric"}

LEMMA NumberMade ==
    ASSUME NEW c, c.field \in NumberFields
    PROVE  IsMade(c) <=> /\ c.lo \in Int /\ c.hi \in Int /\ c.names = <<>>
                         /\ c.op \in {"eq", "lt", "le", "gt", "ge", "between"}
BY DEF IsMade, NumberFields, OfPrefix, CommunityFields

LEMMA MergedMeaning ==
    ASSUME NEW a, NEW b, IsCondition(a), IsCondition(b), IsMade(a), IsMade(b), a.field = b.field,
           Merge(a, b).op # "error", NEW store, NEW r, IsRoute(r)
    PROVE  /\ IsMade(Merge(a, b)) /\ a.field \in NumberFields
           /\ Meant(store, Merge(a, b), r) <=> Meant(store, a, r) /\ Meant(store, b, r)
<1> DEFINE m == Merge(a, b)
<1>1. m.field = a.field /\ m.names = a.names
  BY MergeIs
<1>2. a.field \in NumberFields
  <2> SUFFICES ASSUME a.field \notin NumberFields PROVE FALSE
    OBVIOUS
  <2>1. a.op \in {"has", "has_any", "custom", "eq"}
    BY DEF IsMade, NumberFields
  <2>2. m = Fails(a)
    BY <2>1 DEF Merge
  <2> QED
    BY <2>2 DEF Fails, IsCondition
<1>3. a.names = <<>> /\ b.names = <<>> /\ a.op \in {"eq", "lt", "le", "gt", "ge", "between"}
      /\ b.op \in {"eq", "lt", "le", "gt", "ge", "between"} /\ a.lo \in Int /\ b.lo \in Int /\ a.hi \in Int /\ b.hi \in Int
  BY <1>2, NumberMade
<1> DEFINE x == Attribute(r, a.field)
<1>4. x \in Int
  <2>1. Len(r.path) \in Int
    BY DEF IsRoute
  <2> QED
    BY <1>2, <2>1 DEF Attribute, NumberFields, IsRoute
<1>5. /\ Meant(store, a, r) = Compared(a.op, x, a.lo, a.hi)
      /\ Meant(store, b, r) = Compared(b.op, x, b.lo, b.hi)
      /\ Meant(store, m, r) = Compared(m.op, x, m.lo, m.hi)
  BY <1>1, <1>3 DEF Meant
<1> HIDE DEF m, x
<1>6. CASE a.op = "le" /\ b.op = "ge"
  <2>1. m.op = "between" /\ m.lo = b.lo /\ m.hi = a.lo
    BY <1>6 DEF m, Merge, IsCondition
  <2>2. IsMade(m)
    BY <1>1, <1>2, <1>3, <2>1, NumberMade
  <2> QED
    BY <1>2, <1>3, <1>4, <1>5, <1>6, <2>1, <2>2 DEF Compared, m
<1>7. CASE a.op = "ge" /\ b.op = "le"
  <2>1. m.op = "between" /\ m.lo = a.lo /\ m.hi = b.lo
    BY <1>7 DEF m, Merge, IsCondition
  <2>2. IsMade(m)
    BY <1>1, <1>2, <1>3, <2>1, NumberMade
  <2> QED
    BY <1>2, <1>3, <1>4, <1>5, <1>7, <2>1, <2>2 DEF Compared, m
<1>8. CASE a.op = b.op /\ a.op \in {"le", "lt"}
  <2>1. m.op = a.op /\ m.lo = Min({a.lo, b.lo}) /\ m.hi = a.hi
    BY <1>8 DEF m, Merge, IsCondition
  <2>2. m.lo = IF a.lo <= b.lo THEN a.lo ELSE b.lo
    BY <1>3, <2>1 DEF Min
  <2>3. IsMade(m)
    BY <1>1, <1>2, <1>3, <2>1, <2>2, NumberMade
  <2>4. CASE a.op = "le"
    <3>1. Compared(m.op, x, m.lo, m.hi) <=> x <= a.lo /\ x <= b.lo
      BY <1>3, <1>4, <2>1, <2>2, <2>4 DEF Compared
    <3>2. Compared(a.op, x, a.lo, a.hi) = (x <= a.lo) /\ Compared(b.op, x, b.lo, b.hi) = (x <= b.lo)
      BY <1>8, <2>4 DEF Compared
    <3> QED
      BY <1>2, <1>5, <2>3, <3>1, <3>2 DEF m
  <2>5. CASE a.op = "lt"
    <3>1. Compared(m.op, x, m.lo, m.hi) <=> x < a.lo /\ x < b.lo
      BY <1>3, <1>4, <2>1, <2>2, <2>5 DEF Compared
    <3>2. Compared(a.op, x, a.lo, a.hi) = (x < a.lo) /\ Compared(b.op, x, b.lo, b.hi) = (x < b.lo)
      BY <1>8, <2>5 DEF Compared
    <3> QED
      BY <1>2, <1>5, <2>3, <3>1, <3>2 DEF m
  <2> QED
    BY <1>8, <2>4, <2>5
<1>9. CASE a.op = b.op /\ a.op \in {"ge", "gt"}
  <2>1. m.op = a.op /\ m.lo = Max({a.lo, b.lo}) /\ m.hi = a.hi
    BY <1>9 DEF m, Merge, IsCondition
  <2>2. m.lo = IF a.lo >= b.lo THEN a.lo ELSE b.lo
    BY <1>3, <2>1 DEF Max
  <2>3. IsMade(m)
    BY <1>1, <1>2, <1>3, <2>1, <2>2, NumberMade
  <2>4. CASE a.op = "ge"
    <3>1. Compared(m.op, x, m.lo, m.hi) <=> x >= a.lo /\ x >= b.lo
      BY <1>3, <1>4, <2>1, <2>2, <2>4 DEF Compared
    <3>2. Compared(a.op, x, a.lo, a.hi) = (x >= a.lo) /\ Compared(b.op, x, b.lo, b.hi) = (x >= b.lo)
      BY <1>9, <2>4 DEF Compared
    <3> QED
      BY <1>2, <1>5, <2>3, <3>1, <3>2 DEF m
  <2>5. CASE a.op = "gt"
    <3>1. Compared(m.op, x, m.lo, m.hi) <=> x > a.lo /\ x > b.lo
      BY <1>3, <1>4, <2>1, <2>2, <2>5 DEF Compared
    <3>2. Compared(a.op, x, a.lo, a.hi) = (x > a.lo) /\ Compared(b.op, x, b.lo, b.hi) = (x > b.lo)
      BY <1>9, <2>5 DEF Compared
    <3> QED
      BY <1>2, <1>5, <2>3, <3>1, <3>2 DEF m
  <2> QED
    BY <1>9, <2>4, <2>5
<1>10. CASE /\ ~(a.op = "le" /\ b.op = "ge") /\ ~(a.op = "ge" /\ b.op = "le")
            /\ ~(a.op = b.op /\ a.op \in {"le", "lt"}) /\ ~(a.op = b.op /\ a.op \in {"ge", "gt"})
  <2>1. m = Fails(a)
    BY <1>10 DEF m, Merge
  <2> QED
    BY <2>1 DEF Fails, IsCondition, m
<1> QED
  BY <1>6, <1>7, <1>8, <1>9, <1>10

(* The conditions so far, of one field each; all that hold no error hold   *)
(* together what the first n given ones do.                                *)
OneEach(g) == \A i, j \in DOMAIN g : g[i].field = g[j].field => i = j
Errs(g)    == \E i \in DOMAIN g : g[i].op = "error"
Holding(store, g, r) == \A i \in DOMAIN g : Meant(store, g[i], r)
Merged(store, r, conds, n, g) ==
    /\ Conds(g) /\ OneEach(g)
    /\ ~Errs(g) =>
          /\ \A i \in DOMAIN g : IsMade(g[i]) /\ (g[i].field \notin NumberFields => g[i] \in ToSet(conds))
          /\ Holding(store, g, r) <=> \A k \in 1 .. n : Meant(store, conds[k], r)

LEMMA MergedOneMore ==
    ASSUME NEW store, NEW r, IsRoute(r), NEW conds, MadeAll(conds), NEW n \in Nat, n + 1 \in DOMAIN conds,
           NEW g, Merged(store, r, conds, n, g)
    PROVE  Merged(store, r, conds, n + 1, AddCondition(g, conds[n + 1]))
<1> DEFINE c == conds[n + 1]
           h == AddCondition(g, c)
           l == Len(g)
<1>1. c \in ToSet(conds) /\ IsCondition(c) /\ IsMade(c)
  BY DEF MadeAll, Conds, ToSet
<1>2. Conds(h)
  BY <1>1, ConditionAdded DEF Merged
<1>3. l \in Nat /\ DOMAIN g = 1 .. l /\ \A i \in 1 .. l : IsCondition(g[i])
  BY ListIs DEF Merged, Conds
<1>4. \A P : (\A k \in 1 .. n + 1 : P[k]) <=> (\A k \in 1 .. n : P[k]) /\ P[n + 1]
  OBVIOUS
<1>5. (\A k \in 1 .. n + 1 : Meant(store, conds[k], r)) <=> (\A k \in 1 .. n : Meant(store, conds[k], r)) /\ Meant(store, c, r)
  <2>1. \A k \in 1 .. n + 1 : k \in 1 .. n \/ k = n + 1
    OBVIOUS
  <2>2. n + 1 \in 1 .. n + 1 /\ \A k \in 1 .. n : k \in 1 .. n + 1
    OBVIOUS
  <2> QED
    BY <2>1, <2>2
<1>6. CASE \E i \in DOMAIN g : g[i].field = c.field
  <2>1. PICK p \in 1 .. l : g[p].field = c.field
    BY <1>3, <1>6
  <2>2. \A i \in 1 .. l : g[i].field = c.field <=> i = p
    BY <1>3, <2>1 DEF Merged, OneEach
  <2>3. DOMAIN h = 1 .. l /\ h[p] = Merge(g[p], c) /\ \A i \in 1 .. l : i # p => h[i] = g[i]
    BY <1>3, <1>6, <2>2 DEF AddCondition
  <2> HIDE DEF h, l
  <2>4. Merge(g[p], c).field = g[p].field
    BY <1>3, MergeIs
  <2>5. OneEach(h)
    <3>1. \A i \in 1 .. l : h[i].field = g[i].field
      BY <2>3, <2>4
    <3> QED
      BY <1>3, <2>3, <3>1 DEF Merged, OneEach
  <2>6. ASSUME ~Errs(h)
        PROVE  /\ \A i \in DOMAIN h : IsMade(h[i]) /\ (h[i].field \notin NumberFields => h[i] \in ToSet(conds))
               /\ Holding(store, h, r) <=> \A k \in 1 .. n + 1 : Meant(store, conds[k], r)
    <3>1. Merge(g[p], c).op # "error" /\ \A i \in 1 .. l : i # p => g[i].op # "error"
      BY <2>3, <2>6 DEF Errs
    <3>2. g[p].op # "error"
      <4> SUFFICES ASSUME g[p].op = "error" PROVE FALSE
        OBVIOUS
      <4>1. Merge(g[p], c) = Fails(g[p])
        BY DEF Merge
      <4> QED
        BY <1>3, <3>1, <4>1 DEF Fails, IsCondition
    <3>3. ~Errs(g)
      BY <1>3, <3>1, <3>2 DEF Errs
    <3>4. IsMade(g[p])
      BY <1>3, <3>3 DEF Merged
    <3>5. /\ IsMade(h[p]) /\ h[p].field \in NumberFields
          /\ Meant(store, h[p], r) <=> Meant(store, g[p], r) /\ Meant(store, c, r)
      BY <1>1, <1>3, <2>1, <2>3, <2>4, <3>1, <3>4, MergedMeaning
    <3>6. Holding(store, h, r) <=> Holding(store, g, r) /\ Meant(store, c, r)
      BY <1>3, <2>3, <3>5 DEF Holding
    <3>7. \A i \in DOMAIN h : IsMade(h[i]) /\ (h[i].field \notin NumberFields => h[i] \in ToSet(conds))
      BY <1>3, <2>3, <3>3, <3>5 DEF Merged
    <3>8. Holding(store, g, r) <=> \A k \in 1 .. n : Meant(store, conds[k], r)
      BY <3>3 DEF Merged
    <3> HIDE DEF c
    <3> QED
      BY <1>5, <3>6, <3>7, <3>8
  <2> QED
    BY <1>2, <2>5, <2>6 DEF Merged, h
<1>7. CASE ~ \E i \in DOMAIN g : g[i].field = c.field
  <2>1. h = Append(g, c)
    BY <1>7 DEF AddCondition
  <2>2. DOMAIN h = 1 .. l + 1 /\ h[l + 1] = c /\ \A i \in 1 .. l : h[i] = g[i]
    <3>1. g \in Seq(ToSet(g) \cup {c})
      BY SeqMonotonic DEF Merged, Conds, Listed
    <3>2. Append(g, c) \in Seq(ToSet(g) \cup {c}) /\ Len(Append(g, c)) = l + 1
          /\ Append(g, c)[l + 1] = c /\ \A i \in 1 .. l : Append(g, c)[i] = g[i]
      BY <3>1, AppendProperties
    <3>3. DOMAIN Append(g, c) = 1 .. Len(Append(g, c))
      BY <3>2, SeqElements
    <3> QED
      BY <2>1, <3>2, <3>3
  <2> HIDE DEF h, l
  <2>3. \A i \in 1 .. l + 1 : i \in 1 .. l \/ i = l + 1
    BY <1>3
  <2>4. l + 1 \in 1 .. l + 1 /\ \A i \in 1 .. l : i \in 1 .. l + 1
    BY <1>3
  <2>5. OneEach(h)
    <3> SUFFICES ASSUME NEW i \in 1 .. l + 1, NEW j \in 1 .. l + 1, h[i].field = h[j].field PROVE i = j
      BY <2>2 DEF OneEach
    <3>1. i \in 1 .. l => h[i].field # c.field
      BY <1>3, <1>7, <2>2
    <3>2. j \in 1 .. l => h[j].field # c.field
      BY <1>3, <1>7, <2>2
    <3> QED
      BY <1>3, <2>2, <2>3, <3>1, <3>2 DEF Merged, OneEach
  <2>6. ASSUME ~Errs(h)
        PROVE  /\ \A i \in DOMAIN h : IsMade(h[i]) /\ (h[i].field \notin NumberFields => h[i] \in ToSet(conds))
               /\ Holding(store, h, r) <=> \A k \in 1 .. n + 1 : Meant(store, conds[k], r)
    <3>1. ~Errs(g)
      BY <1>3, <2>2, <2>4, <2>6 DEF Errs
    <3>2. Holding(store, h, r) <=> Holding(store, g, r) /\ Meant(store, c, r)
      BY <1>3, <2>2, <2>3, <2>4 DEF Holding
    <3>3. \A i \in DOMAIN h : IsMade(h[i]) /\ (h[i].field \notin NumberFields => h[i] \in ToSet(conds))
      BY <1>1, <1>3, <2>2, <2>3, <3>1 DEF Merged
    <3>4. Holding(store, g, r) <=> \A k \in 1 .. n : Meant(store, conds[k], r)
      BY <3>1 DEF Merged
    <3> HIDE DEF c
    <3> QED
      BY <1>5, <3>2, <3>3, <3>4
  <2> QED
    BY <1>2, <2>5, <2>6 DEF Merged, h
<1> QED
  BY <1>6, <1>7

(* merge_conditions: what is merged without an error holds of a route when *)
(* all the conditions given do.                                            *)
LEMMA MergingMeans ==
    ASSUME NEW store, NEW r, IsRoute(r), NEW conds, MadeAll(conds)
    PROVE  Merged(store, r, conds, Len(conds), MergeConditions(conds))
<1> DEFINE m     == Len(conds)
           f     == CHOOSE g : MergingUpTo(conds, m, g)
           wrong == {n \in 0 .. m : ~Merged(store, r, conds, n, f[n])}
<1>1. m \in Nat /\ DOMAIN conds = 1 .. m
  BY ListIs DEF MadeAll, Conds
<1>2. MergingUpTo(conds, m, f)
  BY <1>1, MergingExists
<1>3. MergeConditions(conds) = f[m]
  BY DEF MergeConditions, MergingUpTo
<1> HIDE DEF f
<1>4. \A n \in 0 .. m : f[n] = IF n = 0 THEN <<>> ELSE AddCondition(f[n - 1], conds[n])
  BY <1>2 DEF MergingUpTo
<1>5. Merged(store, r, conds, 0, f[0])
  <2>1. f[0] = <<>> /\ DOMAIN f[0] = {}
    BY <1>1, <1>4
  <2>2. Conds(f[0])
    BY <2>1, NoElements DEF Conds
  <2> QED
    BY <2>1, <2>2 DEF Merged, OneEach, Errs, Holding
<1>6. ASSUME NEW n \in 1 .. m, Merged(store, r, conds, n - 1, f[n - 1]) PROVE Merged(store, r, conds, n, f[n])
  <2>1. n - 1 \in Nat /\ (n - 1) + 1 = n /\ n \in DOMAIN conds /\ n # 0 /\ n \in 0 .. m
    BY <1>1
  <2> DEFINE k == n - 1
  <2>2. k \in Nat /\ k + 1 = n /\ Merged(store, r, conds, k, f[k])
    BY <1>6, <2>1
  <2>3. f[n] = AddCondition(f[k], conds[n])
    BY <1>4, <2>1
  <2> HIDE DEF k
  <2>4. Merged(store, r, conds, k + 1, AddCondition(f[k], conds[k + 1]))
    BY <2>1, <2>2, MergedOneMore
  <2> QED
    BY <2>2, <2>3, <2>4
<1>7. wrong = {}
  <2> SUFFICES ASSUME wrong # {} PROVE FALSE
    OBVIOUS
  <2>1. wrong \in SUBSET Nat
    OBVIOUS
  <2>2. PICK n \in wrong : \A j \in wrong : n <= j
    BY <2>1, LeastNatural
  <2>3. n \in 1 .. m
    BY <1>1, <1>5, <2>2
  <2>4. n - 1 \in 0 .. m /\ n - 1 \notin wrong
    BY <2>2, <2>3
  <2>5. Merged(store, r, conds, n - 1, f[n - 1])
    BY <2>4
  <2> QED
    BY <1>6, <2>2, <2>3, <2>5
<1>8. m \in 0 .. m /\ m \notin wrong
  BY <1>1, <1>7
<1> QED
  BY <1>3, <1>8

-----------------------------------------------------------------------------
(* What the lists of a policy hold: for a vendor, a store, policies, a     *)
(* route and the configuration written.                                    *)
NotShared(vendor, store, ps) ==
    vendor = "juniper" =>
        \A c, d \in PrefixConds(ps) : \A n \in ToSet(c.names) \cap ToSet(d.names) :
            PrefixName(vendor, store, n, c) = PrefixName(vendor, store, n, d) =>
                PrefixList(vendor, store, n, c) = PrefixList(vendor, store, n, d)
NotMixed(vendor, store, ps) ==
    vendor = "juniper" =>
        \A c \in PrefixConds(ps) : \A n \in ToSet(c.names) :
            FlavourOf(store, n, c) = "orlonger" =>
                \A m \in ToSet(GetPrefix(store, n, c).members) : ~(m.ge = Unset /\ m.le = Unset)
OfFamily(store, c, r) ==
    c.field = "ip_prefix" /\ r.v6 =>
        \A n \in ToSet(c.names) : \A i \in DOMAIN store.prefixes : store.prefixes[i].name = n =>
            \A m \in ToSet(store.prefixes[i].members) : m.net # r.net

Settled(vendor, store, ps, cfg, r) ==
    /\ Given(vendor, store, ps) /\ ~ListsRaise(vendor, store, ps)
    /\ cfg.lists = AllLists(vendor, store, ps)
    /\ IsStore(store) /\ IsRoute(r)
    /\ \A c \in Conditions(ps) : IsMade(c) /\ OfFamily(store, c, r)
    /\ NotShared(vendor, store, ps) /\ NotMixed(vendor, store, ps)

LEMMA NamedIs ==
    ASSUME NEW seq, NEW n, Knows(seq, n)
    PROVE  \E i \in DOMAIN seq : Named(seq, n) = seq[i] /\ seq[i].name = n
<1>1. \E x \in ToSet(seq) : x.name = n
  BY DEF Knows, ToSet
<1>2. Named(seq, n) \in ToSet(seq) /\ Named(seq, n).name = n
  BY <1>1 DEF Named
<1> QED
  BY <1>2 DEF ToSet

(* Names of conditions are known: the generators did not raise.            *)
LEMMA CommunityKnown ==
    ASSUME NEW vendor, NEW store, NEW ps, ~ListsRaise(vendor, store, ps), Policed(ps),
           NEW c \in CommunityConditions(ps), NEW n \in ToSet(c.names)
    PROVE  Knows(store.comms, n)
<1> DEFINE united == UnitedCommunities(ps)
           used   == IF Uniteds(vendor) THEN UNION {ToSet(u) : u \in united} ELSE UsedCommunities(ps)
<1>1. n \in UsedCommunities(ps)
  BY DEF UsedCommunities
<1>2. n \in UNION {ToSet(u) : u \in united}
  <2>1. CASE c.op = "has_any" /\ Len(c.names) > 1
    BY <2>1 DEF UnitedCommunities
  <2>2. CASE ~(c.op = "has_any" /\ Len(c.names) > 1)
    <3>1. Single(n) \in united
      BY <2>2 DEF UnitedCommunities
    <3>2. n \in ToSet(Single(n))
      BY OneElement DEF Single
    <3> QED
      BY <3>1, <3>2
  <2> QED
    BY <2>1, <2>2
<1>3. n \in used
  BY <1>1, <1>2
<1>4. ~CommunityListsRaise(vendor, store, ps)
  BY DEF ListsRaise
<1>5. ~ \E x \in used : ~Knows(store.comms, x)
  BY <1>4 DEF CommunityListsRaise
<1> QED
  BY <1>3, <1>5

LEMMA PrefixKnown ==
    ASSUME NEW vendor, NEW store, NEW ps, ~ListsRaise(vendor, store, ps), Policed(ps),
           NEW c \in PrefixConds(ps), NEW n \in ToSet(c.names)
    PROVE  Knows(store.prefixes, n)
<1>1. UseOf(n, c) \in ToSet(PrefixUses(ps))
  BY UsesOfPolicies DEF UsesOf, UsesBy
<1>2. PICK i \in DOMAIN PrefixUses(ps) : PrefixUses(ps)[i] = UseOf(n, c)
  BY <1>1 DEF ToSet
<1>3. PrefixUses(ps)[i].name = n
  BY <1>2 DEF UseOf
<1> QED
  BY <1>3 DEF ListsRaise, PrefixListsRaise

LEMMA OthersKnown ==
    ASSUME NEW vendor, NEW store, NEW ps, ~ListsRaise(vendor, store, ps),
           NEW c \in Conditions(ps), NEW n \in ToSet(c.names)
    PROVE  /\ c.field = "as_path_filter" => Knows(store.aspaths, n)
           /\ c.field = "rd" /\ vendor \notin {"arista", "cumulus"} => Knows(store.rds, n)
<1>1. \A f : c.field = f => n \in UsedIn(ps, f)
  BY DEF UsedIn
<1> QED
  BY <1>1 DEF ListsRaise, AsPathsRaise, RdsRaise

(* A community list has the name it is wanted under.                       *)
LEMMA CommunityListIs ==
    ASSUME NEW vendor, NEW store, NEW ps, NEW names, NEW t,
           names \in Wanted(vendor, ps), ToSet(names) # {},
           \A n \in ToSet(names) : Named(store.comms, n).type = t
    PROVE  Of(CommunityLists(vendor, store, ps), KindOf(vendor, t), names) = {ListOf(vendor, store, names)}
<1>1. \A u : ListOf(vendor, store, u).name = u
  BY DEF ListOf, Mangle
<1>2. Of(CommunityLists(vendor, store, ps), KindOf(vendor, t), names) # {}
  BY ListThere
<1>3. \A l \in CommunityLists(vendor, store, ps) : \E u : l = ListOf(vendor, store, u)
  BY DEF CommunityLists
<1>4. \A l \in Of(CommunityLists(vendor, store, ps), KindOf(vendor, t), names) : l = ListOf(vendor, store, names)
  BY <1>1, <1>3 DEF Of
<1> QED
  BY <1>2, <1>4

LEMMA EntriesOf ==
    ASSUME NEW vendor, NEW store, NEW names
    PROVE  ListOf(vendor, store, names).entries = UNION {Entries(vendor, Named(store.comms, n)) : n \in ToSet(names)}
BY DEF ListOf

(* The entries of one list hold when the list does, if all are asked for   *)
(* where the entries do not say so.                                        *)
LEMMA EntriesHold ==
    ASSUME NEW vendor, NEW c, IsList(c.members), c.logic = "AND" => c.members # <<>>, NEW r, NEW every \in BOOLEAN,
           every => c.logic = "AND", vendor = "iosxr" => (every <=> c.logic = "AND")
    PROVE  /\ Entries(vendor, c) # {}
           /\ IF every THEN \A e \in Entries(vendor, c) : e \subseteq r.comms
                       ELSE \E e \in Entries(vendor, c) : e \subseteq r.comms
           <=> ListHolds(c, r)
<1> DEFINE es == Entries(vendor, c)
<1>1. CASE c.logic = "AND" /\ vendor # "iosxr"
  <2>1. es = {Values(c)}
    BY <1>1 DEF Entries
  <2>2. es # {}
    BY <2>1
  <2>3. (\A e \in es : e \subseteq r.comms) <=> Values(c) \subseteq r.comms
    BY <2>1
  <2>4. (\E e \in es : e \subseteq r.comms) <=> Values(c) \subseteq r.comms
    BY <2>1
  <2>5. ListHolds(c, r) <=> Values(c) \subseteq r.comms
    BY <1>1 DEF ListHolds
  <2> HIDE DEF es
  <2> QED
    BY <2>2, <2>3, <2>4, <2>5 DEF es
<1>2. CASE c.logic = "AND" /\ vendor = "iosxr"
  <2>1. es = {{x} : x \in Values(c)} /\ every
    BY <1>2 DEF Entries
  <2>2. Values(c) # {}
    <3>1. DOMAIN c.members # {}
      <4>1. Listed(c.members)
        BY DEF IsList, Listed
      <4>2. c.members = [i \in 1 .. Len(c.members) |-> c.members[i]] /\ Len(c.members) \in Nat
        BY <4>1, ListIs
      <4>3. Len(c.members) # 0
        <5> SUFFICES ASSUME Len(c.members) = 0 PROVE FALSE
          OBVIOUS
        <5>1. c.members = <<>>
          BY <4>1 DEF Listed
        <5> QED
          BY <1>2, <5>1
      <4> QED
        BY <4>2, <4>3
    <3> QED
      BY <3>1 DEF Values, ToSet
  <2>3. ListHolds(c, r) <=> Values(c) \subseteq r.comms
    BY <1>2 DEF ListHolds
  <2>4. es # {} /\ ((\A e \in es : e \subseteq r.comms) <=> Values(c) \subseteq r.comms)
    BY <2>1, <2>2
  <2> HIDE DEF es
  <2> QED
    BY <2>1, <2>3, <2>4 DEF es
<1>3. CASE c.logic # "AND"
  <2>1. es = {{x} : x \in Values(c)} /\ ~every
    BY <1>3 DEF Entries
  <2>2. ListHolds(c, r) <=> Values(c) \cap r.comms # {}
    BY <1>3 DEF ListHolds
  <2>3. ASSUME NEW e \in es, e \subseteq r.comms PROVE Values(c) \cap r.comms # {}
    <3>1. PICK x \in Values(c) : e = {x}
      BY <2>1
    <3>2. x \in r.comms
      BY <2>3, <3>1
    <3> QED
      BY <3>1, <3>2
  <2>4. ASSUME NEW x \in Values(c) \cap r.comms PROVE \E e \in es : e \subseteq r.comms
    <3>1. {x} \in es /\ {x} \subseteq r.comms
      BY <2>1, <2>4
    <3> QED
      BY <3>1
  <2> HIDE DEF es
  <2> QED
    BY <2>1, <2>2, <2>3, <2>4 DEF es
<1> QED
  BY <1>1, <1>2, <1>3

(* A reference to one list by its name, and to the united one.             *)
LEMMA SingleHolds ==
    ASSUME NEW vendor, NEW store, NEW ps, NEW cfg, NEW r, Settled(vendor, store, ps, cfg, r),
           NEW c \in CommunityConditions(ps), NEW n \in ToSet(c.names),
           ~(Uniteds(vendor) /\ c.op = "has_any"),
           NEW row, row.kind = KindOf(vendor, TypeOf[c.field]),
           Single(n) \in row.every => Named(store.comms, n).logic = "AND",
           vendor = "iosxr" => (Single(n) \in row.every <=> Named(store.comms, n).logic = "AND")
    PROVE  CommunityHolds(cfg, row, Single(n), r) <=> ListHolds(Named(store.comms, n), r)
<1> DEFINE t == TypeOf[c.field]  x == Named(store.comms, n)  l == ListOf(vendor, store, Single(n))
<1>1. ToSet(Single(n)) = {n}
  BY OneElement DEF Single
<1>2. Single(n) \in Wanted(vendor, ps)
  BY DEF Wanted, UnitedCommunities, UsedCommunities
<1>3. x.type = t
  BY DEF Settled, Given, WellTypedIn
<1>4. Of(cfg.lists.comms, row.kind, Single(n)) = {l}
  <2>1. cfg.lists.comms = CommunityLists(vendor, store, ps)
    BY DEF Settled, AllLists
  <2>2. Of(CommunityLists(vendor, store, ps), KindOf(vendor, t), Single(n)) = {l}
    <3> HIDE DEF l, t
    <3>1. \A k \in ToSet(Single(n)) : Named(store.comms, k).type = t
      BY <1>1, <1>3
    <3>2. ToSet(Single(n)) # {}
      BY <1>1
    <3> QED
      BY <1>2, <3>1, <3>2, CommunityListIs DEF l
  <2> QED
    BY <2>1, <2>2
<1>5. l.entries = Entries(vendor, x)
  <2>1. l.entries = UNION {Entries(vendor, Named(store.comms, k)) : k \in ToSet(Single(n))}
    BY EntriesOf
  <2>2. {Entries(vendor, Named(store.comms, k)) : k \in ToSet(Single(n))} = {Entries(vendor, x)}
    BY <1>1
  <2> HIDE DEF l, x
  <2> QED
    BY <2>1, <2>2
<1>6. IsList(x.members) /\ (x.logic = "AND" => x.members # <<>>)
  <2>1. Knows(store.comms, n)
    BY CommunityKnown DEF Settled, Given
  <2>2. PICK i \in DOMAIN store.comms : x = store.comms[i]
    BY <2>1, NamedIs
  <2> QED
    BY <2>2 DEF Settled, IsStore
<1> DEFINE every == Single(n) \in row.every
<1> HIDE DEF x, l
<1>7. /\ Entries(vendor, x) # {}
      /\ IF every THEN \A e \in Entries(vendor, x) : e \subseteq r.comms
                  ELSE \E e \in Entries(vendor, x) : e \subseteq r.comms
      <=> ListHolds(x, r)
  BY <1>6, EntriesHold DEF x
<1>8. CommunityHolds(cfg, row, Single(n), r) <=>
         /\ l.entries # {}
         /\ IF every THEN \A e \in l.entries : e \subseteq r.comms ELSE \E e \in l.entries : e \subseteq r.comms
  BY <1>4 DEF CommunityHolds
<1> QED
  BY <1>5, <1>7, <1>8 DEF x

LEMMA UnitedHolds ==
    ASSUME NEW vendor, NEW store, NEW ps, NEW cfg, NEW r, Settled(vendor, store, ps, cfg, r),
           NEW c \in CommunityConditions(ps), Uniteds(vendor), c.op = "has_any",
           NEW row, row.kind = KindOf(vendor, TypeOf[c.field]), row.every = {}
    PROVE  CommunityHolds(cfg, row, c.names, r) <=> \E n \in ToSet(c.names) : ListHolds(Named(store.comms, n), r)
<1> DEFINE t == TypeOf[c.field]  l == ListOf(vendor, store, c.names)
<1>1. c \in Conditions(ps) /\ IsCondition(c) /\ Listed(c.names)
  BY ConditionIs DEF Settled, Given, CommunityConditions, IsCondition, Listed, IsList
<1>2. \A n \in ToSet(c.names) : Named(store.comms, n).type = t
  BY DEF Settled, Given, WellTypedIn
<1>3. c.names = [i \in 1 .. Len(c.names) |-> c.names[i]] /\ ToSet(c.names) = {c.names[i] : i \in 1 .. Len(c.names)}
  BY <1>1, ListIs
<1>4. Len(c.names) \in Nat /\ Len(c.names) # 0
  BY <1>1, ListIs DEF IsCondition
<1>5. ToSet(c.names) # {}
  <2>1. 1 \in 1 .. Len(c.names)
    BY <1>4
  <2> QED
    BY <1>3, <2>1
<1>6. c.names \in Wanted(vendor, ps)
  <2>1. CASE Len(c.names) > 1
    BY <2>1 DEF UnitedCommunities, Wanted
  <2>2. CASE Len(c.names) = 1
    <3>1. c.names = Single(c.names[1]) /\ c.names[1] \in ToSet(c.names)
      BY <1>3, <2>2 DEF Single
    <3>2. Single(c.names[1]) \in Wanted(vendor, ps)
      BY <2>2, <3>1 DEF Wanted, UnitedCommunities
    <3> QED
      BY <3>1, <3>2
  <2>3. \A m \in Nat : m # 0 => m = 1 \/ m > 1
    OBVIOUS
  <2> QED
    BY <1>4, <2>1, <2>2, <2>3
<1>7. Of(cfg.lists.comms, row.kind, c.names) = {l}
  <2>1. cfg.lists.comms = CommunityLists(vendor, store, ps)
    BY DEF Settled, AllLists
  <2> HIDE DEF t
  <2>2. Of(CommunityLists(vendor, store, ps), KindOf(vendor, t), c.names) = {l}
    BY <1>2, <1>5, <1>6, CommunityListIs
  <2> QED
    BY <2>1, <2>2 DEF t
<1>8. l.entries = UNION {Entries(vendor, Named(store.comms, n)) : n \in ToSet(c.names)}
  BY EntriesOf
<1> HIDE DEF l
<1>9. CommunityHolds(cfg, row, c.names, r) <=> \E e \in l.entries : e \subseteq r.comms
  BY <1>7 DEF CommunityHolds
<1>10. ASSUME NEW n \in ToSet(c.names)
       PROVE  (\E e \in Entries(vendor, Named(store.comms, n)) : e \subseteq r.comms) <=> ListHolds(Named(store.comms, n), r)
  <2> DEFINE x == Named(store.comms, n)
  <2>1. Knows(store.comms, n)
    BY CommunityKnown DEF Settled, Given
  <2>2. PICK i \in DOMAIN store.comms : x = store.comms[i]
    BY <2>1, NamedIs
  <2>3. IsList(x.members) /\ (x.logic = "AND" => x.members # <<>>)
    BY <2>2 DEF Settled, IsStore
  <2>4. vendor # "iosxr"
    BY DEF Uniteds
  <2> HIDE DEF x
  <2> DEFINE no == FALSE
  <2>5. /\ Entries(vendor, x) # {}
        /\ IF no THEN \A e \in Entries(vendor, x) : e \subseteq r.comms
                    ELSE \E e \in Entries(vendor, x) : e \subseteq r.comms
        <=> ListHolds(x, r)
    BY <2>3, <2>4, EntriesHold
  <2> QED
    BY <2>5 DEF x
<1> QED
  BY <1>8, <1>9, <1>10

(* Prefix lists: the one found has the members that the condition means.   *)
LEMMA PrefixListIs ==
    ASSUME NEW vendor, NEW store, NEW ps, Policed(ps), OneFamilyIn(ps), NotShared(vendor, store, ps),
           NEW c \in PrefixConds(ps), NEW n \in ToSet(c.names), NEW l \in PrefixLists(vendor, store, ps),
           l.name = PrefixName(vendor, store, n, c)
    PROVE  l.members = PrefixList(vendor, store, n, c).members
<1> DEFINE uses == PrefixUses(ps)
<1>1. PICK i \in DOMAIN uses : l = PrefixList(vendor, store, uses[i].name, uses[i].c)
  BY DEF PrefixLists
<1> DEFINE k == uses[i].name  d == uses[i].c
<1>2. d \in PrefixConds(ps) /\ k \in ToSet(d.names)
  <2>1. uses[i] \in UsesOf(PrefixConds(ps))
    BY UsesOfPolicies DEF ToSet
  <2> HIDE DEF uses
  <2> QED
    BY <2>1 DEF UsesOf, UsesBy, UseOf
<1>3. PrefixName(vendor, store, k, d) = PrefixName(vendor, store, n, c)
  BY <1>1 DEF PrefixList
<1> HIDE DEF k, d
<1>4. k = n
  BY <1>3, OneUserName
<1>5. CASE vendor = "juniper"
  BY <1>1, <1>2, <1>3, <1>4, <1>5 DEF NotShared, k, d
<1>6. CASE vendor # "juniper"
  <2>1. c.field = d.field
    BY <1>2, <1>4 DEF OneFamilyIn
  <2>2. \A e : PrefixName(vendor, store, n, e) = IF Overrides(e) THEN <<n, e.lo, e.hi>> ELSE <<n>>
    BY <1>6 DEF PrefixName, GetPrefix
  <2>3. (Overrides(c) <=> Overrides(d)) /\ (Overrides(c) => c.lo = d.lo /\ c.hi = d.hi)
    <3>1. \A a, b : <<n, a, b>> # <<n>>
      OBVIOUS
    <3>2. \A a, b, x, y : <<n, a, b>> = <<n, x, y>> => a = x /\ b = y
      OBVIOUS
    <3> QED
      BY <1>3, <1>4, <2>2, <3>1, <3>2
  <2>4. GetPrefix(store, n, c).members = GetPrefix(store, n, d).members
    BY <2>3 DEF GetPrefix
  <2>5. \A e, m : Written(vendor, store, n, e, m) = m
    BY <1>6 DEF Written
  <2>6. \A e : PrefixList(vendor, store, n, e).members = {m : m \in ToSet(GetPrefix(store, n, e).members)}
    BY <2>5 DEF PrefixList
  <2> QED
    BY <1>1, <1>4, <2>4, <2>6 DEF k, d
<1> QED
  BY <1>5, <1>6

LEMMA PrefixFound ==
    ASSUME NEW vendor, NEW store, NEW ps, NEW cfg, NEW r, Settled(vendor, store, ps, cfg, r),
           NEW c \in PrefixConds(ps), NEW n \in ToSet(c.names),
           NEW row, row.kind = PrefixKind(vendor, store, n, c)
    PROVE  PrefixHolds(cfg, row, PrefixName(vendor, store, n, c), r) <=>
              \E m \in PrefixList(vendor, store, n, c).members :
                  InMember(IF row.op = "orlonger" THEN [m EXCEPT !.le = Longest(r)] ELSE m, Longest(r), r)
<1> DEFINE name == PrefixName(vendor, store, n, c)
           found == Of(cfg.lists.prefixes, row.kind, name)
<1>1. cfg.lists.prefixes = PrefixLists(vendor, store, ps)
  BY DEF Settled, AllLists
<1>2. found # {}
  BY <1>1, PrefixThere DEF Settled
<1>3. \A l \in found : l.members = PrefixList(vendor, store, n, c).members
  BY <1>1, PrefixListIs DEF Of, Settled, Given
<1> HIDE DEF found
<1>4. PrefixHolds(cfg, row, name, r) <=> \E l \in found : \E m \in l.members :
          InMember(IF row.op = "orlonger" THEN [m EXCEPT !.le = Longest(r)] ELSE m, Longest(r), r)
  BY DEF PrefixHolds, found
<1> QED
  BY <1>2, <1>3, <1>4

(* The members a condition means, and those of its list.                   *)
MembersOf(store, n) == ToSet(Named(store.prefixes, n).members)
Overridden(c, m)    == IF Overrides(c) THEN [m EXCEPT !.ge = c.lo, !.le = c.hi] ELSE m

LEMMA MembersMeant ==
    ASSUME NEW vendor, NEW store, NEW ps, NEW cfg, NEW r, Settled(vendor, store, ps, cfg, r),
           NEW c \in PrefixConds(ps), NEW n \in ToSet(c.names)
    PROVE  /\ NameMeant(store, c, n, r) <=> \E m \in MembersOf(store, n) : InMember(Overridden(c, m), MaxLen(c.field), r)
           /\ ToSet(GetPrefix(store, n, c).members) = {Overridden(c, m) : m \in MembersOf(store, n)}
           /\ \A m \in MembersOf(store, n) :
                 /\ IsMember(m) /\ IsMember(Overridden(c, m)) /\ Overridden(c, m).net = m.net
                 /\ m.net = r.net /\ r.v6 => c.field = "ipv6_prefix"
<1> DEFINE list == Named(store.prefixes, n)  ms == ToSet(list.members)
<1>1. c \in Conditions(ps) /\ IsCondition(c) /\ IsMade(c) /\ OfPrefix(c) /\ OfFamily(store, c, r)
  BY ConditionIs DEF PrefixConds, Settled, Given
<1>2. Knows(store.prefixes, n)
  BY PrefixKnown DEF Settled, Given
<1>3. PICK i \in DOMAIN store.prefixes : list = store.prefixes[i] /\ store.prefixes[i].name = n
  BY <1>2, NamedIs
<1>4. IsList(list.members) /\ \A m \in ms : IsMember(m)
  BY <1>3 DEF Settled, IsStore
<1>5. NameMeant(store, c, n, r) <=> \E m \in ms : InMember(Overridden(c, m), MaxLen(c.field), r)
  <2>1. ~IsCommunity(c) /\ c.field # "rd" /\ c.field # "as_path_filter"
    BY <1>1 DEF OfPrefix, IsCommunity, CommunityFields
  <2> HIDE DEF ms
  <2> QED
    BY <1>1, <2>1 DEF NameMeant, Overridden, ms
<1>6. ToSet(GetPrefix(store, n, c).members) = {Overridden(c, m) : m \in ms}
  <2> DEFINE o == GetPrefix(store, n, c).members  f == list.members
  <2>1. CASE Overrides(c)
    <3>1. o = [j \in DOMAIN f |-> Overridden(c, f[j])]
      BY <2>1 DEF GetPrefix, Overridden
    <3> HIDE DEF o, f
    <3>2. ToSet(o) = {Overridden(c, f[j]) : j \in DOMAIN f} /\ ToSet(f) = {f[j] : j \in DOMAIN f}
      BY <3>1 DEF ToSet
    <3> QED
      BY <3>2 DEF f, o
  <2>2. CASE ~Overrides(c)
    <3>1. o = f
      BY <2>2 DEF GetPrefix
    <3>2. \A m : Overridden(c, m) = m
      BY <2>2 DEF Overridden
    <3> HIDE DEF o, f
    <3> QED
      BY <3>1, <3>2 DEF f, o
  <2> QED
    BY <2>1, <2>2
<1>7. c.lo \in Int /\ c.hi \in Int
  BY <1>1 DEF IsMade
<1>8. ASSUME NEW m \in ms
      PROVE  /\ IsMember(m) /\ IsMember(Overridden(c, m)) /\ Overridden(c, m).net = m.net
             /\ m.net = r.net /\ r.v6 => c.field = "ipv6_prefix"
  <2>1. IsMember(m)
    BY <1>4
  <2>2. IsMember(Overridden(c, m)) /\ Overridden(c, m).net = m.net
    BY <1>7, <2>1 DEF IsMember, Overridden
  <2>3. c.field = "ip_prefix" /\ r.v6 => m.net # r.net
    BY <1>1, <1>3 DEF OfFamily
  <2>4. c.field = "ip_prefix" \/ c.field = "ipv6_prefix"
    BY <1>1 DEF OfPrefix
  <2> QED
    BY <2>1, <2>2, <2>3, <2>4
<1> QED
  BY <1>5, <1>6, <1>8 DEF MembersOf

LEMMA MembersAlike ==
    ASSUME NEW vendor, NEW store, NEW ps, NEW cfg, NEW r, Settled(vendor, store, ps, cfg, r),
           NEW c \in PrefixConds(ps), NEW n \in ToSet(c.names)
    PROVE  LET over == ToSet(GetPrefix(store, n, c).members)
           IN /\ NameMeant(store, c, n, r) <=> \E m \in over : InMember(m, MaxLen(c.field), r)
              /\ \A m \in over : IsMember(m) /\ (m.net = r.net /\ r.v6 => c.field = "ipv6_prefix")
<1> DEFINE ms == MembersOf(store, n)  over == ToSet(GetPrefix(store, n, c).members)
<1>1. NameMeant(store, c, n, r) <=> \E m \in ms : InMember(Overridden(c, m), MaxLen(c.field), r)
  BY MembersMeant
<1>2. over = {Overridden(c, m) : m \in ms}
  BY MembersMeant
<1>3. \A m \in ms : /\ IsMember(Overridden(c, m)) /\ Overridden(c, m).net = m.net
                    /\ m.net = r.net /\ r.v6 => c.field = "ipv6_prefix"
  BY MembersMeant
<1> HIDE DEF ms, over
<1> QED
  BY <1>1, <1>2, <1>3 DEF over

(* A route is no longer than the longest prefix of its family.             *)
LEMMA LongestIs ==
    ASSUME NEW r, IsRoute(r), NEW m, IsMember(m), NEW field \in {"ip_prefix", "ipv6_prefix"},
           m.net = r.net /\ r.v6 => field = "ipv6_prefix"
    PROVE  InMember(m, Longest(r), r) <=> InMember(m, MaxLen(field), r)
BY DEF IsRoute, IsMember, InMember, MaxLen, Longest

LEMMA LengthsAre ==
    ASSUME NEW r, NEW field
    PROVE  /\ MaxLen(field) \in Nat /\ MaxLen(field) # Unset
           /\ Longest(r) \in Nat /\ Longest(r) # Unset
<1>1. CASE r.v6
  BY <1>1 DEF MaxLen, Longest, Unset
<1>2. CASE ~r.v6
  BY <1>2 DEF MaxLen, Longest, Unset
<1> QED
  BY <1>1, <1>2

(* Three ways to write them.                                               *)
LEMMA PlainPrefixHolds ==
    ASSUME NEW vendor, NEW store, NEW ps, NEW cfg, NEW r, Settled(vendor, store, ps, cfg, r), vendor # "juniper",
           NEW c \in PrefixConds(ps), NEW n \in ToSet(c.names),
           NEW row, row.kind = PrefixKind(vendor, store, n, c), row.op # "orlonger"
    PROVE  PrefixHolds(cfg, row, PrefixName(vendor, store, n, c), r) <=> NameMeant(store, c, n, r)
<1> DEFINE ms == MembersOf(store, n)
<1>1. /\ NameMeant(store, c, n, r) <=> \E m \in ms : InMember(Overridden(c, m), MaxLen(c.field), r)
      /\ ToSet(GetPrefix(store, n, c).members) = {Overridden(c, m) : m \in ms}
      /\ \A m \in ms : /\ IsMember(Overridden(c, m)) /\ Overridden(c, m).net = m.net
                       /\ m.net = r.net /\ r.v6 => c.field = "ipv6_prefix"
  BY MembersMeant
<1> HIDE DEF ms
<1>2. PrefixList(vendor, store, n, c).members = {Overridden(c, m) : m \in ms}
  <2>1. \A m : Written(vendor, store, n, c, m) = m
    BY DEF Written
  <2> QED
    BY <1>1, <2>1 DEF PrefixList
<1>3. c.field \in {"ip_prefix", "ipv6_prefix"} /\ IsRoute(r)
  BY DEF PrefixConds, OfPrefix, Settled
<1>4. \A m \in ms : InMember(Overridden(c, m), Longest(r), r) <=> InMember(Overridden(c, m), MaxLen(c.field), r)
  BY <1>1, <1>3, LongestIs
<1>5. PrefixHolds(cfg, row, PrefixName(vendor, store, n, c), r) <=>
          \E m \in PrefixList(vendor, store, n, c).members : InMember(m, Longest(r), r)
  BY PrefixFound
<1> QED
  BY <1>1, <1>2, <1>4, <1>5

(* All members down to the longest, and both lengths written.              *)
LEMMA AllLonger ==
    ASSUME NEW r, IsRoute(r), NEW m, IsMember(m), NEW field \in {"ip_prefix", "ipv6_prefix"},
           m.net = r.net /\ r.v6 => field = "ipv6_prefix",
           NEW x, x.net = m.net, x.len = m.len, x.ge = Unset, x.le = Longest(r),
           m.ge = Unset \/ m.ge = m.len, m.le = Unset \/ m.le = MaxLen(field), ~(m.ge = Unset /\ m.le = Unset)
    PROVE  InMember(x, Longest(r), r) <=> InMember(m, MaxLen(field), r)
<1>1. Longest(r) # Unset
  BY LengthsAre
<1>2. InMember(x, Longest(r), r) <=> r.net = m.net /\ r.len >= m.len /\ r.len <= Longest(r)
  BY <1>1 DEF InMember
<1>3. InMember(m, MaxLen(field), r) <=> r.net = m.net /\ r.len >= m.len /\ r.len <= MaxLen(field)
  BY DEF InMember
<1>4. r.net = m.net => r.len <= Longest(r) /\ r.len <= MaxLen(field)
  BY DEF IsRoute, Longest, MaxLen
<1> QED
  BY <1>2, <1>3, <1>4

LEMMA BothLengths ==
    ASSUME NEW r, IsRoute(r), NEW m, IsMember(m), NEW field \in {"ip_prefix", "ipv6_prefix"},
           m.net = r.net /\ r.v6 => field = "ipv6_prefix", ~(m.ge = Unset /\ m.le = Unset),
           NEW x, x.net = m.net, x.len = m.len, x.ge = (IF m.ge = Unset THEN m.len ELSE m.ge),
           x.le = (IF m.le = Unset THEN MaxLen(field) ELSE m.le)
    PROVE  InMember(x, Longest(r), r) <=> InMember(m, MaxLen(field), r)
<1>1. MaxLen(field) # Unset /\ m.len # Unset
  BY LengthsAre DEF IsMember, Unset
<1>2. x.ge # Unset /\ x.le # Unset
  BY <1>1
<1>3. InMember(x, Longest(r), r) <=> InMember(m, MaxLen(field), r)
  BY <1>2 DEF InMember
<1> QED
  BY <1>3

(* What Juniper writes of a member, read as the policy refers to it.       *)
AsWritten(store, n, c, m, op, r) ==
    InMember(IF op = "orlonger" THEN [Written("juniper", store, n, c, m) EXCEPT !.le = Longest(r)]
             ELSE Written("juniper", store, n, c, m), Longest(r), r)
OpFits(store, n, c, m, op) ==
    /\ op \in {"", "simple", "orlonger"} /\ JuniperType(store, n, c) \in {"prefix-list", "route-filter"}
    /\ JuniperType(store, n, c) = "route-filter" <=> op = ""
    /\ op = "simple" => m.ge = Unset /\ m.le = Unset
    /\ op = "orlonger" => /\ (m.ge = Unset \/ m.ge = m.len) /\ (m.le = Unset \/ m.le = MaxLen(c.field))
                          /\ ~(m.ge = Unset /\ m.le = Unset)

LEMMA JuniperMember ==
    ASSUME NEW store, NEW n, NEW c, c.field \in {"ip_prefix", "ipv6_prefix"}, NEW r, IsRoute(r),
           NEW m, IsMember(m), m.net = r.net /\ r.v6 => c.field = "ipv6_prefix",
           NEW op, OpFits(store, n, c, m, op)
    PROVE  AsWritten(store, n, c, m, op, r) <=> InMember(m, MaxLen(c.field), r)
<1> DEFINE w == Written("juniper", store, n, c, m)  type == JuniperType(store, n, c)
<1> USE DEF OpFits
<1>1. InMember(m, Longest(r), r) <=> InMember(m, MaxLen(c.field), r)
  BY LongestIs
<1>2. DOMAIN m = {"net", "len", "ge", "le"}
  BY DEF IsMember
<1>3. CASE type = "prefix-list" /\ op = "simple"
  <2>1. w = [m EXCEPT !.ge = Unset, !.le = Unset]
    BY <1>3 DEF Written
  <2>2. w.net = m.net /\ w.len = m.len /\ w.ge = Unset /\ w.le = Unset
    BY <1>2, <2>1
  <2> HIDE DEF w
  <2>3. InMember(w, Longest(r), r) <=> InMember(m, Longest(r), r)
    BY <1>3, <2>2 DEF InMember
  <2> QED
    BY <1>1, <1>3, <2>3 DEF w, AsWritten
<1>4. CASE type = "prefix-list" /\ op = "orlonger"
  <2> DEFINE x == [w EXCEPT !.le = Longest(r)]
  <2>1. w = [m EXCEPT !.ge = Unset, !.le = Unset]
    BY <1>4 DEF Written
  <2>2. x.net = m.net /\ x.len = m.len /\ x.ge = Unset /\ x.le = Longest(r)
    BY <1>2, <2>1
  <2> HIDE DEF x, w
  <2>3. InMember(x, Longest(r), r) <=> InMember(m, MaxLen(c.field), r)
    BY <1>4, <2>2, AllLonger
  <2> QED
    BY <1>4, <2>3 DEF x, w, AsWritten
<1>5. CASE type = "route-filter" /\ m.ge = Unset /\ m.le = Unset
  <2>1. w = m
    BY <1>5 DEF Written
  <2> HIDE DEF w
  <2> QED
    BY <1>1, <1>5, <2>1 DEF w, AsWritten
<1>6. CASE type = "route-filter" /\ ~(m.ge = Unset /\ m.le = Unset)
  <2>1. w = [m EXCEPT !.ge = IF @ = Unset THEN m.len ELSE @, !.le = IF @ = Unset THEN MaxLen(c.field) ELSE @]
    BY <1>6 DEF Written
  <2>2. w.net = m.net /\ w.len = m.len /\ w.ge = (IF m.ge = Unset THEN m.len ELSE m.ge)
        /\ w.le = (IF m.le = Unset THEN MaxLen(c.field) ELSE m.le)
    BY <1>2, <2>1
  <2> HIDE DEF w
  <2>3. InMember(w, Longest(r), r) <=> InMember(m, MaxLen(c.field), r)
    BY <1>6, <2>2, BothLengths
  <2> QED
    BY <1>6, <2>3 DEF w, AsWritten
<1> QED
  BY <1>3, <1>4, <1>5, <1>6

LEMMA JuniperMembers ==
    ASSUME NEW store, NEW n, NEW c, c.field \in {"ip_prefix", "ipv6_prefix"}, NEW r, IsRoute(r), NEW op,
           NEW S, \A m \in S : IsMember(m) /\ (m.net = r.net /\ r.v6 => c.field = "ipv6_prefix"),
           \A m \in S : OpFits(store, n, c, m, op)
    PROVE  (\E m \in S : AsWritten(store, n, c, m, op, r)) <=> \E m \in S : InMember(m, MaxLen(c.field), r)
<1>1. ASSUME NEW m \in S PROVE AsWritten(store, n, c, m, op, r) <=> InMember(m, MaxLen(c.field), r)
  BY JuniperMember
<1> QED
  BY <1>1

Flavoured(store, n, c, row) ==
    row.op = IF JuniperType(store, n, c) = "prefix-list" THEN FlavourOf(store, n, c) ELSE ""

LEMMA JuniperPrefixHolds ==
    ASSUME NEW store, NEW ps, NEW cfg, NEW r, Settled("juniper", store, ps, cfg, r),
           NEW c \in PrefixConds(ps), NEW n \in ToSet(c.names),
           NEW row, row.kind = JuniperType(store, n, c),
           Flavoured(store, n, c, row)
    PROVE  PrefixHolds(cfg, row, JuniperPrefix(store, n, c).name, r) <=> NameMeant(store, c, n, r)
<1> DEFINE over == ToSet(GetPrefix(store, n, c).members)
           W(m) == Written("juniper", store, n, c, m)
           type == JuniperType(store, n, c)
           flav == FlavourOf(store, n, c)
<1>1. c.field \in {"ip_prefix", "ipv6_prefix"} /\ IsRoute(r)
  BY DEF PrefixConds, OfPrefix, Settled
<1>2. /\ NameMeant(store, c, n, r) <=> \E m \in over : InMember(m, MaxLen(c.field), r)
      /\ \A m \in over : IsMember(m) /\ (m.net = r.net /\ r.v6 => c.field = "ipv6_prefix")
  BY MembersAlike
<1>3. PrefixList("juniper", store, n, c).members = {W(m) : m \in over}
  BY DEF PrefixList
<1>4. PrefixHolds(cfg, row, JuniperPrefix(store, n, c).name, r) <=>
          \E m \in over : AsWritten(store, n, c, m, row.op, r)
  <2>1. row.kind = PrefixKind("juniper", store, n, c) /\ PrefixName("juniper", store, n, c) = JuniperPrefix(store, n, c).name
    BY DEF PrefixKind, PrefixName
  <2>2. PrefixHolds(cfg, row, JuniperPrefix(store, n, c).name, r) <=>
          \E m \in PrefixList("juniper", store, n, c).members :
              InMember(IF row.op = "orlonger" THEN [m EXCEPT !.le = Longest(r)] ELSE m, Longest(r), r)
    BY <2>1, PrefixFound
  <2> HIDE DEF over
  <2> QED
    BY <1>3, <2>2 DEF AsWritten
<1>5. /\ flav = "custom" \/ \A m \in over : (m.ge = Unset \/ m.ge = m.len) /\ (m.le = Unset \/ m.le = MaxLen(c.field))
      /\ flav = "simple" => \A m \in over : m.ge = Unset /\ m.le = Unset
      /\ flav \in {"custom", "simple", "orlonger"}
      /\ flav = "orlonger" => \A m \in over : ~(m.ge = Unset /\ m.le = Unset)
  <2> DEFINE members == GetPrefix(store, n, c).members  most == MaxLen(c.field)
  <2>1. flav = Flavour(members, most)
    BY DEF FlavourOf
  <2>2. over = {members[j] : j \in DOMAIN members}
    BY DEF ToSet
  <2>3. flav = "orlonger" => \A m \in over : ~(m.ge = Unset /\ m.le = Unset)
    BY DEF Settled, NotMixed
  <2> HIDE DEF members, over, flav, most
  <2>4. /\ flav = "custom" \/ \A m \in over : (m.ge = Unset \/ m.ge = m.len) /\ (m.le = Unset \/ m.le = most)
        /\ flav = "simple" => \A m \in over : m.ge = Unset /\ m.le = Unset
        /\ flav \in {"custom", "simple", "orlonger"}
    BY <2>1, <2>2 DEF Flavour
  <2> QED
    BY <2>3, <2>4 DEF most
<1>6. type \in {"prefix-list", "route-filter"} /\ (type = "prefix-list" => flav # "custom")
  BY DEF JuniperType
<1>7. row.op \in {"", "simple", "orlonger"} /\ (type = "route-filter" => row.op = "")
      /\ (type = "prefix-list" => row.op = flav)
  BY <1>5, <1>6 DEF Flavoured
<1> HIDE DEF over, type, flav
<1>8. ASSUME NEW m \in over PROVE OpFits(store, n, c, m, row.op)
  <2>1. row.op = "simple" => m.ge = Unset /\ m.le = Unset
    BY <1>5, <1>6, <1>7
  <2>2. row.op = "orlonger" => /\ (m.ge = Unset \/ m.ge = m.len) /\ (m.le = Unset \/ m.le = MaxLen(c.field))
                               /\ ~(m.ge = Unset /\ m.le = Unset)
    BY <1>5, <1>6, <1>7
  <2>3. type = "prefix-list" => row.op \in {"simple", "orlonger"}
    BY <1>5, <1>6, <1>7
  <2> QED
    BY <1>6, <1>7, <2>1, <2>2, <2>3 DEF OpFits, type
<1>9. (\E m \in over : AsWritten(store, n, c, m, row.op, r)) <=> \E m \in over : InMember(m, MaxLen(c.field), r)
  BY <1>1, <1>2, <1>8, JuniperMembers
<1> QED
  BY <1>2, <1>4, <1>9

-----------------------------------------------------------------------------
(* Other lists, by their names.                                            *)
LEMMA AsPathHolds ==
    ASSUME NEW vendor, NEW store, NEW ps, NEW cfg, NEW r, Settled(vendor, store, ps, cfg, r),
           NEW c \in Conditions(ps), c.field = "as_path_filter", NEW n \in ToSet(c.names), NEW row, row.kind = "as-path"
    PROVE  NameHolds(cfg, row, Single(n), r) <=> NameMeant(store, c, n, r)
<1> DEFINE l == [kind |-> "as-path", name |-> Single(n), items |-> Named(store.aspaths, n).filters]
<1>1. n \in UsedIn(ps, "as_path_filter")
  BY DEF UsedIn
<1>2. cfg.lists.others = AsPathFilters(store, ps) \cup RdFilters(vendor, store, ps)
  BY DEF Settled, AllLists
<1>3. l \in AsPathFilters(store, ps)
  BY <1>1 DEF AsPathFilters
<1>4. \A x \in RdFilters(vendor, store, ps) : x.kind = "rd"
  BY DEF RdFilters
<1>5. \A x \in AsPathFilters(store, ps) : x.name = Single(n) => x = l
  <2> SUFFICES ASSUME NEW x \in AsPathFilters(store, ps), x.name = Single(n) PROVE x = l
    OBVIOUS
  <2>1. PICK k \in UsedIn(ps, "as_path_filter") :
            x = [kind |-> "as-path", name |-> Single(k), items |-> Named(store.aspaths, k).filters]
    BY DEF AsPathFilters
  <2>2. k = n
    BY <2>1 DEF Single
  <2> QED
    BY <2>1, <2>2
<1>6. Of(cfg.lists.others, "as-path", Single(n)) = {l}
  BY <1>2, <1>3, <1>4, <1>5 DEF Of
<1>7. OtherHolds(cfg, row, Single(n), r) <=> Named(store.aspaths, n).filters \in r.paths
  <2>1. l.items = Named(store.aspaths, n).filters
    OBVIOUS
  <2> HIDE DEF l
  <2>2. OtherHolds(cfg, row, Single(n), r) <=> l.items \in r.paths
    BY <1>6 DEF OtherHolds
  <2> QED
    BY <2>1, <2>2
<1>8. NameHolds(cfg, row, Single(n), r) <=> OtherHolds(cfg, row, Single(n), r)
  BY DEF NameHolds, CommunityKinds, PrefixKinds, OtherKinds
<1>9. NameMeant(store, c, n, r) <=> Named(store.aspaths, n).filters \in r.paths
  <2>1. ~IsCommunity(c) /\ c.field # "rd" /\ ~OfPrefix(c)
    BY DEF IsCommunity, CommunityFields, OfPrefix
  <2> QED
    BY <2>1 DEF NameMeant
<1> QED
  BY <1>7, <1>8, <1>9

LEMMA RdHolds ==
    ASSUME NEW vendor, NEW store, NEW ps, NEW cfg, NEW r, Settled(vendor, store, ps, cfg, r),
           vendor \notin {"arista", "cumulus"},
           NEW c \in Conditions(ps), c.field = "rd", NEW n \in ToSet(c.names), NEW row, row.kind = "rd"
    PROVE  NameHolds(cfg, row, Single(RdName(vendor, store, n)), r) <=> NameMeant(store, c, n, r)
<1> DEFINE name == Single(RdName(vendor, store, n))
           l    == [kind |-> "rd", name |-> name, items |-> Named(store.rds, n).members]
<1>1. n \in UsedIn(ps, "rd")
  BY DEF UsedIn
<1>2. cfg.lists.others = AsPathFilters(store, ps) \cup RdFilters(vendor, store, ps)
  BY DEF Settled, AllLists
<1>3. l \in RdFilters(vendor, store, ps)
  BY <1>1 DEF RdFilters
<1>4. \A x \in AsPathFilters(store, ps) : x.kind = "as-path"
  BY DEF AsPathFilters
<1>5. ASSUME NEW x \in RdFilters(vendor, store, ps), x.name = name PROVE x = l
  <2>1. PICK k \in UsedIn(ps, "rd") :
            x = [kind |-> "rd", name |-> Single(RdName(vendor, store, k)), items |-> Named(store.rds, k).members]
    BY DEF RdFilters
  <2>2. RdName(vendor, store, k) = RdName(vendor, store, n)
    BY <1>5, <2>1 DEF Single
  <2>3. k = n
    <3>1. CASE vendor = "huawei"
      <4>1. PICK d \in Conditions(ps) : d.field = "rd" /\ k \in ToSet(d.names)
        BY DEF UsedIn
      <4>2. Knows(store.rds, k) /\ Knows(store.rds, n)
        BY <4>1, OthersKnown DEF Settled
      <4>3. PICK i \in DOMAIN store.rds : Named(store.rds, k) = store.rds[i] /\ store.rds[i].name = k
        BY <4>2, NamedIs
      <4>4. PICK j \in DOMAIN store.rds : Named(store.rds, n) = store.rds[j] /\ store.rds[j].name = n
        BY <4>2, NamedIs
      <4>5. store.rds[i].number = store.rds[j].number
        BY <2>2, <3>1, <4>3, <4>4 DEF RdName
      <4> QED
        BY <4>3, <4>4, <4>5 DEF Settled, IsStore
    <3>2. CASE vendor # "huawei"
      BY <2>2, <3>2 DEF RdName
    <3> QED
      BY <3>1, <3>2
  <2> QED
    BY <2>1, <2>3
<1> HIDE DEF name
<1>6. Of(cfg.lists.others, "rd", name) = {l}
  BY <1>2, <1>3, <1>4, <1>5 DEF Of
<1>7. OtherHolds(cfg, row, name, r) <=> ToSet(Named(store.rds, n).members) \cap r.rds # {}
  <2>1. l.items = Named(store.rds, n).members
    OBVIOUS
  <2> HIDE DEF l
  <2>2. OtherHolds(cfg, row, name, r) <=> ToSet(l.items) \cap r.rds # {}
    BY <1>6 DEF OtherHolds
  <2> QED
    BY <2>1, <2>2
<1>8. NameHolds(cfg, row, name, r) <=> OtherHolds(cfg, row, name, r)
  BY DEF NameHolds, CommunityKinds, PrefixKinds, OtherKinds
<1>9. NameMeant(store, c, n, r) <=> ToSet(Named(store.rds, n).members) \cap r.rds # {}
  <2>1. ~IsCommunity(c) /\ c.field # "as_path_filter" /\ ~OfPrefix(c)
    BY DEF IsCommunity, CommunityFields, OfPrefix
  <2> QED
    BY <2>1 DEF NameMeant
<1> QED
  BY <1>7, <1>8, <1>9 DEF name

-----------------------------------------------------------------------------
(* Rows and conditions, by their names.                                    *)
LEMMA NamedRow ==
    ASSUME NEW cfg, NEW r, NEW row, NEW x, row.names = <<x>>
    PROVE  RowHolds(cfg, row, r) <=> NameHolds(cfg, row, x, r)
<1>1. row.names # <<>> /\ DOMAIN row.names = {1} /\ row.names[1] = x
  OBVIOUS
<1> QED
  BY <1>1 DEF RowHolds

LEMMA JoinedRow ==
    ASSUME NEW cfg, NEW r, NEW row, NEW m \in Nat, m # 0, row.names = [i \in 1 .. m |-> row.names[i]]
    PROVE  RowHolds(cfg, row, r) <=>
               IF row.join = "and" THEN \A i \in 1 .. m : NameHolds(cfg, row, row.names[i], r)
                                   ELSE \E i \in 1 .. m : NameHolds(cfg, row, row.names[i], r)
<1>1. DOMAIN row.names = 1 .. m
  OBVIOUS
<1>2. row.names # <<>>
  <2>1. 1 \in 1 .. m /\ DOMAIN <<>> = {}
    OBVIOUS
  <2> QED
    BY <1>1, <2>1
<1> QED
  BY <1>1, <1>2 DEF RowHolds

LEMMA TestRow ==
    ASSUME NEW cfg, NEW r, NEW kind, NEW op, NEW lo, NEW hi
    PROVE  RowHolds(cfg, Test(kind, op, lo, hi), r) <=> Compared(op, Attribute(r, kind), lo, hi)
BY DEF RowHolds, Test

LEMMA NamesAre ==
    ASSUME NEW c, IsCondition(c)
    PROVE  /\ Len(c.names) \in Nat /\ DOMAIN c.names = 1 .. Len(c.names)
           /\ \A i \in 1 .. Len(c.names) : c.names[i] \in ToSet(c.names)
           /\ \A n \in ToSet(c.names) : \E i \in 1 .. Len(c.names) : c.names[i] = n
           /\ c.names = <<>> <=> Len(c.names) = 0
<1>1. Listed(c.names)
  BY DEF IsCondition, IsList, Listed
<1>2. c.names = <<>> <=> Len(c.names) = 0
  BY <1>1 DEF Listed
<1>3. ToSet(c.names) = {c.names[i] : i \in 1 .. Len(c.names)}
  BY <1>1, ListIs
<1> QED
  BY <1>1, <1>2, <1>3, ListIs

LEMMA MeantByNames ==
    ASSUME NEW c, IsCondition(c), Len(c.names) # 0, NEW store, NEW r
    PROVE  /\ c.op = "has" => (Meant(store, c, r) <=> \A n \in ToSet(c.names) : NameMeant(store, c, n, r))
           /\ c.op # "has" => (Meant(store, c, r) <=> \E n \in ToSet(c.names) : NameMeant(store, c, n, r))
<1>1. c.names # <<>> /\ DOMAIN c.names = 1 .. Len(c.names)
  BY NamesAre
<1>2. /\ c.op = "has" => (Meant(store, c, r) <=> \A i \in DOMAIN c.names : NameMeant(store, c, c.names[i], r))
      /\ c.op # "has" => (Meant(store, c, r) <=> \E i \in DOMAIN c.names : NameMeant(store, c, c.names[i], r))
  BY <1>1 DEF Meant
<1>3. ToSet(c.names) = {c.names[i] : i \in DOMAIN c.names}
  BY DEF ToSet
<1> QED
  BY <1>2, <1>3

-----------------------------------------------------------------------------
(* The rows of a condition mean it: all of them do, or any of them where   *)
(* they are alternatives; those of another condition are of other kinds.   *)
FieldOf == [BASIC |-> "community", RT |-> "extcommunity_rt", ip_prefix |-> "ip_prefix", ipv6_prefix |-> "ipv6_prefix"]
About(vendor, kind, c) == IF vendor = "juniper" THEN OfPrefix(c) ELSE c.field = FieldOf[kind]
Shared(vendor)         == IF vendor = "juniper" THEN PrefixKinds ELSE Alternatives(vendor)

AnyMeans(vendor, store, cfg, r, c, rows) ==
    /\ ToSet(rows) # {}
    /\ \A row \in ToSet(rows) : row.kind \in Alternatives(vendor) /\ About(vendor, row.kind, c)
    /\ Meant(store, c, r) <=> \E row \in ToSet(rows) : RowHolds(cfg, row, r)
AllMean(vendor, store, cfg, r, c, rows) ==
    /\ \A row \in ToSet(rows) : row.kind \notin Shared(vendor)
    /\ Meant(store, c, r) <=> \A row \in ToSet(rows) : RowHolds(cfg, row, r)
RowsMean(vendor, store, cfg, r, c, rows) ==
    /\ Listed(rows)
    /\ AnyMeans(vendor, store, cfg, r, c, rows) \/ AllMean(vendor, store, cfg, r, c, rows)

LEMMA OneMeans ==
    ASSUME NEW vendor, NEW store, NEW cfg, NEW r, NEW c, NEW row, row.kind \notin Shared(vendor),
           Meant(store, c, r) <=> RowHolds(cfg, row, r)
    PROVE  RowsMean(vendor, store, cfg, r, c, <<row>>)
<1>1. Listed(<<row>>) /\ ToSet(<<row>>) = {row}
  BY OneElement
<1> QED
  BY <1>1 DEF RowsMean, AllMean

LEMMA KindsApart ==
    ASSUME NEW vendor \in DOMAIN MatchMap
    PROVE  Shared(vendor) \cap {"as-path", "metric", "protocol", "interface", "local_pref", "as_path_length", "rd",
                                "LARGE", "SOO", "EXT", "community", "prefix-set"}
               \subseteq IF vendor = "juniper" THEN {"prefix-set"} ELSE {}
<1>1. vendor \in {"huawei", "arista", "cumulus", "iosxr", "juniper"}
  BY DEF MatchMap
<1>2. CASE vendor = "juniper"
  BY <1>2 DEF Shared, PrefixKinds
<1>3. CASE vendor = "huawei"
  BY <1>3 DEF Shared, Alternatives
<1>4. CASE vendor = "iosxr"
  BY <1>4 DEF Shared, Alternatives
<1>5. CASE vendor \in {"arista", "cumulus"}
  BY <1>5 DEF Shared, Alternatives
<1> QED
  BY <1>1, <1>2, <1>3, <1>4, <1>5

LEMMA PlainlyMeans ==
    ASSUME NEW vendor, NEW store, NEW ps, NEW cfg, NEW r, Settled(vendor, store, ps, cfg, r),
           NEW c \in Conditions(ps), ~NotPlain(vendor, c)
    PROVE  RowsMean(vendor, store, cfg, r, c, Plainly(c))
<1>1. vendor \in DOMAIN MatchMap /\ IsCondition(c) /\ IsMade(c)
  BY ConditionIs DEF Settled, Given
<1>2. c.op = "eq" /\ c.field \in {"as_path_filter", "metric", "protocol", "interface", "local_pref"}
  BY <1>1 DEF NotPlain, MatchMap
<1>3. \A k \in {"as-path", "metric", "protocol", "interface", "local_pref"} : k \notin Shared(vendor)
  BY <1>1, KindsApart
<1>4. Len(c.names) = 0 \/ Len(c.names) = 1
  <2>1. Len(c.names) <= 1
    <3>1. CASE c.field \in {"metric", "local_pref"}
      <4>1. c.names = <<>>
        BY <1>1, <3>1, NumberMade DEF NumberFields
      <4>2. Len(c.names) = 0
        BY <1>1, <4>1, NamesAre
      <4> QED
        BY <4>2
    <3>2. CASE c.field \in {"as_path_filter", "protocol", "interface"}
      BY <1>1, <3>2 DEF IsMade, CommunityFields, OfPrefix
    <3> QED
      BY <1>2, <3>1, <3>2
  <2>2. \A m \in Nat : m <= 1 => m = 0 \/ m = 1
    OBVIOUS
  <2>3. Len(c.names) \in Nat
    BY <1>1, NamesAre
  <2> QED
    BY <2>1, <2>2, <2>3
<1>5. CASE c.field = "as_path_filter"
  <2>1. Len(c.names) = 1
    BY <1>1, <1>5 DEF IsCondition
  <2> DEFINE n == c.names[1]  row == Refer("as-path", c.names)
  <2>2. c.names = <<n>> /\ n \in ToSet(c.names) /\ \A x \in ToSet(c.names) : x = n
    <3>1. Listed(c.names)
      BY <1>1 DEF IsCondition, IsList, Listed
    <3> QED
      BY <1>1, <2>1, <3>1, NamesAre, ListIs
  <2> HIDE DEF n
  <2>3. row.kind = "as-path" /\ row.names = <<Single(n)>>
    BY <2>2 DEF Refer, Refers, Single
  <2>4. Plainly(c) = <<row>>
    BY <1>5 DEF Plainly
  <2> HIDE DEF row
  <2>5. RowHolds(cfg, row, r) <=> NameMeant(store, c, n, r)
    BY <1>5, <2>2, <2>3, NamedRow, AsPathHolds
  <2>6. Meant(store, c, r) <=> NameMeant(store, c, n, r)
    BY <1>1, <1>2, <2>1, <2>2, MeantByNames
  <2> QED
    BY <1>3, <2>3, <2>4, <2>5, <2>6, OneMeans
<1>6. CASE c.field # "as_path_filter" /\ Len(c.names) = 0
  <2> DEFINE row == Test(c.field, "eq", c.lo, 0)
  <2>1. c.names = <<>>
    BY <1>1, <1>6, NamesAre
  <2>2. Plainly(c) = <<row>>
    BY <1>6, <2>1 DEF Plainly
  <2>3. RowHolds(cfg, row, r) <=> Compared("eq", Attribute(r, c.field), c.lo, 0)
    BY TestRow
  <2>4. Meant(store, c, r) <=> Compared("eq", Attribute(r, c.field), c.lo, c.hi)
    BY <1>2, <2>1 DEF Meant
  <2>5. row.kind = c.field
    BY DEF Test
  <2>6. \A x, lo, hi : Compared("eq", x, lo, hi) <=> x = lo
    BY DEF Compared
  <2> HIDE DEF row
  <2>7. Meant(store, c, r) <=> RowHolds(cfg, row, r)
    BY <2>3, <2>4, <2>6
  <2>8. row.kind \notin Shared(vendor)
    BY <1>2, <1>3, <1>6, <2>5
  <2> QED
    BY <2>2, <2>7, <2>8, OneMeans
<1>7. CASE c.field # "as_path_filter" /\ Len(c.names) = 1
  <2> DEFINE n == c.names[1]  row == Is(c.field, n)
  <2>1. n \in ToSet(c.names) /\ (\A x \in ToSet(c.names) : x = n) /\ c.names # <<>>
    BY <1>1, <1>7, NamesAre
  <2>2. Plainly(c) = <<row>>
    BY <1>7, <2>1 DEF Plainly
  <2> HIDE DEF n
  <2>3. row.kind = c.field /\ row.names = <<Single(n)>>
    BY DEF Is, Refer, Refers
  <2> HIDE DEF row
  <2>4. RowHolds(cfg, row, r) <=> NameHolds(cfg, row, Single(n), r)
    BY <2>3, NamedRow
  <2>5. c.field \in {"metric", "protocol", "interface", "local_pref"}
    BY <1>2, <1>7
  <2>6. NameHolds(cfg, row, Single(n), r) <=> r.protocol = n
    <3>1. row.kind \notin CommunityKinds \cup PrefixKinds \cup OtherKinds
      BY <2>3, <2>5 DEF CommunityKinds, PrefixKinds, OtherKinds
    <3>2. NameHolds(cfg, row, Single(n), r) <=> r.protocol = Single(n)[1]
      BY <3>1 DEF NameHolds
    <3> QED
      BY <3>2 DEF Single
  <2>7. NameMeant(store, c, n, r) <=> r.protocol = n
    <3>1. ~IsCommunity(c) /\ c.field # "rd" /\ c.field # "as_path_filter" /\ ~OfPrefix(c)
      BY <2>5 DEF IsCommunity, CommunityFields, OfPrefix
    <3> QED
      BY <3>1 DEF NameMeant
  <2>8. Meant(store, c, r) <=> NameMeant(store, c, n, r)
    BY <1>1, <1>2, <1>7, <2>1, MeantByNames
  <2>9. row.kind \notin Shared(vendor)
    BY <1>3, <2>3, <2>5
  <2> QED
    BY <2>2, <2>4, <2>6, <2>7, <2>8, <2>9, OneMeans
<1> QED
  BY <1>4, <1>5, <1>6, <1>7

LEMMA ComparesMean ==
    ASSUME NEW vendor, NEW store, NEW ps, NEW cfg, NEW r, Settled(vendor, store, ps, cfg, r),
           NEW c \in Conditions(ps), c.field \in {"as_path_length", "local_pref"}
    PROVE  /\ RowsMean(vendor, store, cfg, r, c, Compares(c))
           /\ RowsMean(vendor, store, cfg, r, c, <<Test(c.field, c.op, c.lo, c.hi)>>)
<1>1. vendor \in DOMAIN MatchMap /\ IsMade(c)
  BY DEF Settled, Given
<1>2. c.names = <<>> /\ c.op \in {"eq", "lt", "le", "gt", "ge", "between"}
  BY <1>1, NumberMade DEF NumberFields
<1>3. c.field \notin Shared(vendor)
  BY <1>1, KindsApart
<1> DEFINE x == Attribute(r, c.field)
<1>4. Meant(store, c, r) <=> Compared(c.op, x, c.lo, c.hi)
  BY <1>2 DEF Meant
<1>5. \A op, lo, hi : Test(c.field, op, lo, hi).kind = c.field
                      /\ (RowHolds(cfg, Test(c.field, op, lo, hi), r) <=> Compared(op, x, lo, hi))
  BY TestRow DEF Test
<1> HIDE DEF x
<1>6. RowsMean(vendor, store, cfg, r, c, <<Test(c.field, c.op, c.lo, c.hi)>>)
  BY <1>3, <1>4, <1>5, OneMeans
<1>7. CASE c.op # "between"
  <2>1. Compared(c.op, x, c.lo, c.hi) <=> Compared(c.op, x, c.lo, 0)
    BY <1>2, <1>7 DEF Compared
  <2>2. Compares(c) = <<Test(c.field, c.op, c.lo, 0)>>
    BY <1>7 DEF Compares
  <2> QED
    BY <1>3, <1>4, <1>5, <1>6, <2>1, <2>2, OneMeans
<1>8. CASE c.op = "between"
  <2> DEFINE a == Test(c.field, "ge", c.lo, 0)  b == Test(c.field, "le", c.hi, 0)
  <2>1. Compares(c) = <<a, b>>
    BY <1>8 DEF Compares
  <2>2. Compared(c.op, x, c.lo, c.hi) <=> Compared("ge", x, c.lo, 0) /\ Compared("le", x, c.hi, 0)
    BY <1>8 DEF Compared
  <2>3. a.kind = c.field /\ b.kind = c.field /\ (RowHolds(cfg, a, r) <=> Compared("ge", x, c.lo, 0))
        /\ (RowHolds(cfg, b, r) <=> Compared("le", x, c.hi, 0))
    BY <1>5
  <2> HIDE DEF a, b
  <2>4. Listed(<<a, b>>) /\ ToSet(<<a, b>>) = {a, b}
    BY TwoElements
  <2>5. RowsMean(vendor, store, cfg, r, c, <<a, b>>)
    BY <1>3, <1>4, <2>2, <2>3, <2>4 DEF RowsMean, AllMean
  <2> QED
    BY <1>6, <2>1, <2>5
<1> QED
  BY <1>7, <1>8

(* Rows of one name each.                                                  *)
RowPerEach(cfg, r, store, c, rows) ==
    /\ IsCondition(c) /\ Len(c.names) # 0
    /\ rows = [i \in 1 .. Len(c.names) |-> rows[i]]
    /\ \A i \in 1 .. Len(c.names) : RowHolds(cfg, rows[i], r) <=> NameMeant(store, c, c.names[i], r)

LEMMA RowsByName ==
    ASSUME NEW cfg, NEW r, NEW store, NEW c, NEW rows, RowPerEach(cfg, r, store, c, rows)
    PROVE  /\ Listed(rows) /\ ToSet(rows) # {}
           /\ \A row \in ToSet(rows) : \E i \in 1 .. Len(c.names) : row = rows[i]
           /\ c.op = "has" \/ Len(c.names) = 1 =>
                  (Meant(store, c, r) <=> \A row \in ToSet(rows) : RowHolds(cfg, row, r))
           /\ c.op # "has" \/ Len(c.names) = 1 =>
                  (Meant(store, c, r) <=> \E row \in ToSet(rows) : RowHolds(cfg, row, r))
<1> DEFINE m == Len(c.names)
<1>0. /\ IsCondition(c) /\ m # 0 /\ rows = [i \in 1 .. m |-> rows[i]]
      /\ \A i \in 1 .. m : RowHolds(cfg, rows[i], r) <=> NameMeant(store, c, c.names[i], r)
  BY DEF RowPerEach
<1>1. m \in Nat /\ (\A i \in 1 .. m : c.names[i] \in ToSet(c.names))
      /\ \A n \in ToSet(c.names) : \E i \in 1 .. m : c.names[i] = n
  BY <1>0, NamesAre
<1>2. Listed(rows) /\ ToSet(rows) = {rows[i] : i \in 1 .. m}
  BY <1>0, <1>1, Indexed
<1>3. 1 \in 1 .. m
  BY <1>0, <1>1
<1>4. ToSet(rows) # {}
  BY <1>2, <1>3
<1>5. (\A row \in ToSet(rows) : RowHolds(cfg, row, r)) <=> \A n \in ToSet(c.names) : NameMeant(store, c, n, r)
  <2>1. (\A row \in ToSet(rows) : RowHolds(cfg, row, r)) <=> \A i \in 1 .. m : RowHolds(cfg, rows[i], r)
    BY <1>2
  <2>2. (\A n \in ToSet(c.names) : NameMeant(store, c, n, r)) <=> \A i \in 1 .. m : NameMeant(store, c, c.names[i], r)
    BY <1>1
  <2> QED
    BY <1>0, <2>1, <2>2
<1>6. (\E row \in ToSet(rows) : RowHolds(cfg, row, r)) <=> \E n \in ToSet(c.names) : NameMeant(store, c, n, r)
  <2>1. (\E row \in ToSet(rows) : RowHolds(cfg, row, r)) <=> \E i \in 1 .. m : RowHolds(cfg, rows[i], r)
    BY <1>2
  <2>2. (\E n \in ToSet(c.names) : NameMeant(store, c, n, r)) <=> \E i \in 1 .. m : NameMeant(store, c, c.names[i], r)
    BY <1>1
  <2> QED
    BY <1>0, <2>1, <2>2
<1>7. m = 1 => \A n \in ToSet(c.names) : n = c.names[1]
  BY <1>1
<1>8. m = 1 => ((\A n \in ToSet(c.names) : NameMeant(store, c, n, r)) <=> \E n \in ToSet(c.names) : NameMeant(store, c, n, r))
  BY <1>1, <1>3, <1>7
<1>9. /\ c.op = "has" => (Meant(store, c, r) <=> \A n \in ToSet(c.names) : NameMeant(store, c, n, r))
      /\ c.op # "has" => (Meant(store, c, r) <=> \E n \in ToSet(c.names) : NameMeant(store, c, n, r))
  BY <1>0, MeantByNames
<1> QED
  BY <1>2, <1>4, <1>5, <1>6, <1>8, <1>9

(* One row of all the names, joined.                                       *)
OfNames(cfg, r, store, c, row) ==
    /\ IsCondition(c) /\ Len(c.names) # 0
    /\ row.names = [i \in 1 .. Len(c.names) |-> row.names[i]]
    /\ \A i \in 1 .. Len(c.names) : NameHolds(cfg, row, row.names[i], r) <=> NameMeant(store, c, c.names[i], r)
    /\ Len(c.names) = 1 \/ (row.join = "and" <=> c.op = "has")

LEMMA RowOfNames ==
    ASSUME NEW cfg, NEW r, NEW store, NEW c, NEW row, OfNames(cfg, r, store, c, row)
    PROVE  Meant(store, c, r) <=> RowHolds(cfg, row, r)
<1> DEFINE m == Len(c.names)
<1>0. /\ IsCondition(c) /\ m # 0 /\ row.names = [i \in 1 .. m |-> row.names[i]]
      /\ \A i \in 1 .. m : NameHolds(cfg, row, row.names[i], r) <=> NameMeant(store, c, c.names[i], r)
      /\ m = 1 \/ (row.join = "and" <=> c.op = "has")
  BY DEF OfNames
<1>1. m \in Nat /\ (\A i \in 1 .. m : c.names[i] \in ToSet(c.names))
      /\ \A n \in ToSet(c.names) : \E i \in 1 .. m : c.names[i] = n
  BY <1>0, NamesAre
<1>2. RowHolds(cfg, row, r) <=> IF row.join = "and" THEN \A i \in 1 .. m : NameHolds(cfg, row, row.names[i], r)
                                ELSE \E i \in 1 .. m : NameHolds(cfg, row, row.names[i], r)
  BY <1>0, <1>1, JoinedRow
<1>3. (\A n \in ToSet(c.names) : NameMeant(store, c, n, r)) <=> \A i \in 1 .. m : NameHolds(cfg, row, row.names[i], r)
  BY <1>0, <1>1
<1>4. (\E n \in ToSet(c.names) : NameMeant(store, c, n, r)) <=> \E i \in 1 .. m : NameHolds(cfg, row, row.names[i], r)
  BY <1>0, <1>1
<1>5. m = 1 => ((\A i \in 1 .. m : NameHolds(cfg, row, row.names[i], r)) <=> \E i \in 1 .. m : NameHolds(cfg, row, row.names[i], r))
  <2>1. m = 1 => 1 .. m = {1}
    BY <1>1
  <2> QED
    BY <2>1
<1>6. /\ c.op = "has" => (Meant(store, c, r) <=> \A n \in ToSet(c.names) : NameMeant(store, c, n, r))
      /\ c.op # "has" => (Meant(store, c, r) <=> \E n \in ToSet(c.names) : NameMeant(store, c, n, r))
  BY <1>0, MeantByNames
<1> QED
  BY <1>0, <1>2, <1>3, <1>4, <1>5, <1>6

LEMMA PrefixRowsMean ==
    ASSUME NEW vendor \in {"huawei", "arista", "cumulus"}, NEW store, NEW ps, NEW cfg, NEW r,
           Settled(vendor, store, ps, cfg, r), NEW c \in PrefixConds(ps)
    PROVE  RowsMean(vendor, store, cfg, r, c, PrefixRows(vendor, store, c))
<1> DEFINE m == Len(c.names)  rows == PrefixRows(vendor, store, c)
<1>1. c \in Conditions(ps) /\ IsCondition(c) /\ IsMade(c) /\ OfPrefix(c) /\ c.field \in {"ip_prefix", "ipv6_prefix"}
  BY ConditionIs DEF Settled, Given, PrefixConds, OfPrefix
<1>2. c.op = "custom" /\ c.names # <<>>
  BY <1>1 DEF IsMade, CommunityFields
<1>3. m \in Nat /\ m # 0 /\ DOMAIN c.names = 1 .. m /\ \A i \in 1 .. m : c.names[i] \in ToSet(c.names)
  BY <1>1, <1>2, NamesAre
<1>4. rows = [i \in 1 .. m |-> rows[i]]
      /\ \A i \in 1 .. m : rows[i] = Refer(c.field, PrefixName(vendor, store, c.names[i], c))
  BY <1>3 DEF PrefixRows, Rows, PrefixKind
<1> HIDE DEF rows
<1>5. ASSUME NEW i \in 1 .. m PROVE RowHolds(cfg, rows[i], r) <=> NameMeant(store, c, c.names[i], r)
  <2> DEFINE row == rows[i]  n == c.names[i]
  <2> DEFINE name == PrefixName(vendor, store, n, c)
  <2>0. row = Refer(c.field, name)
    BY <1>4
  <2> HIDE DEF name, row
  <2>1. row.kind = c.field /\ row.names = <<name>> /\ row.op = ""
    BY <2>0 DEF Refer, Refers
  <2> USE DEF name
  <2>2. n \in ToSet(c.names) /\ row.kind = PrefixKind(vendor, store, n, c) /\ vendor # "juniper"
    BY <1>3, <2>1 DEF PrefixKind
  <2> HIDE DEF row, n
  <2>3. RowHolds(cfg, row, r) <=> NameHolds(cfg, row, PrefixName(vendor, store, n, c), r)
    BY <2>1, NamedRow
  <2>4. NameHolds(cfg, row, PrefixName(vendor, store, n, c), r) <=> PrefixHolds(cfg, row, PrefixName(vendor, store, n, c), r)
    BY <1>1, <2>1 DEF NameHolds, PrefixKinds, CommunityKinds, OtherKinds
  <2>5. PrefixHolds(cfg, row, PrefixName(vendor, store, n, c), r) <=> NameMeant(store, c, n, r)
    BY <2>1, <2>2, PlainPrefixHolds
  <2> QED
    BY <2>3, <2>4, <2>5 DEF row, n
<1>6. RowPerEach(cfg, r, store, c, rows)
  BY <1>1, <1>3, <1>4, <1>5 DEF RowPerEach
<1>7. /\ Listed(rows) /\ ToSet(rows) # {} /\ \A row \in ToSet(rows) : \E i \in 1 .. m : row = rows[i]
      /\ Meant(store, c, r) <=> \E row \in ToSet(rows) : RowHolds(cfg, row, r)
  <2>1. c.op # "has"
    BY <1>2
  <2> QED
    BY <1>6, <2>1, RowsByName
<1>8. \A row \in ToSet(rows) : row.kind = c.field
  <2>1. \A name : Refer(c.field, name).kind = c.field
    BY DEF Refer, Refers
  <2> QED
    <3>1. \A i \in 1 .. m : rows[i].kind = c.field
      BY <1>4, <2>1
    <3> QED
      BY <1>7, <3>1
<1>9. c.field \in Alternatives(vendor) /\ About(vendor, c.field, c)
  BY <1>1 DEF Alternatives, About, FieldOf
<1> QED
  BY <1>7, <1>8, <1>9 DEF RowsMean, AnyMeans, rows

-----------------------------------------------------------------------------
(* Vendor by vendor.                                                       *)
LEMMA CommunityNameHolds ==
    ASSUME NEW vendor, NEW store, NEW ps, NEW cfg, NEW r, Settled(vendor, store, ps, cfg, r),
           NEW c \in CommunityConditions(ps), NEW n \in ToSet(c.names),
           ~(Uniteds(vendor) /\ c.op = "has_any"),
           NEW row, row.kind = KindOf(vendor, TypeOf[c.field]),
           Single(n) \in row.every => Named(store.comms, n).logic = "AND",
           vendor = "iosxr" => (Single(n) \in row.every <=> Named(store.comms, n).logic = "AND")
    PROVE  NameHolds(cfg, row, Single(n), r) <=> NameMeant(store, c, n, r)
<1>1. CommunityHolds(cfg, row, Single(n), r) <=> ListHolds(Named(store.comms, n), r)
  BY SingleHolds
<1>2. c.field \in CommunityFields
  BY DEF CommunityConditions
<1>3. row.kind \in CommunityKinds /\ row.kind \notin PrefixKinds /\ row.kind \notin OtherKinds
  <2>1. TypeOf[c.field] \in {"BASIC", "LARGE", "RT", "SOO"}
    BY <1>2 DEF CommunityFields, TypeOf
  <2> DEFINE t == TypeOf[c.field]
  <2>2. row.kind \in {"community", "EXT", t}
    BY DEF KindOf
  <2> HIDE DEF t
  <2>3. t \in {"BASIC", "LARGE", "RT", "SOO"}
    BY <2>1 DEF t
  <2> QED
    BY <2>2, <2>3 DEF CommunityKinds, PrefixKinds, OtherKinds
<1>4. NameHolds(cfg, row, Single(n), r) <=> CommunityHolds(cfg, row, Single(n), r)
  BY <1>3 DEF NameHolds
<1>5. IsCommunity(c) /\ c.field # "rd" /\ c.field # "as_path_filter" /\ ~OfPrefix(c)
  BY <1>2 DEF IsCommunity, CommunityFields, OfPrefix
<1>6. NameMeant(store, c, n, r) <=> ListHolds(Named(store.comms, n), r)
  BY <1>5 DEF NameMeant
<1> QED
  BY <1>1, <1>4, <1>6

(* Names that conditions on lists have, and how they ask for them.         *)
LEMMA ListsAsked ==
    ASSUME NEW vendor, NEW store, NEW ps, NEW cfg, NEW r, Settled(vendor, store, ps, cfg, r), NEW c \in Conditions(ps)
    PROVE  /\ IsCondition(c) /\ IsMade(c)
           /\ IsCommunity(c) \/ IsRd(c) => c.op \in {"has", "has_any"} /\ Len(c.names) # 0
           /\ OfPrefix(c) => c.op = "custom" /\ Len(c.names) # 0
           /\ IsCommunity(c) => c \in CommunityConditions(ps)
           /\ OfPrefix(c) => c \in PrefixConds(ps)
<1>1. IsCondition(c) /\ IsMade(c)
  BY ConditionIs DEF Settled, Given
<1>2. c.names = <<>> <=> Len(c.names) = 0
  BY <1>1, NamesAre
<1>3. IsCommunity(c) \/ IsRd(c) => c.op \in {"has", "has_any"} /\ c.names # <<>>
  <2> SUFFICES ASSUME IsCommunity(c) \/ IsRd(c) PROVE c.op \in {"has", "has_any"} /\ c.names # <<>>
    OBVIOUS
  <2>1. c.field \in CommunityFields \cup {"rd"}
    BY DEF IsCommunity, IsRd
  <2>2. ~OfPrefix(c) /\ c.field \notin {"local_pref", "as_path_length", "metric"}
    BY <2>1 DEF OfPrefix, CommunityFields
  <2> QED
    BY <1>1, <2>1, <2>2 DEF IsMade
<1>4. OfPrefix(c) => c.op = "custom" /\ c.names # <<>>
  <2> SUFFICES ASSUME OfPrefix(c) PROVE c.op = "custom" /\ c.names # <<>>
    OBVIOUS
  <2>1. c.field \notin CommunityFields \cup {"rd"} /\ c.field \notin {"local_pref", "as_path_length", "metric"}
    BY DEF OfPrefix, CommunityFields
  <2> QED
    BY <1>1, <2>1 DEF IsMade
<1> QED
  BY <1>1, <1>2, <1>3, <1>4 DEF IsCommunity, CommunityConditions, PrefixConds

LEMMA HuaweiMeans ==
    ASSUME NEW store, NEW ps, NEW cfg, NEW r, Settled("huawei", store, ps, cfg, r),
           NEW c \in Conditions(ps), ~HuaweiMatchRaises(c)
    PROVE  RowsMean("huawei", store, cfg, r, c, HuaweiMatch(store, c))
<1> DEFINE m == Len(c.names)  rows == HuaweiMatch(store, c)
<1>1. /\ IsCondition(c) /\ IsMade(c)
      /\ IsCommunity(c) \/ IsRd(c) => c.op \in {"has", "has_any"} /\ m # 0
      /\ IsCommunity(c) => c \in CommunityConditions(ps)
      /\ OfPrefix(c) => c \in PrefixConds(ps)
  BY ListsAsked
<1>2. m \in Nat /\ DOMAIN c.names = 1 .. m /\ \A i \in 1 .. m : c.names[i] \in ToSet(c.names)
  BY <1>1, NamesAre
<1>3. CASE IsCommunity(c)
  <2>1. c.field \in CommunityFields /\ c.field # "rd" /\ ~OfPrefix(c) /\ c.field # "as_path_length"
    BY <1>3 DEF IsCommunity, CommunityFields, OfPrefix
  <2> DEFINE Row(n) == [Refer(TypeOf[c.field], Single(n)) EXCEPT
                 !.every = IF c.field = "extcommunity_rt" THEN OfLogicAnd(store, <<n>>) ELSE {}]
  <2>2. rows = [i \in 1 .. m |-> Row(c.names[i])]
    BY <1>2, <1>3, <2>1 DEF HuaweiMatch, Rows
  <2>3. ASSUME NEW n \in ToSet(c.names)
        PROVE  Row(n).kind = TypeOf[c.field] /\ (RowHolds(cfg, Row(n), r) <=> NameMeant(store, c, n, r))
    <3> DEFINE row == Row(n)
    <3>1. row.kind = TypeOf[c.field] /\ row.names = <<Single(n)>>
          /\ row.every = (IF c.field = "extcommunity_rt" THEN OfLogicAnd(store, <<n>>) ELSE {})
      BY DEF Refer, Refers
    <3> HIDE DEF row
    <3>2. Single(n) \in row.every => Named(store.comms, n).logic = "AND"
      <4>1. \A k \in ToSet(<<n>>) : k = n
        BY OneElement
      <4>2. Single(n) \in OfLogicAnd(store, <<n>>) => Named(store.comms, n).logic = "AND"
        <5> SUFFICES ASSUME Single(n) \in OfLogicAnd(store, <<n>>) PROVE Named(store.comms, n).logic = "AND"
          OBVIOUS
        <5>1. PICK k \in {x \in ToSet(<<n>>) : Named(store.comms, x).logic = "AND"} : Single(n) = Single(k)
          BY DEF OfLogicAnd
        <5> QED
          BY <4>1, <5>1
      <4> QED
        BY <3>1, <4>2
    <3>3. row.kind = KindOf("huawei", TypeOf[c.field])
      BY <3>1 DEF KindOf
    <3>4. RowHolds(cfg, row, r) <=> NameHolds(cfg, row, Single(n), r)
      BY <3>1, NamedRow
    <3>5. NameHolds(cfg, row, Single(n), r) <=> NameMeant(store, c, n, r)
      <4>1. c \in CommunityConditions(ps)
        BY <1>1, <1>3
      <4>2. ~Uniteds("huawei")
        BY DEF Uniteds
      <4> QED
        BY <3>2, <3>3, <4>1, <4>2, CommunityNameHolds
    <3> QED
      BY <3>1, <3>4, <3>5 DEF row
  <2> HIDE DEF rows, Row
  <2>4. RowPerEach(cfg, r, store, c, rows)
    <3>1. \A i \in 1 .. m : rows[i] = Row(c.names[i])
      BY <2>2
    <3>2. \A i \in 1 .. m : RowHolds(cfg, rows[i], r) <=> NameMeant(store, c, c.names[i], r)
      BY <1>2, <2>3, <3>1
    <3>3. rows = [i \in 1 .. m |-> rows[i]]
      BY <2>2
    <3> QED
      BY <1>1, <1>3, <3>2, <3>3 DEF RowPerEach
  <2>5. Listed(rows) /\ ToSet(rows) # {} /\ \A row \in ToSet(rows) : row.kind = TypeOf[c.field]
    <3>1. Listed(rows) /\ ToSet(rows) # {} /\ \A row \in ToSet(rows) : \E i \in 1 .. m : row = rows[i]
      BY <2>4, RowsByName
    <3>2. \A i \in 1 .. m : rows[i].kind = TypeOf[c.field]
      <4>1. \A i \in 1 .. m : rows[i] = Row(c.names[i])
        BY <2>2
      <4> QED
        BY <1>2, <2>3, <4>1
    <3> QED
      BY <3>1, <3>2
  <2>6. CASE c.field \in {"community", "extcommunity_rt"}
    <3>1. ~(c.op = "has" /\ m > 1)
      <4>1. HuaweiMatchRaises(c) = (c.op = "has" /\ m > 1)
        BY <2>1, <2>6 DEF HuaweiMatchRaises
      <4> QED
        BY <4>1
    <3>2. \A k \in Nat : k # 0 /\ ~(k > 1) => k = 1
      OBVIOUS
    <3>3. c.op # "has" \/ m = 1
      BY <1>1, <1>2, <1>3, <3>1, <3>2
    <3>4. Meant(store, c, r) <=> \E row \in ToSet(rows) : RowHolds(cfg, row, r)
      BY <2>4, <3>3, RowsByName
    <3>5. TypeOf[c.field] \in Alternatives("huawei") /\ About("huawei", TypeOf[c.field], c)
      BY <2>6 DEF TypeOf, Alternatives, About, FieldOf
    <3> QED
      BY <2>5, <3>4, <3>5 DEF RowsMean, AnyMeans, rows
  <2>7. CASE c.field \in {"large_community", "extcommunity_soo"}
    <3>1. ~(c.op = "has_any" /\ m > 1)
      <4>1. HuaweiMatchRaises(c) = (c.op = "has_any" /\ m > 1)
        BY <2>1, <2>7 DEF HuaweiMatchRaises
      <4> QED
        BY <4>1
    <3>2. \A k \in Nat : k # 0 /\ ~(k > 1) => k = 1
      OBVIOUS
    <3>3. c.op = "has" \/ m = 1
      BY <1>1, <1>2, <1>3, <3>1, <3>2
    <3>4. Meant(store, c, r) <=> \A row \in ToSet(rows) : RowHolds(cfg, row, r)
      BY <2>4, <3>3, RowsByName
    <3>5. TypeOf[c.field] \notin Shared("huawei")
      <4>1. TypeOf[c.field] \in {"LARGE", "SOO"}
        BY <2>7 DEF TypeOf
      <4>2. "huawei" \in DOMAIN MatchMap
        BY DEF MatchMap
      <4> QED
        BY <4>1, <4>2, KindsApart
    <3> QED
      BY <2>5, <3>4, <3>5 DEF RowsMean, AllMean, rows
  <2> QED
    BY <2>1, <2>6, <2>7 DEF CommunityFields
<1>4. CASE IsRd(c)
  <2>0. c.field = "rd" /\ ~IsCommunity(c) /\ ~OfPrefix(c)
    BY <1>4 DEF IsRd, IsCommunity, CommunityFields, OfPrefix
  <2>1. m = 1
    <3>1. HuaweiMatchRaises(c) = (m # 1)
      BY <2>0 DEF HuaweiMatchRaises, OfPrefix
    <3> QED
      BY <3>1
  <2> DEFINE n == c.names[1]  row == Refer("rd", Single(RdName("huawei", store, n)))
  <2>2. n \in ToSet(c.names) /\ \A x \in ToSet(c.names) : x = n
    <3>1. 1 \in 1 .. 1 /\ \A i \in 1 .. 1 : i = 1
      OBVIOUS
    <3>2. n \in ToSet(c.names)
      BY <1>2, <2>1, <3>1
    <3>3. \A x \in ToSet(c.names) : \E i \in 1 .. m : c.names[i] = x
      BY <1>1, NamesAre
    <3> QED
      BY <2>1, <3>1, <3>2, <3>3
  <2>3. rows = <<row>>
    BY <2>0 DEF HuaweiMatch, RdName
  <2> HIDE DEF rows, n
  <2>4. row.kind = "rd" /\ row.names = <<Single(RdName("huawei", store, n))>>
    BY DEF Refer, Refers
  <2> HIDE DEF row
  <2>5. RowHolds(cfg, row, r) <=> NameHolds(cfg, row, Single(RdName("huawei", store, n)), r)
    BY <2>4, NamedRow
  <2>6. NameHolds(cfg, row, Single(RdName("huawei", store, n)), r) <=> NameMeant(store, c, n, r)
    <3> DEFINE v == "huawei"
    <3>1. v \notin {"arista", "cumulus"} /\ Settled(v, store, ps, cfg, r)
      OBVIOUS
    <3> HIDE DEF v
    <3>2. NameHolds(cfg, row, Single(RdName(v, store, n)), r) <=> NameMeant(store, c, n, r)
      BY <2>0, <2>2, <2>4, <3>1, RdHolds
    <3> QED
      BY <3>2 DEF v
  <2>7. Meant(store, c, r) <=> NameMeant(store, c, n, r)
    BY <1>1, <2>1, <2>2, MeantByNames
  <2>8. row.kind \notin Shared("huawei")
    <3>1. "huawei" \in DOMAIN MatchMap
      BY DEF MatchMap
    <3> QED
      BY <2>4, <3>1, KindsApart
  <2>9. RowsMean("huawei", store, cfg, r, c, <<row>>)
    BY <2>5, <2>6, <2>7, <2>8, OneMeans
  <2> QED
    BY <2>3, <2>9 DEF rows
<1>5. CASE OfPrefix(c)
  <2>1. rows = PrefixRows("huawei", store, c)
    BY <1>5 DEF HuaweiMatch, OfPrefix, IsCommunity, CommunityFields
  <2> QED
    BY <1>1, <1>5, <2>1, PrefixRowsMean
<1>6. CASE c.field = "as_path_length"
  <2>1. rows = IF c.op = "between" THEN <<Test(c.field, c.op, c.lo, c.hi)>> ELSE Compares(c)
    BY <1>6 DEF HuaweiMatch, OfPrefix, IsCommunity, CommunityFields
  <2> QED
    BY <1>6, <2>1, ComparesMean
<1>7. CASE ~IsCommunity(c) /\ ~IsRd(c) /\ ~OfPrefix(c) /\ c.field # "as_path_length"
  <2>1. ~NotPlain("huawei", c)
    BY <1>7 DEF HuaweiMatchRaises, IsCommunity, CommunityFields, IsRd
  <2>2. HuaweiMatch(store, c) = Plainly(c)
    BY <1>7 DEF HuaweiMatch, IsRd
  <2> QED
    BY <2>1, <2>2, PlainlyMeans
<1> QED
  BY <1>3, <1>4, <1>5, <1>6, <1>7

LEMMA UnitedMeans ==
    ASSUME NEW vendor \in {"arista", "cumulus"}, NEW store, NEW ps, NEW cfg, NEW r, Settled(vendor, store, ps, cfg, r),
           NEW c \in Conditions(ps), ~UnitedMatchRaises(vendor, c)
    PROVE  RowsMean(vendor, store, cfg, r, c, UnitedMatch(vendor, store, c))
<1> DEFINE m == Len(c.names)  rows == UnitedMatch(vendor, store, c)  kind == KindOf(vendor, TypeOf[c.field])
<1>1. /\ IsCondition(c) /\ IsMade(c)
      /\ IsCommunity(c) \/ IsRd(c) => c.op \in {"has", "has_any"} /\ m # 0
      /\ IsCommunity(c) => c \in CommunityConditions(ps)
      /\ OfPrefix(c) => c \in PrefixConds(ps)
  BY ListsAsked
<1>2. m \in Nat /\ DOMAIN c.names = 1 .. m /\ \A i \in 1 .. m : c.names[i] \in ToSet(c.names)
  BY <1>1, NamesAre
<1>3. vendor \in DOMAIN MatchMap /\ Uniteds(vendor)
  BY DEF MatchMap, Uniteds
<1>4. IsCommunity(c) => ~OfPrefix(c) /\ c.field # "as_path_length"
  BY DEF IsCommunity, CommunityFields, OfPrefix
<1>5. IsCommunity(c) => kind \in CommunityKinds /\ kind \notin PrefixKinds /\ kind \notin OtherKinds /\ kind \notin Shared(vendor)
  <2> SUFFICES ASSUME IsCommunity(c)
               PROVE  kind \in CommunityKinds /\ kind \notin PrefixKinds /\ kind \notin OtherKinds /\ kind \notin Shared(vendor)
    OBVIOUS
  <2> DEFINE t == TypeOf[c.field]
  <2>1. t \in {"BASIC", "LARGE", "RT", "SOO"}
    BY DEF IsCommunity, CommunityFields, TypeOf
  <2>2. kind \in {"EXT", t}
    BY DEF KindOf
  <2> HIDE DEF kind, t
  <2> QED
    BY <2>1, <2>2 DEF CommunityKinds, PrefixKinds, OtherKinds, Shared, Alternatives
<1>6. CASE IsCommunity(c) /\ c.op = "has_any"
  <2> DEFINE row == Refer(kind, c.names)
  <2>1. rows = <<row>>
    BY <1>4, <1>6 DEF UnitedMatch, Mangle
  <2> HIDE DEF rows, kind
  <2>2. row.kind = kind /\ row.names = <<c.names>> /\ row.every = {}
    BY DEF Refer, Refers
  <2> HIDE DEF row
  <2>3. RowHolds(cfg, row, r) <=> NameHolds(cfg, row, c.names, r)
    BY <2>2, NamedRow
  <2>4. NameHolds(cfg, row, c.names, r) <=> CommunityHolds(cfg, row, c.names, r)
    BY <1>5, <1>6, <2>2 DEF NameHolds
  <2>5. CommunityHolds(cfg, row, c.names, r) <=> \E n \in ToSet(c.names) : ListHolds(Named(store.comms, n), r)
    <3>1. c \in CommunityConditions(ps) /\ row.kind = KindOf(vendor, TypeOf[c.field])
      BY <1>1, <1>6, <2>2 DEF kind
    <3> QED
      BY <1>3, <1>6, <2>2, <3>1, UnitedHolds
  <2>6. \A n : NameMeant(store, c, n, r) <=> ListHolds(Named(store.comms, n), r)
    <3>1. c.field # "rd" /\ c.field # "as_path_filter" /\ ~OfPrefix(c) /\ IsCommunity(c)
      BY <1>6 DEF IsCommunity, CommunityFields, OfPrefix
    <3> QED
      BY <3>1 DEF NameMeant
  <2>7. Meant(store, c, r) <=> \E n \in ToSet(c.names) : NameMeant(store, c, n, r)
    BY <1>1, <1>6, MeantByNames
  <2>8. RowsMean(vendor, store, cfg, r, c, <<row>>)
    BY <1>5, <1>6, <2>2, <2>3, <2>4, <2>5, <2>6, <2>7, OneMeans
  <2> QED
    BY <2>1, <2>8 DEF rows
<1>7. ASSUME IsCommunity(c), c.op # "has_any", NEW n \in ToSet(c.names), NEW row, row.kind = kind, row.every = {}
      PROVE  NameHolds(cfg, row, Single(n), r) <=> NameMeant(store, c, n, r)
  <2>1. c \in CommunityConditions(ps) /\ ~(Uniteds(vendor) /\ c.op = "has_any") /\ vendor # "iosxr"
    BY <1>1, <1>7
  <2>2. row.kind = KindOf(vendor, TypeOf[c.field])
    BY <1>7
  <2>3. Single(n) \in row.every => Named(store.comms, n).logic = "AND"
    BY <1>7
  <2> HIDE DEF kind
  <2> QED
    BY <2>1, <2>2, <2>3, CommunityNameHolds
<1>8. CASE IsCommunity(c) /\ c.op # "has_any" /\ vendor = "arista"
  <2> DEFINE row == Refers(kind, Rows(c.names, Single), "and", {})
  <2>1. rows = <<row>>
    BY <1>4, <1>8 DEF UnitedMatch
  <2> HIDE DEF rows, kind
  <2>2. row.kind = kind /\ row.names = [i \in 1 .. m |-> Single(c.names[i])] /\ row.every = {} /\ row.join = "and"
    BY <1>2 DEF Refers, Rows
  <2> HIDE DEF row
  <2>3. \A i \in 1 .. m : row.names[i] = Single(c.names[i])
    BY <2>2
  <2>4. \A i \in 1 .. m : NameHolds(cfg, row, row.names[i], r) <=> NameMeant(store, c, c.names[i], r)
    BY <1>2, <1>7, <1>8, <2>2, <2>3
  <2>5. row.names = [i \in 1 .. m |-> row.names[i]]
    BY <2>2
  <2>6. OfNames(cfg, r, store, c, row)
    BY <1>1, <1>8, <2>2, <2>4, <2>5 DEF OfNames
  <2>7. Meant(store, c, r) <=> RowHolds(cfg, row, r)
    BY <2>6, RowOfNames
  <2>8. RowsMean(vendor, store, cfg, r, c, <<row>>)
    BY <1>5, <1>8, <2>2, <2>7, OneMeans
  <2> QED
    BY <2>1, <2>8 DEF rows
<1>9. CASE IsCommunity(c) /\ c.op # "has_any" /\ vendor # "arista"
  <2> DEFINE Row(n) == Refer(kind, Single(n))
  <2>1. rows = [i \in 1 .. m |-> Row(c.names[i])]
    BY <1>2, <1>4, <1>9 DEF UnitedMatch, Rows
  <2> HIDE DEF rows, kind
  <2>2. \A n : Row(n).kind = kind /\ Row(n).names = <<Single(n)>> /\ Row(n).every = {}
    BY DEF Refer, Refers
  <2> HIDE DEF Row
  <2>3. ASSUME NEW n \in ToSet(c.names) PROVE RowHolds(cfg, Row(n), r) <=> NameMeant(store, c, n, r)
    <3>1. RowHolds(cfg, Row(n), r) <=> NameHolds(cfg, Row(n), Single(n), r)
      BY <2>2, NamedRow
    <3> QED
      BY <1>7, <1>9, <2>2, <3>1
  <2>4. rows = [i \in 1 .. m |-> rows[i]] /\ \A i \in 1 .. m : rows[i] = Row(c.names[i])
    BY <2>1
  <2>5. RowPerEach(cfg, r, store, c, rows)
    <3>1. \A i \in 1 .. m : RowHolds(cfg, rows[i], r) <=> NameMeant(store, c, c.names[i], r)
      BY <1>2, <2>3, <2>4
    <3> QED
      BY <1>1, <1>9, <2>4, <3>1 DEF RowPerEach
  <2>6. c.op = "has"
    BY <1>1, <1>9
  <2>7. Listed(rows) /\ (\A row \in ToSet(rows) : \E i \in 1 .. m : row = rows[i])
        /\ (Meant(store, c, r) <=> \A row \in ToSet(rows) : RowHolds(cfg, row, r))
    BY <2>5, <2>6, RowsByName
  <2>8. \A row \in ToSet(rows) : row.kind = kind
    <3>1. \A i \in 1 .. m : rows[i].kind = kind
      BY <2>2, <2>4
    <3> QED
      BY <2>7, <3>1
  <2> QED
    BY <1>5, <1>9, <2>7, <2>8 DEF RowsMean, AllMean, rows
<1>10. CASE OfPrefix(c)
  <2>1. rows = PrefixRows(vendor, store, c)
    BY <1>10 DEF UnitedMatch, OfPrefix, IsCommunity, CommunityFields
  <2> QED
    BY <1>1, <1>10, <2>1, PrefixRowsMean
<1>11. CASE c.field = "as_path_length"
  <2>1. rows = Compares(c)
    BY <1>11 DEF UnitedMatch, OfPrefix, IsCommunity, CommunityFields
  <2> QED
    BY <1>11, <2>1, ComparesMean
<1>12. CASE ~IsCommunity(c) /\ ~OfPrefix(c) /\ c.field # "as_path_length"
  <2>1. ~NotPlain(vendor, c)
    BY <1>12 DEF UnitedMatchRaises
  <2>2. rows = Plainly(c)
    BY <1>12 DEF UnitedMatch
  <2> QED
    BY <2>1, <2>2, PlainlyMeans
<1> QED
  BY <1>6, <1>8, <1>9, <1>10, <1>11, <1>12

LEMMA IosxrMeans ==
    ASSUME NEW store, NEW ps, NEW cfg, NEW r, Settled("iosxr", store, ps, cfg, r),
           NEW c \in Conditions(ps), ~IosxrMatchRaises(c)
    PROVE  RowsMean("iosxr", store, cfg, r, c, IosxrMatch(store, c))
<1> DEFINE m == Len(c.names)  rows == IosxrMatch(store, c)  vendor == "iosxr"
<1>1. /\ IsCondition(c) /\ IsMade(c)
      /\ IsCommunity(c) \/ IsRd(c) => c.op \in {"has", "has_any"} /\ m # 0
      /\ OfPrefix(c) => c.op = "custom" /\ m # 0
      /\ IsCommunity(c) => c \in CommunityConditions(ps)
      /\ OfPrefix(c) => c \in PrefixConds(ps)
  BY ListsAsked
<1>2. m \in Nat /\ DOMAIN c.names = 1 .. m /\ \A i \in 1 .. m : c.names[i] \in ToSet(c.names)
  BY <1>1, NamesAre
<1>3. \A k : k \notin Shared(vendor)
  BY DEF Shared, Alternatives
<1>4. Joined(c) = "and" <=> c.op = "has"
  BY DEF Joined
<1>5. vendor \notin {"arista", "cumulus", "juniper", "huawei"} /\ ~Uniteds(vendor) /\ Settled(vendor, store, ps, cfg, r)
  BY DEF Uniteds
<1>6. \A t : KindOf(vendor, t) = t
  BY DEF KindOf
<1>7. \A n : RdName(vendor, store, n) = n
  BY DEF RdName
<1>8. \A n : PrefixKind(vendor, store, n, c) = "prefix-set"
  BY DEF PrefixKind
<1> HIDE DEF vendor
<1>9. ASSUME NEW row, row.names = [i \in 1 .. m |-> row.names[i]], m # 0, row.join = Joined(c), rows = <<row>>,
             \A i \in 1 .. m : NameHolds(cfg, row, row.names[i], r) <=> NameMeant(store, c, c.names[i], r)
      PROVE  RowsMean(vendor, store, cfg, r, c, rows)
  <2>1. OfNames(cfg, r, store, c, row)
    BY <1>1, <1>4, <1>9 DEF OfNames
  <2>2. Meant(store, c, r) <=> RowHolds(cfg, row, r)
    BY <2>1, RowOfNames
  <2>3. RowsMean(vendor, store, cfg, r, c, <<row>>)
    BY <1>3, <2>2, OneMeans
  <2> HIDE DEF rows
  <2> QED
    BY <1>9, <2>3
<1>10. CASE IsCommunity(c)
  <2>1. c.field # "rd" /\ ~OfPrefix(c) /\ c.field \notin {"local_pref", "as_path_length"}
    BY <1>10 DEF IsCommunity, CommunityFields, OfPrefix
  <2> DEFINE row == Refers(TypeOf[c.field], Rows(c.names, Single), Joined(c), OfLogicAnd(store, c.names))
  <2>2. rows = <<row>>
    BY <1>10, <2>1 DEF IosxrMatch
  <2>3. row.kind = TypeOf[c.field] /\ row.names = [i \in 1 .. m |-> Single(c.names[i])] /\ row.join = Joined(c)
        /\ row.every = OfLogicAnd(store, c.names)
    BY <1>2 DEF Refers, Rows
  <2> HIDE DEF row, rows
  <2>4. row.names = [i \in 1 .. m |-> row.names[i]] /\ \A i \in 1 .. m : row.names[i] = Single(c.names[i])
    BY <2>3
  <2>5. ASSUME NEW n \in ToSet(c.names) PROVE NameHolds(cfg, row, Single(n), r) <=> NameMeant(store, c, n, r)
    <3>1. Single(n) \in row.every <=> Named(store.comms, n).logic = "AND"
      <4>1. ASSUME Named(store.comms, n).logic = "AND" PROVE Single(n) \in OfLogicAnd(store, c.names)
        BY <4>1 DEF OfLogicAnd
      <4>2. ASSUME Single(n) \in OfLogicAnd(store, c.names) PROVE Named(store.comms, n).logic = "AND"
        <5>1. PICK k \in {x \in ToSet(c.names) : Named(store.comms, x).logic = "AND"} : Single(n) = Single(k)
          BY <4>2 DEF OfLogicAnd
        <5>2. n = k
          BY <5>1 DEF Single
        <5> QED
          BY <5>1, <5>2
      <4> QED
        BY <2>3, <4>1, <4>2
    <3>2. c \in CommunityConditions(ps) /\ row.kind = KindOf(vendor, TypeOf[c.field])
      BY <1>1, <1>6, <1>10, <2>3
    <3> QED
      BY <1>5, <3>1, <3>2, CommunityNameHolds
  <2>6. \A i \in 1 .. m : NameHolds(cfg, row, row.names[i], r) <=> NameMeant(store, c, c.names[i], r)
    BY <1>2, <2>4, <2>5
  <2> QED
    BY <1>1, <1>9, <1>10, <2>2, <2>3, <2>4, <2>6 DEF vendor, rows
<1>11. CASE IsRd(c)
  <2>1. c.field = "rd" /\ ~IsCommunity(c) /\ ~OfPrefix(c)
    BY <1>11 DEF IsRd, IsCommunity, CommunityFields, OfPrefix
  <2> DEFINE row == Refers("rd", Rows(c.names, Single), Joined(c), {})
  <2>2. rows = <<row>>
    BY <2>1 DEF IosxrMatch
  <2>3. row.kind = "rd" /\ row.names = [i \in 1 .. m |-> Single(c.names[i])] /\ row.join = Joined(c)
    BY <1>2 DEF Refers, Rows
  <2> HIDE DEF row, rows
  <2>4. row.names = [i \in 1 .. m |-> row.names[i]] /\ \A i \in 1 .. m : row.names[i] = Single(c.names[i])
    BY <2>3
  <2>5. ASSUME NEW n \in ToSet(c.names) PROVE NameHolds(cfg, row, Single(n), r) <=> NameMeant(store, c, n, r)
    <3>1. NameHolds(cfg, row, Single(RdName(vendor, store, n)), r) <=> NameMeant(store, c, n, r)
      BY <1>5, <2>1, <2>3, RdHolds
    <3> QED
      BY <1>7, <3>1
  <2>6. \A i \in 1 .. m : NameHolds(cfg, row, row.names[i], r) <=> NameMeant(store, c, c.names[i], r)
    BY <1>2, <2>4, <2>5
  <2> QED
    BY <1>1, <1>9, <1>11, <2>2, <2>3, <2>4, <2>6 DEF vendor, rows
<1>12. CASE OfPrefix(c)
  <2>1. c.field # "rd" /\ ~IsCommunity(c) /\ c.field \notin {"local_pref", "as_path_length"}
    BY <1>12 DEF IsCommunity, CommunityFields, OfPrefix
  <2> DEFINE row == Refers("prefix-set", Rows(c.names, LAMBDA n : PrefixName("iosxr", store, n, c)), Joined(c), {})
  <2>2. rows = <<row>>
    BY <1>12, <2>1 DEF IosxrMatch
  <2>3. row.kind = "prefix-set" /\ row.names = [i \in 1 .. m |-> PrefixName(vendor, store, c.names[i], c)]
        /\ row.join = Joined(c) /\ row.op = ""
    BY <1>2 DEF Refers, Rows, vendor
  <2> HIDE DEF row, rows
  <2>4. row.names = [i \in 1 .. m |-> row.names[i]] /\ \A i \in 1 .. m : row.names[i] = PrefixName(vendor, store, c.names[i], c)
    BY <2>3
  <2>5. ASSUME NEW n \in ToSet(c.names) PROVE NameHolds(cfg, row, PrefixName(vendor, store, n, c), r) <=> NameMeant(store, c, n, r)
    <3>1. NameHolds(cfg, row, PrefixName(vendor, store, n, c), r) <=> PrefixHolds(cfg, row, PrefixName(vendor, store, n, c), r)
      BY <2>3 DEF NameHolds, PrefixKinds, CommunityKinds, OtherKinds
    <3>2. row.kind = PrefixKind(vendor, store, n, c) /\ row.op # "orlonger"
      BY <1>8, <2>3
    <3>3. PrefixHolds(cfg, row, PrefixName(vendor, store, n, c), r) <=> NameMeant(store, c, n, r)
      BY <1>1, <1>5, <1>12, <3>2, PlainPrefixHolds
    <3> QED
      BY <3>1, <3>3
  <2>6. \A i \in 1 .. m : NameHolds(cfg, row, row.names[i], r) <=> NameMeant(store, c, c.names[i], r)
    BY <1>2, <2>4, <2>5
  <2> QED
    BY <1>1, <1>9, <1>12, <2>2, <2>3, <2>4, <2>6 DEF vendor, rows
<1>13. CASE c.field \in {"local_pref", "as_path_length"}
  <2>1. rows = Compares(c)
    BY <1>13 DEF IosxrMatch, OfPrefix, IsCommunity, CommunityFields
  <2> QED
    BY <1>13, <2>1, ComparesMean
<1>14. CASE ~IsCommunity(c) /\ ~IsRd(c) /\ ~OfPrefix(c) /\ c.field \notin {"local_pref", "as_path_length"}
  <2>1. ~NotPlain("iosxr", c)
    BY <1>14 DEF IosxrMatchRaises, IsCommunity, CommunityFields, IsRd
  <2>2. rows = Plainly(c)
    BY <1>14 DEF IosxrMatch, IsRd
  <2> QED
    BY <2>1, <2>2, PlainlyMeans
<1> QED
  BY <1>10, <1>11, <1>12, <1>13, <1>14

(* Juniper: the rows of one condition; communities, and rd filters, stand  *)
(* in one bracket.                                                         *)
MeantByEach(store, cfg, r, kind, c) ==
    \A row : row.kind = kind /\ row.every = {} =>
        \A n \in ToSet(c.names) : NameHolds(cfg, row, Single(n), r) <=> NameMeant(store, c, n, r)

LEMMA BracketMeans ==
    ASSUME NEW store, NEW cfg, NEW r, NEW kind, NEW conds, Listed(conds), NEW c, ToSet(conds) = {c},
           IsCondition(c), Len(c.names) # 0, c.op \in {"has", "has_any"},
           ~(Len(NamesIn(conds)) > 1 /\ NotOnlyAny(conds)),
           MeantByEach(store, cfg, r, kind, c)
    PROVE  \E row : /\ Bracket(kind, conds) = <<row>> /\ row.kind = kind
                    /\ Meant(store, c, r) <=> RowHolds(cfg, row, r)
<1> DEFINE k     == Len(conds)
           each  == [i \in DOMAIN conds |-> conds[i].names]
           names == FlattenSeq(each)
           m     == Len(names)
           row   == Refers(kind, Rows(names, Single), "or", {})
<1>1. k \in Nat /\ DOMAIN conds = 1 .. k /\ \A i \in 1 .. k : conds[i] = c
  <2>1. k \in Nat /\ DOMAIN conds = 1 .. k
    BY ListIs
  <2>2. \A i \in DOMAIN conds : conds[i] \in ToSet(conds)
    BY DEF ToSet
  <2> QED
    BY <2>1, <2>2
<1>2. k # 0
  <2> SUFFICES ASSUME k = 0 PROVE FALSE
    OBVIOUS
  <2>1. \A i : i \notin 1 .. k
    BY <1>1
  <2>2. ToSet(conds) = {conds[i] : i \in 1 .. k}
    BY ListIs
  <2> QED
    BY <2>1, <2>2
<1>3. each = [i \in 1 .. k |-> each[i]] /\ \A i \in 1 .. k : each[i] = c.names
  BY <1>1
<1>4. conds # <<>>
  BY <1>1, <1>2
<1>5. Bracket(kind, conds) = <<row>>
  BY <1>4 DEF Bracket, If, NamesIn, Rows, each
<1>6. NamesIn(conds) = names
  BY DEF NamesIn, Rows, each
<1> HIDE DEF each
<1>7. Listed(names) /\ ToSet(names) = ToSet(c.names)
  <2>1. Listed(c.names)
    BY DEF IsCondition, IsList, Listed
  <2>2. \A i \in 1 .. k : Listed(each[i])
    BY <1>3, <2>1
  <2>3. Listed(names) /\ ToSet(names) = UNION {ToSet(each[i]) : i \in 1 .. k}
    BY <1>1, <1>3, <2>2, Collected
  <2>4. 1 \in 1 .. k
    BY <1>1, <1>2
  <2>5. UNION {ToSet(each[i]) : i \in 1 .. k} = ToSet(c.names)
    BY <1>3, <2>4
  <2> QED
    BY <2>3, <2>5
<1>8. m \in Nat /\ DOMAIN names = 1 .. m /\ ToSet(names) = {names[i] : i \in 1 .. m}
  BY <1>7, ListIs
<1> HIDE DEF names
<1>9. m # 0
  <2>1. c.names[1] \in ToSet(c.names)
    <3>1. Len(c.names) \in Nat /\ \A i \in 1 .. Len(c.names) : c.names[i] \in ToSet(c.names)
      BY NamesAre
    <3> QED
      BY <3>1
  <2>2. PICK i \in 1 .. m : names[i] = c.names[1]
    BY <1>7, <1>8, <2>1
  <2> QED
    BY <1>8, <2>2
<1>10. row.kind = kind /\ row.every = {} /\ row.join = "or" /\ row.names = [i \in 1 .. m |-> Single(names[i])]
  BY <1>8 DEF Refers, Rows
<1> HIDE DEF row, m
<1>11. row.names = [i \in 1 .. m |-> row.names[i]] /\ \A i \in 1 .. m : row.names[i] = Single(names[i])
  BY <1>10
<1>12. RowHolds(cfg, row, r) <=> \E i \in 1 .. m : NameHolds(cfg, row, row.names[i], r)
  <2>1. RowHolds(cfg, row, r) <=>
               IF row.join = "and" THEN \A i \in 1 .. m : NameHolds(cfg, row, row.names[i], r)
                                   ELSE \E i \in 1 .. m : NameHolds(cfg, row, row.names[i], r)
    BY <1>8, <1>9, <1>11, JoinedRow
  <2> QED
    BY <1>10, <2>1
<1>13. (\E i \in 1 .. m : NameHolds(cfg, row, row.names[i], r)) <=> \E n \in ToSet(c.names) : NameMeant(store, c, n, r)
  <2>1. \A n \in ToSet(c.names) : NameHolds(cfg, row, Single(n), r) <=> NameMeant(store, c, n, r)
    BY <1>10 DEF MeantByEach
  <2> QED
    BY <1>7, <1>8, <1>11, <2>1
<1>14. Meant(store, c, r) <=> \E n \in ToSet(c.names) : NameMeant(store, c, n, r)
  <2>1. CASE c.op # "has"
    BY <2>1, MeantByNames
  <2>2. CASE c.op = "has"
    <3>1. NotOnlyAny(conds)
      <4>1. 1 \in DOMAIN conds /\ conds[1].op # "has_any"
        BY <1>1, <1>2, <2>2
      <4> QED
        BY <4>1 DEF NotOnlyAny
    <3>2. m = 1
      BY <1>6, <1>8, <1>9, <3>1 DEF m
    <3>3. \A i \in 1 .. m : i = 1
      BY <3>2
    <3>4. \A n \in ToSet(c.names) : n = names[1]
      BY <1>7, <1>8, <3>3
    <3>5. names[1] \in ToSet(c.names)
      <4>1. 1 \in 1 .. m
        BY <3>2
      <4> QED
        BY <1>7, <1>8, <4>1
    <3>6. (\A n \in ToSet(c.names) : NameMeant(store, c, n, r)) <=> \E n \in ToSet(c.names) : NameMeant(store, c, n, r)
      BY <3>4, <3>5
    <3>7. Meant(store, c, r) <=> \A n \in ToSet(c.names) : NameMeant(store, c, n, r)
      BY <2>2, MeantByNames
    <3> QED
      BY <3>6, <3>7
  <2> QED
    BY <2>1, <2>2
<1> QED
  BY <1>5, <1>10, <1>12, <1>13, <1>14

JuniperPrefixRows(store, c) ==
    [j \in DOMAIN c.names |->
        LET n == c.names[j]
        IN [Refer(JuniperType(store, n, c), JuniperPrefix(store, n, c).name) EXCEPT
                !.op = IF JuniperType(store, n, c) = "prefix-list" THEN FlavourOf(store, n, c) ELSE ""]]
JuniperRow(store, c, n) ==
    [Refer(JuniperType(store, n, c), JuniperPrefix(store, n, c).name) EXCEPT
                !.op = IF JuniperType(store, n, c) = "prefix-list" THEN FlavourOf(store, n, c) ELSE ""]

LEMMA JuniperRowHolds ==
    ASSUME NEW store, NEW ps, NEW cfg, NEW r, Settled("juniper", store, ps, cfg, r),
           NEW c \in PrefixConds(ps), NEW n \in ToSet(c.names)
    PROVE  /\ JuniperRow(store, c, n).kind \in {"prefix-list", "route-filter"}
           /\ RowHolds(cfg, JuniperRow(store, c, n), r) <=> NameMeant(store, c, n, r)
<1> DEFINE row == JuniperRow(store, c, n)  name == JuniperPrefix(store, n, c).name
<1>1. row.kind = JuniperType(store, n, c) /\ row.names = <<name>>
  BY DEF JuniperRow, Refer, Refers
<1>2. Flavoured(store, n, c, row)
  BY DEF Flavoured, JuniperRow, Refer, Refers
<1> HIDE DEF row, name
<1>3. row.kind \in {"prefix-list", "route-filter"}
  BY <1>1 DEF JuniperType
<1>4. RowHolds(cfg, row, r) <=> NameHolds(cfg, row, name, r)
  BY <1>1, NamedRow
<1>5. NameHolds(cfg, row, name, r) <=> PrefixHolds(cfg, row, name, r)
  <2>1. row.kind \in PrefixKinds /\ row.kind \notin CommunityKinds /\ row.kind \notin OtherKinds
    BY <1>3 DEF PrefixKinds, CommunityKinds, OtherKinds
  <2> QED
    BY <2>1 DEF NameHolds
<1>6. PrefixHolds(cfg, row, name, r) <=> NameMeant(store, c, n, r)
  <2>1. PrefixHolds(cfg, row, JuniperPrefix(store, n, c).name, r) <=> NameMeant(store, c, n, r)
    BY <1>1, <1>2, JuniperPrefixHolds
  <2> QED
    BY <2>1 DEF name
<1> QED
  BY <1>3, <1>4, <1>5, <1>6 DEF row

LEMMA JuniperPrefixRowsMean ==
    ASSUME NEW store, NEW ps, NEW cfg, NEW r, Settled("juniper", store, ps, cfg, r), NEW c \in PrefixConds(ps)
    PROVE  RowsMean("juniper", store, cfg, r, c, JuniperPrefixRows(store, c))
<1> DEFINE m == Len(c.names)  rows == JuniperPrefixRows(store, c)
<1>1. c \in Conditions(ps) /\ OfPrefix(c)
  BY DEF PrefixConds
<1>2. IsCondition(c) /\ c.op = "custom" /\ m # 0
  BY <1>1, ListsAsked
<1>3. m \in Nat /\ DOMAIN c.names = 1 .. m /\ \A i \in 1 .. m : c.names[i] \in ToSet(c.names)
  BY <1>2, NamesAre
<1>4. rows = [i \in 1 .. m |-> rows[i]] /\ \A i \in 1 .. m : rows[i] = JuniperRow(store, c, c.names[i])
  BY <1>3 DEF JuniperPrefixRows, JuniperRow
<1> HIDE DEF rows
<1>5. \A i \in 1 .. m : /\ rows[i].kind \in {"prefix-list", "route-filter"}
                        /\ RowHolds(cfg, rows[i], r) <=> NameMeant(store, c, c.names[i], r)
  <2> SUFFICES ASSUME NEW i \in 1 .. m
               PROVE  /\ rows[i].kind \in {"prefix-list", "route-filter"}
                      /\ RowHolds(cfg, rows[i], r) <=> NameMeant(store, c, c.names[i], r)
    OBVIOUS
  <2> DEFINE n == c.names[i]
  <2>1. n \in ToSet(c.names) /\ rows[i] = JuniperRow(store, c, n)
    BY <1>3, <1>4
  <2> HIDE DEF n
  <2>2. /\ JuniperRow(store, c, n).kind \in {"prefix-list", "route-filter"}
        /\ RowHolds(cfg, JuniperRow(store, c, n), r) <=> NameMeant(store, c, n, r)
    BY <2>1, JuniperRowHolds
  <2> QED
    BY <2>1, <2>2 DEF n
<1>6. RowPerEach(cfg, r, store, c, rows)
  BY <1>2, <1>4, <1>5 DEF RowPerEach
<1>7. /\ Listed(rows) /\ ToSet(rows) # {} /\ \A row \in ToSet(rows) : \E i \in 1 .. m : row = rows[i]
      /\ Meant(store, c, r) <=> \E row \in ToSet(rows) : RowHolds(cfg, row, r)
  <2>1. c.op # "has"
    BY <1>2
  <2> QED
    BY <1>6, <2>1, RowsByName
<1>8. \A row \in ToSet(rows) : row.kind \in {"prefix-list", "route-filter"}
  BY <1>5, <1>7
<1>9. \A row \in ToSet(rows) : row.kind \in Alternatives("juniper") /\ About("juniper", row.kind, c)
  BY <1>1, <1>8 DEF Alternatives, About
<1> QED
  BY <1>7, <1>9 DEF RowsMean, AnyMeans, rows

JuniperRows(store, match, c) ==
    CASE IsCommunity(c) -> Bracket("community", Those(match, IsCommunity))
      [] OfPrefix(c)    -> JuniperPrefixRows(store, c)
      [] IsLength(c)    -> Compares(c)
      [] IsRd(c)        -> Bracket("rd", Those(match, IsRd))
      [] OTHER          -> Plainly(c)

LEMMA KindsOfCondition ==
    ASSUME NEW store, NEW match, NEW c
    PROVE  /\ IsCommunity(c) => JuniperRows(store, match, c) = Bracket("community", Those(match, IsCommunity))
           /\ OfPrefix(c)    => JuniperRows(store, match, c) = JuniperPrefixRows(store, c)
           /\ IsLength(c)    => JuniperRows(store, match, c) = Compares(c)
           /\ IsRd(c)        => JuniperRows(store, match, c) = Bracket("rd", Those(match, IsRd))
           /\ IsSimple(c)    => JuniperRows(store, match, c) = Plainly(c)
           /\ IsCommunity(c) \/ OfPrefix(c) \/ IsLength(c) \/ IsRd(c) \/ IsSimple(c)
<1>1. IsCommunity(c) => ~OfPrefix(c) /\ ~IsLength(c) /\ ~IsRd(c)
  BY DEF IsCommunity, CommunityFields, OfPrefix, IsLength, IsRd
<1>2. OfPrefix(c) => ~IsLength(c) /\ ~IsRd(c)
  BY DEF OfPrefix, IsLength, IsRd
<1>3. IsLength(c) => ~IsRd(c)
  BY DEF IsLength, IsRd
<1>4. IsSimple(c) <=> ~(IsCommunity(c) \/ OfPrefix(c) \/ IsRd(c) \/ IsLength(c))
  BY DEF IsSimple
<1> DEFINE A == IsCommunity(c)  B == OfPrefix(c)  C == IsLength(c)  D == IsRd(c)
           a == Bracket("community", Those(match, IsCommunity))  b == JuniperPrefixRows(store, c)
           d == Bracket("rd", Those(match, IsRd))  e == Compares(c)  f == Plainly(c)
<1>5. JuniperRows(store, match, c) = CASE A -> a [] B -> b [] C -> e [] D -> d [] OTHER -> f
  BY DEF JuniperRows
<1>6. (A => ~B /\ ~C /\ ~D) /\ (B => ~C /\ ~D) /\ (C => ~D) /\ (IsSimple(c) <=> ~(A \/ B \/ D \/ C))
  BY <1>1, <1>2, <1>3, <1>4
<1> HIDE DEF A, B, C, D, a, b, d, e, f
<1>7. /\ A => JuniperRows(store, match, c) = a
      /\ B => JuniperRows(store, match, c) = b
      /\ C => JuniperRows(store, match, c) = e
      /\ D => JuniperRows(store, match, c) = d
      /\ IsSimple(c) => JuniperRows(store, match, c) = f
      /\ A \/ B \/ C \/ D \/ IsSimple(c)
  BY <1>5, <1>6
<1> QED
  BY <1>7 DEF A, B, C, D, a, b, d, e, f

LEMMA BracketRows ==
    ASSUME NEW kind, NEW conds, Listed(conds)
    PROVE  Listed(Bracket(kind, conds)) /\ (ToSet(conds) = {} => ToSet(Bracket(kind, conds)) = {})
<1> DEFINE row == Refers(kind, Rows(NamesIn(conds), Single), "or", {})
<1>1. Bracket(kind, conds) = IF conds # <<>> THEN <<row>> ELSE <<>>
  BY DEF Bracket, If
<1> HIDE DEF row
<1>2. ToSet(conds) = {} => conds = <<>>
  <2> SUFFICES ASSUME ToSet(conds) = {} PROVE conds = <<>>
    OBVIOUS
  <2>1. conds \in Seq({})
    BY DEF Listed
  <2> QED
    BY <2>1
<1> QED
  BY <1>1, <1>2, OneElement, NoElements

(* Groups of rows, one for each condition of a kind.                       *)
LEMMA GroupedRows ==
    ASSUME NEW conds, Listed(conds), NEW groups, groups = [i \in DOMAIN conds |-> groups[i]], NEW f,
           \A i \in DOMAIN conds : groups[i] = f[conds[i]],
           \A c \in ToSet(conds) : Listed(f[c])
    PROVE  Listed(FlattenSeq(groups)) /\ ToSet(FlattenSeq(groups)) = UNION {ToSet(f[c]) : c \in ToSet(conds)}
<1> DEFINE n == Len(conds)
<1>1. n \in Nat /\ DOMAIN conds = 1 .. n /\ ToSet(conds) = {conds[i] : i \in 1 .. n}
  BY ListIs
<1>2. groups = [i \in 1 .. n |-> groups[i]] /\ \A i \in 1 .. n : groups[i] = f[conds[i]] /\ Listed(groups[i])
  BY <1>1
<1>3. Listed(FlattenSeq(groups)) /\ ToSet(FlattenSeq(groups)) = UNION {ToSet(groups[i]) : i \in 1 .. n}
  BY <1>1, <1>2, Collected
<1>4. UNION {ToSet(groups[i]) : i \in 1 .. n} = UNION {ToSet(f[c]) : c \in ToSet(conds)}
  BY <1>1, <1>2
<1> QED
  BY <1>3, <1>4

LEMMA JuniperMatchIs ==
    ASSUME NEW store, NEW match, Conds(match), \A c \in ToSet(match) : Listed(JuniperRows(store, match, c))
    PROVE  ToSet(JuniperMatch(store, match)) = UNION {ToSet(JuniperRows(store, match, c)) : c \in ToSet(match)}
<1> DEFINE comms    == Those(match, IsCommunity)
           prefixes == Those(match, OfPrefix)
           lengths  == Those(match, IsLength)
           rds      == Those(match, IsRd)
           simples  == Those(match, IsSimple)
           ofPrefixes == [i \in DOMAIN prefixes |-> JuniperPrefixRows(store, prefixes[i])]
           ofLengths  == [i \in DOMAIN lengths |-> Compares(lengths[i])]
           ofSimples  == [i \in DOMAIN simples |-> Plainly(simples[i])]
           f == [c \in ToSet(match) |-> JuniperRows(store, match, c)]
           A == Bracket("community", comms)  B == FlattenSeq(ofPrefixes)  C == FlattenSeq(ofLengths)
           D == Bracket("rd", rds)           E == FlattenSeq(ofSimples)
<1>1. JuniperMatch(store, match) = A \o B \o C \o D \o E
  BY DEF JuniperMatch, Rows, JuniperPrefixRows
<1>2. /\ Listed(comms) /\ ToSet(comms) = {c \in ToSet(match) : IsCommunity(c)}
      /\ Listed(prefixes) /\ ToSet(prefixes) = {c \in ToSet(match) : OfPrefix(c)}
      /\ Listed(lengths) /\ ToSet(lengths) = {c \in ToSet(match) : IsLength(c)}
      /\ Listed(rds) /\ ToSet(rds) = {c \in ToSet(match) : IsRd(c)}
      /\ Listed(simples) /\ ToSet(simples) = {c \in ToSet(match) : IsSimple(c)}
  BY ByKind
<1>3. \A c \in ToSet(match) : f[c] = JuniperRows(store, match, c) /\ Listed(f[c])
  OBVIOUS
<1>4. /\ \A c \in ToSet(comms) : f[c] = A
      /\ \A c \in ToSet(prefixes) : f[c] = JuniperPrefixRows(store, c)
      /\ \A c \in ToSet(lengths) : f[c] = Compares(c)
      /\ \A c \in ToSet(rds) : f[c] = D
      /\ \A c \in ToSet(simples) : f[c] = Plainly(c)
      /\ ToSet(match) = ToSet(comms) \cup ToSet(prefixes) \cup ToSet(lengths) \cup ToSet(rds) \cup ToSet(simples)
  <2>1. \A c \in ToSet(match) :
           /\ IsCommunity(c) => f[c] = A
           /\ OfPrefix(c)    => f[c] = JuniperPrefixRows(store, c)
           /\ IsLength(c)    => f[c] = Compares(c)
           /\ IsRd(c)        => f[c] = D
           /\ IsSimple(c)    => f[c] = Plainly(c)
           /\ IsCommunity(c) \/ OfPrefix(c) \/ IsLength(c) \/ IsRd(c) \/ IsSimple(c)
    BY <1>3, KindsOfCondition
  <2> HIDE DEF f, A, D, comms, rds, prefixes, lengths, simples
  <2> QED
    BY <1>2, <2>1
<1> HIDE DEF f, comms, prefixes, lengths, rds, simples
<1>5. Listed(B) /\ ToSet(B) = UNION {ToSet(f[c]) : c \in ToSet(prefixes)}
  <2>1. \A i \in DOMAIN prefixes : prefixes[i] \in ToSet(prefixes)
    BY DEF ToSet
  <2>2. ofPrefixes = [i \in DOMAIN prefixes |-> ofPrefixes[i]] /\ \A i \in DOMAIN prefixes : ofPrefixes[i] = f[prefixes[i]]
    BY <1>4, <2>1
  <2>3. \A c \in ToSet(prefixes) : Listed(f[c])
    BY <1>2, <1>3
  <2> HIDE DEF ofPrefixes
  <2> QED
    BY <1>2, <2>2, <2>3, GroupedRows
<1>6. Listed(C) /\ ToSet(C) = UNION {ToSet(f[c]) : c \in ToSet(lengths)}
  <2>1. \A i \in DOMAIN lengths : lengths[i] \in ToSet(lengths)
    BY DEF ToSet
  <2>2. ofLengths = [i \in DOMAIN lengths |-> ofLengths[i]] /\ \A i \in DOMAIN lengths : ofLengths[i] = f[lengths[i]]
    BY <1>4, <2>1
  <2>3. \A c \in ToSet(lengths) : Listed(f[c])
    BY <1>2, <1>3
  <2> HIDE DEF ofLengths
  <2> QED
    BY <1>2, <2>2, <2>3, GroupedRows
<1>7. Listed(E) /\ ToSet(E) = UNION {ToSet(f[c]) : c \in ToSet(simples)}
  <2>1. \A i \in DOMAIN simples : simples[i] \in ToSet(simples)
    BY DEF ToSet
  <2>2. ofSimples = [i \in DOMAIN simples |-> ofSimples[i]] /\ \A i \in DOMAIN simples : ofSimples[i] = f[simples[i]]
    BY <1>4, <2>1
  <2>3. \A c \in ToSet(simples) : Listed(f[c])
    BY <1>2, <1>3
  <2> HIDE DEF ofSimples
  <2> QED
    BY <1>2, <2>2, <2>3, GroupedRows
<1>8. /\ Listed(A) /\ ToSet(A) = UNION {ToSet(f[c]) : c \in ToSet(comms)}
      /\ Listed(D) /\ ToSet(D) = UNION {ToSet(f[c]) : c \in ToSet(rds)}
  <2>1. Listed(A) /\ (ToSet(comms) = {} => ToSet(A) = {}) /\ Listed(D) /\ (ToSet(rds) = {} => ToSet(D) = {})
    BY <1>2, BracketRows
  <2> HIDE DEF A, D
  <2>2. ToSet(A) = UNION {ToSet(f[c]) : c \in ToSet(comms)}
    BY <1>4, <2>1
  <2>3. ToSet(D) = UNION {ToSet(f[c]) : c \in ToSet(rds)}
    BY <1>4, <2>1
  <2> QED
    BY <2>1, <2>2, <2>3
<1> HIDE DEF A, B, C, D, E
<1>9. ToSet(A \o B \o C \o D \o E) = ToSet(A) \cup ToSet(B) \cup ToSet(C) \cup ToSet(D) \cup ToSet(E)
  <2>1. Listed(A \o B) /\ ToSet(A \o B) = ToSet(A) \cup ToSet(B)
    BY <1>5, <1>8, ListsJoined
  <2>2. Listed(A \o B \o C) /\ ToSet(A \o B \o C) = ToSet(A \o B) \cup ToSet(C)
    BY <1>6, <2>1, ListsJoined
  <2>3. Listed(A \o B \o C \o D) /\ ToSet(A \o B \o C \o D) = ToSet(A \o B \o C) \cup ToSet(D)
    BY <1>8, <2>2, ListsJoined
  <2>4. ToSet(A \o B \o C \o D \o E) = ToSet(A \o B \o C \o D) \cup ToSet(E)
    BY <1>7, <2>3, ListsJoined
  <2> QED
    BY <2>1, <2>2, <2>3, <2>4
<1>10. UNION {ToSet(f[c]) : c \in ToSet(match)} = ToSet(A) \cup ToSet(B) \cup ToSet(C) \cup ToSet(D) \cup ToSet(E)
  BY <1>4, <1>5, <1>6, <1>7, <1>8
<1>11. UNION {ToSet(f[c]) : c \in ToSet(match)} = UNION {ToSet(JuniperRows(store, match, c)) : c \in ToSet(match)}
  BY <1>3
<1> QED
  BY <1>1, <1>9, <1>10, <1>11

OneType(match) == \A i, j \in DOMAIN match : IsCommunity(match[i]) /\ IsCommunity(match[j]) => i = j

LEMMA JuniperMeans ==
    ASSUME NEW store, NEW ps, NEW cfg, NEW r, Settled("juniper", store, ps, cfg, r), NEW match, Conds(match),
           ToSet(match) \subseteq Conditions(ps), OneEach(match), OneType(match), ~JuniperMatchRaises(match),
           NEW c \in ToSet(match)
    PROVE  RowsMean("juniper", store, cfg, r, c, JuniperRows(store, match, c))
<1> DEFINE vendor == "juniper"
<1>1. /\ c \in Conditions(ps) /\ IsCondition(c) /\ IsMade(c)
      /\ IsCommunity(c) \/ IsRd(c) => c.op \in {"has", "has_any"} /\ Len(c.names) # 0
      /\ OfPrefix(c) => c.op = "custom" /\ Len(c.names) # 0
      /\ IsCommunity(c) => c \in CommunityConditions(ps)
      /\ OfPrefix(c) => c \in PrefixConds(ps)
  <2>1. c \in Conditions(ps)
    OBVIOUS
  <2> QED
    BY <2>1, ListsAsked
<1>2. vendor \in DOMAIN MatchMap /\ vendor # "iosxr" /\ vendor \notin {"arista", "cumulus"} /\ ~Uniteds(vendor)
  BY DEF MatchMap, Uniteds
<1>3. (\A t : KindOf(vendor, t) = "community") /\ \A n : RdName(vendor, store, n) = n
  BY DEF KindOf, RdName
<1>4. "community" \notin Shared(vendor) /\ "rd" \notin Shared(vendor)
  BY <1>2, KindsApart
<1>5. \A row : RowsMean(vendor, store, cfg, r, c, <<row>>) \/ row.kind \in Shared(vendor)
               \/ ~(Meant(store, c, r) <=> RowHolds(cfg, row, r))
  BY OneMeans
<1>6. \A d \in ToSet(match) : \E i \in DOMAIN match : match[i] = d
  BY DEF ToSet
<1>7. Settled(vendor, store, ps, cfg, r)
  OBVIOUS
<1> HIDE DEF vendor
<1>8. CASE IsCommunity(c)
  <2> DEFINE conds == Those(match, IsCommunity)
  <2>1. Listed(conds) /\ ToSet(conds) = {c}
    <3>1. Listed(conds) /\ ToSet(conds) = {d \in ToSet(match) : IsCommunity(d)}
      BY ByKind
    <3>2. \A d \in ToSet(match) : IsCommunity(d) => d = c
      BY <1>6, <1>8 DEF OneType
    <3> QED
      BY <1>8, <3>1, <3>2
  <2>2. ~(Len(NamesIn(conds)) > 1 /\ NotOnlyAny(conds))
    BY DEF JuniperMatchRaises
  <2> HIDE DEF conds
  <2>3. ASSUME NEW row, row.kind = "community", row.every = {}, NEW n \in ToSet(c.names)
        PROVE  NameHolds(cfg, row, Single(n), r) <=> NameMeant(store, c, n, r)
    <3>1. row.kind = KindOf(vendor, TypeOf[c.field])
      BY <1>3, <2>3
    <3> QED
      BY <1>1, <1>2, <1>7, <1>8, <2>3, <3>1, CommunityNameHolds
  <2>4. PICK row : /\ Bracket("community", conds) = <<row>> /\ row.kind = "community"
                   /\ Meant(store, c, r) <=> RowHolds(cfg, row, r)
    <3> DEFINE kind == "community"
    <3> HIDE DEF kind
    <3>1. MeantByEach(store, cfg, r, kind, c)
      BY <2>3 DEF kind, MeantByEach
    <3>2. \E row : /\ Bracket(kind, conds) = <<row>> /\ row.kind = kind
                   /\ Meant(store, c, r) <=> RowHolds(cfg, row, r)
      <4>1. c.op \in {"has", "has_any"} /\ Len(c.names) # 0 /\ IsCondition(c)
        BY <1>1, <1>8
      <4> QED
        BY <2>1, <2>2, <3>1, <4>1, BracketMeans
    <3> QED
      BY <3>2 DEF kind
  <2>5. RowsMean(vendor, store, cfg, r, c, <<row>>)
    BY <1>4, <1>5, <2>4
  <2>6. JuniperRows(store, match, c) = <<row>>
    BY <1>8, <2>4, KindsOfCondition DEF conds
  <2> QED
    BY <2>5, <2>6 DEF vendor
<1>9. CASE IsRd(c)
  <2> DEFINE conds == Those(match, IsRd)
  <2>1. Listed(conds) /\ ToSet(conds) = {c}
    <3>1. Listed(conds) /\ ToSet(conds) = {d \in ToSet(match) : IsRd(d)}
      BY ByKind
    <3>2. \A d \in ToSet(match) : IsRd(d) => d = c
      BY <1>6, <1>9 DEF OneEach, IsRd
    <3> QED
      BY <1>9, <3>1, <3>2
  <2>2. ~(Len(NamesIn(conds)) > 1 /\ NotOnlyAny(conds))
    BY DEF JuniperMatchRaises
  <2> HIDE DEF conds
  <2>3. ASSUME NEW row, row.kind = "rd", row.every = {}, NEW n \in ToSet(c.names)
        PROVE  NameHolds(cfg, row, Single(n), r) <=> NameMeant(store, c, n, r)
    <3>1. NameHolds(cfg, row, Single(RdName(vendor, store, n)), r) <=> NameMeant(store, c, n, r)
      BY <1>1, <1>2, <1>7, <1>9, <2>3, RdHolds DEF IsRd
    <3> QED
      BY <1>3, <3>1
  <2>4. PICK row : /\ Bracket("rd", conds) = <<row>> /\ row.kind = "rd"
                   /\ Meant(store, c, r) <=> RowHolds(cfg, row, r)
    <3> DEFINE kind == "rd"
    <3> HIDE DEF kind
    <3>1. MeantByEach(store, cfg, r, kind, c)
      BY <2>3 DEF kind, MeantByEach
    <3>2. \E row : /\ Bracket(kind, conds) = <<row>> /\ row.kind = kind
                   /\ Meant(store, c, r) <=> RowHolds(cfg, row, r)
      <4>1. c.op \in {"has", "has_any"} /\ Len(c.names) # 0 /\ IsCondition(c)
        BY <1>1, <1>9
      <4> QED
        BY <2>1, <2>2, <3>1, <4>1, BracketMeans
    <3> QED
      BY <3>2 DEF kind
  <2>5. RowsMean(vendor, store, cfg, r, c, <<row>>)
    BY <1>4, <1>5, <2>4
  <2>6. JuniperRows(store, match, c) = <<row>>
    BY <1>9, <2>4, KindsOfCondition DEF conds
  <2> QED
    BY <2>5, <2>6 DEF vendor
<1>10. CASE OfPrefix(c)
  <2>1. RowsMean("juniper", store, cfg, r, c, JuniperPrefixRows(store, c))
    BY <1>1, <1>10, JuniperPrefixRowsMean
  <2> QED
    BY <1>10, <2>1, KindsOfCondition
<1>11. CASE IsLength(c)
  <2>1. RowsMean(vendor, store, cfg, r, c, Compares(c))
    BY <1>1, <1>7, <1>11, ComparesMean DEF IsLength
  <2> QED
    BY <1>11, <2>1, KindsOfCondition DEF vendor
<1>12. CASE IsSimple(c)
  <2>1. ~NotPlain(vendor, c)
    <3>1. \A i \in DOMAIN match : ~(IsSimple(match[i]) /\ NotPlain(vendor, match[i]))
      BY DEF JuniperMatchRaises, vendor
    <3> QED
      BY <1>6, <1>12, <3>1
  <2>2. RowsMean(vendor, store, cfg, r, c, Plainly(c))
    BY <1>1, <1>7, <2>1, PlainlyMeans
  <2> QED
    BY <1>12, <2>2, KindsOfCondition DEF vendor
<1> QED
  BY <1>8, <1>9, <1>10, <1>11, <1>12, KindsOfCondition

-----------------------------------------------------------------------------
(* The rows of a term match what its statement's conditions hold of.       *)
RowsFor(vendor, store, match, c) ==
    CASE vendor = "huawei"  -> HuaweiMatch(store, c)
      [] vendor = "iosxr"   -> IosxrMatch(store, c)
      [] vendor = "juniper" -> JuniperRows(store, match, c)
      [] OTHER              -> UnitedMatch(vendor, store, c)

OnePrefix(match) == \A c, d \in ToSet(match) : OfPrefix(c) /\ OfPrefix(d) => c = d

LEMMA JuniperOnePrefix ==
    ASSUME NEW store, NEW ps, NEW cfg, NEW r, Settled("juniper", store, ps, cfg, r), NEW match, Conds(match),
           ToSet(match) \subseteq Conditions(ps), ~JuniperMatchRaises(match)
    PROVE  OnePrefix(match)
<1> DEFINE conds == Those(match, OfPrefix)
<1> SUFFICES ASSUME NEW c \in ToSet(match), NEW d \in ToSet(match), OfPrefix(c), OfPrefix(d) PROVE c = d
  BY DEF OnePrefix
<1>1. Listed(conds) /\ c \in ToSet(conds) /\ d \in ToSet(conds) /\ \A x \in ToSet(conds) : x \in ToSet(match) /\ OfPrefix(x)
  BY ByKind
<1>2. \A x \in ToSet(conds) : x.op = "custom"
  <2> SUFFICES ASSUME NEW x \in ToSet(conds) PROVE x.op = "custom"
    OBVIOUS
  <2>1. x \in Conditions(ps) /\ OfPrefix(x)
    BY <1>1
  <2> QED
    BY <2>1, ListsAsked
<1>3. ~(Len(conds) > 1 /\ NotOnlyAny(conds))
  BY DEF JuniperMatchRaises
<1> HIDE DEF conds
<1>4. Len(conds) \in Nat /\ DOMAIN conds = 1 .. Len(conds) /\ ToSet(conds) = {conds[i] : i \in 1 .. Len(conds)}
  BY <1>1, ListIs
<1>5. PICK i \in 1 .. Len(conds), j \in 1 .. Len(conds) : conds[i] = c /\ conds[j] = d
  BY <1>1, <1>4
<1>6. NotOnlyAny(conds)
  <2>1. conds[i].op = "custom" /\ i \in DOMAIN conds
    BY <1>1, <1>2, <1>4, <1>5
  <2> QED
    BY <2>1 DEF NotOnlyAny
<1>7. i = j
  BY <1>3, <1>4, <1>6
<1> QED
  BY <1>5, <1>7

LEMMA RowsOfVendor ==
    ASSUME NEW vendor, NEW store, NEW match, NEW c
    PROVE  /\ vendor = "huawei" => RowsFor(vendor, store, match, c) = HuaweiMatch(store, c)
           /\ vendor = "iosxr" => RowsFor(vendor, store, match, c) = IosxrMatch(store, c)
           /\ vendor = "juniper" => RowsFor(vendor, store, match, c) = JuniperRows(store, match, c)
           /\ vendor \notin {"huawei", "iosxr", "juniper"} => RowsFor(vendor, store, match, c) = UnitedMatch(vendor, store, c)
<1>1. CASE vendor = "huawei"
  BY <1>1 DEF RowsFor
<1>2. CASE vendor = "iosxr"
  BY <1>2 DEF RowsFor
<1>3. CASE vendor = "juniper"
  BY <1>3 DEF RowsFor
<1>4. CASE vendor \notin {"huawei", "iosxr", "juniper"}
  BY <1>4 DEF RowsFor
<1> QED
  BY <1>1, <1>2, <1>3, <1>4

MatchTaken(vendor, ps, match) ==
    /\ Conds(match) /\ ToSet(match) \subseteq Conditions(ps) /\ OneEach(match)
    /\ vendor = "juniper" => OneType(match)
    /\ ~MatchRaises(vendor, match)

LEMMA ConditionMeans ==
    ASSUME NEW vendor, NEW store, NEW ps, NEW cfg, NEW r, Settled(vendor, store, ps, cfg, r),
           NEW match, MatchTaken(vendor, ps, match), NEW c \in ToSet(match)
    PROVE  RowsMean(vendor, store, cfg, r, c, RowsFor(vendor, store, match, c))
<1>1. vendor \in {"huawei", "arista", "cumulus", "iosxr", "juniper"} /\ c \in Conditions(ps)
  BY DEF Settled, Given, MatchMap, MatchTaken
<1>2. PICK i \in DOMAIN match : match[i] = c
  BY DEF ToSet
<1>3. CASE vendor = "huawei"
  <2>1. ~HuaweiMatchRaises(c)
    BY <1>2, <1>3 DEF MatchTaken, MatchRaises
  <2>2. RowsMean("huawei", store, cfg, r, c, HuaweiMatch(store, c))
    BY <1>1, <1>3, <2>1, HuaweiMeans
  <2> QED
    BY <1>3, <2>2, RowsOfVendor
<1>4. CASE vendor = "iosxr"
  <2>1. ~IosxrMatchRaises(c)
    BY <1>2, <1>4 DEF MatchTaken, MatchRaises
  <2>2. RowsMean("iosxr", store, cfg, r, c, IosxrMatch(store, c))
    BY <1>1, <1>4, <2>1, IosxrMeans
  <2> QED
    BY <1>4, <2>2, RowsOfVendor
<1>5. CASE vendor \in {"arista", "cumulus"}
  <2>1. ~UnitedMatchRaises(vendor, c)
    BY <1>2, <1>5 DEF MatchTaken, MatchRaises
  <2>2. RowsMean(vendor, store, cfg, r, c, UnitedMatch(vendor, store, c))
    BY <1>1, <1>5, <2>1, UnitedMeans
  <2> QED
    BY <1>5, <2>2, RowsOfVendor
<1>6. CASE vendor = "juniper"
  <2>1. ~JuniperMatchRaises(match) /\ OneType(match) /\ Conds(match) /\ ToSet(match) \subseteq Conditions(ps) /\ OneEach(match)
    BY <1>6 DEF MatchTaken, MatchRaises
  <2>2. RowsMean("juniper", store, cfg, r, c, JuniperRows(store, match, c))
    BY <1>6, <2>1, JuniperMeans
  <2> QED
    BY <1>6, <2>2, RowsOfVendor
<1> QED
  BY <1>1, <1>3, <1>4, <1>5, <1>6

LEMMA MatchRowsAre ==
    ASSUME NEW vendor, NEW store, NEW match, Conds(match),
           \A c \in ToSet(match) : Listed(RowsFor(vendor, store, match, c))
    PROVE  ToSet(MatchRows(vendor, store, match)) = UNION {ToSet(RowsFor(vendor, store, match, c)) : c \in ToSet(match)}
<1>1. CASE vendor = "juniper"
  <2>1. \A c \in ToSet(match) : RowsFor(vendor, store, match, c) = JuniperRows(store, match, c)
    BY <1>1, RowsOfVendor
  <2>2. ToSet(JuniperMatch(store, match)) = UNION {ToSet(JuniperRows(store, match, c)) : c \in ToSet(match)}
    BY <2>1, JuniperMatchIs
  <2> QED
    BY <1>1, <2>1, <2>2 DEF MatchRows
<1>2. CASE vendor # "juniper"
  <2> DEFINE rows(c) == CASE vendor = "huawei" -> HuaweiMatch(store, c)
                          [] vendor = "iosxr"  -> IosxrMatch(store, c)
                          [] OTHER             -> UnitedMatch(vendor, store, c)
             groups  == [i \in DOMAIN match |-> rows(match[i])]
             f       == [c \in ToSet(match) |-> RowsFor(vendor, store, match, c)]
  <2>1. \A c : rows(c) = RowsFor(vendor, store, match, c)
    <3> TAKE c
    <3>1. CASE vendor = "huawei"
      BY <3>1 DEF RowsFor
    <3>2. CASE vendor = "iosxr"
      BY <3>2 DEF RowsFor
    <3>3. CASE vendor \notin {"huawei", "iosxr", "juniper"}
      BY <3>3 DEF RowsFor
    <3> QED
      BY <1>2, <3>1, <3>2, <3>3
  <2>2. MatchRows(vendor, store, match) = FlattenSeq(groups)
    BY <1>2 DEF MatchRows, Rows
  <2> HIDE DEF rows
  <2>3. \A i \in DOMAIN match : match[i] \in ToSet(match)
    BY DEF ToSet
  <2>4. groups = [i \in DOMAIN match |-> groups[i]] /\ \A i \in DOMAIN match : groups[i] = f[match[i]]
    BY <2>1, <2>3
  <2>5. \A c \in ToSet(match) : f[c] = RowsFor(vendor, store, match, c) /\ Listed(f[c])
    OBVIOUS
  <2> HIDE DEF groups, f
  <2>6. ToSet(FlattenSeq(groups)) = UNION {ToSet(f[c]) : c \in ToSet(match)}
    BY <2>4, <2>5, GroupedRows DEF Conds
  <2>7. UNION {ToSet(f[c]) : c \in ToSet(match)} = UNION {ToSet(RowsFor(vendor, store, match, c)) : c \in ToSet(match)}
    BY <2>5
  <2> QED
    BY <2>2, <2>6, <2>7
<1> QED
  BY <1>1, <1>2

(* Rows of two conditions are of one kind only where neither has           *)
(* alternatives.                                                           *)
LEMMA KindsShared ==
    ASSUME NEW vendor \in DOMAIN MatchMap
    PROVE  /\ Alternatives(vendor) \subseteq Shared(vendor)
           /\ \A a, b : /\ a.kind \in Alternatives(vendor) /\ SameKind(vendor, a, b) => b.kind \in Shared(vendor)
                        /\ a.kind \in Alternatives(vendor) /\ SameKind(vendor, a, b) /\ vendor # "juniper" => a.kind = b.kind
           /\ vendor # "juniper" =>
                 /\ Alternatives(vendor) \subseteq {"BASIC", "RT", "ip_prefix", "ipv6_prefix"}
                 /\ \A a, b : SameKind(vendor, a, b) <=> a.kind = b.kind
           /\ vendor = "juniper" => \A a, b : {a.kind, b.kind} \subseteq Alternatives(vendor) => SameKind(vendor, a, b)
<1>1. vendor \in {"huawei", "arista", "cumulus", "iosxr", "juniper"}
  BY DEF MatchMap
<1>2. CASE vendor = "juniper"
  BY <1>2 DEF Alternatives, Shared, SameKind, PrefixKinds
<1>3. CASE vendor # "juniper"
  <2>1. \A a, b : SameKind(vendor, a, b) <=> a.kind = b.kind
    BY <1>3 DEF SameKind
  <2>2. Shared(vendor) = Alternatives(vendor)
    BY <1>3 DEF Shared
  <2>3. Alternatives(vendor) \subseteq {"BASIC", "RT", "ip_prefix", "ipv6_prefix"}
    BY <1>1, <1>3 DEF Alternatives
  <2> QED
    BY <1>3, <2>1, <2>2, <2>3
<1> QED
  BY <1>2, <1>3

LEMMA FieldsApart ==
    ASSUME NEW k \in {"BASIC", "RT", "ip_prefix", "ipv6_prefix"}, NEW l \in {"BASIC", "RT", "ip_prefix", "ipv6_prefix"},
           FieldOf[k] = FieldOf[l]
    PROVE  k = l
BY DEF FieldOf

(* Alternatives of one condition are of one kind.                          *)
LEMMA OneKind ==
    ASSUME NEW vendor \in DOMAIN MatchMap, NEW c, NEW a, NEW b,
           a.kind \in Alternatives(vendor), About(vendor, a.kind, c),
           b.kind \in Alternatives(vendor), About(vendor, b.kind, c)
    PROVE  SameKind(vendor, a, b)
<1>1. CASE vendor = "juniper"
  BY <1>1, KindsShared
<1>2. CASE vendor # "juniper"
  <2>1. a.kind \in {"BASIC", "RT", "ip_prefix", "ipv6_prefix"} /\ b.kind \in {"BASIC", "RT", "ip_prefix", "ipv6_prefix"}
    BY <1>2, KindsShared
  <2>2. FieldOf[a.kind] = FieldOf[b.kind]
    BY <1>2 DEF About
  <2>3. a.kind = b.kind
    BY <2>1, <2>2, FieldsApart
  <2> QED
    BY <2>3 DEF SameKind
<1> QED
  BY <1>1, <1>2

Means(vendor, store, cfg, r, match, S) ==
    \A c \in ToSet(match) :
        \/ /\ S[c] # {} /\ \A row \in S[c] : row.kind \in Alternatives(vendor) /\ About(vendor, row.kind, c)
           /\ Meant(store, c, r) <=> \E row \in S[c] : RowHolds(cfg, row, r)
        \/ /\ \A row \in S[c] : row.kind \notin Shared(vendor)
           /\ Meant(store, c, r) <=> \A row \in S[c] : RowHolds(cfg, row, r)

LEMMA TermOfRows ==
    ASSUME NEW vendor \in DOMAIN MatchMap, NEW store, NEW cfg, NEW r, NEW match, OneEach(match),
           vendor = "juniper" => OnePrefix(match),
           NEW S, Means(vendor, store, cfg, r, match, S),
           NEW t, ToSet(t.match) = UNION {S[c] : c \in ToSet(match)}
    PROVE  TermMatches(vendor, cfg, t, r) <=> Holding(store, match, r)
<1> DEFINE R == ToSet(t.match)
           Row(a) == IF a.kind \in Alternatives(vendor) THEN \E b \in R : SameKind(vendor, a, b) /\ RowHolds(cfg, b, r)
                     ELSE RowHolds(cfg, a, r)
<1>1. R = {t.match[i] : i \in DOMAIN t.match}
  BY DEF ToSet
<1>2. TermMatches(vendor, cfg, t, r) <=> \A a \in R : Row(a)
  <2>1. \A a : (\E j \in DOMAIN t.match : SameKind(vendor, a, t.match[j]) /\ RowHolds(cfg, t.match[j], r))
               <=> \E b \in R : SameKind(vendor, a, b) /\ RowHolds(cfg, b, r)
    BY <1>1
  <2>2. TermMatches(vendor, cfg, t, r) <=> \A i \in DOMAIN t.match : Row(t.match[i])
    BY <2>1 DEF TermMatches
  <2> HIDE DEF Row
  <2> QED
    BY <1>1, <2>2
<1>3. Holding(store, match, r) <=> \A c \in ToSet(match) : Meant(store, c, r)
  BY DEF Holding, ToSet
<1>4. \A a \in R : \E c \in ToSet(match) : a \in S[c]
  OBVIOUS
<1>5. \A c \in ToSet(match) : \A a \in S[c] : a \in R
  OBVIOUS
<1>6. \A c \in ToSet(match), d \in ToSet(match) : c.field = d.field => c = d
  BY DEF OneEach, ToSet
<1> DEFINE Any1(c) == /\ S[c] # {}
                      /\ \A row \in S[c] : row.kind \in Alternatives(vendor) /\ About(vendor, row.kind, c)
                      /\ Meant(store, c, r) <=> \E row \in S[c] : RowHolds(cfg, row, r)
           All1(c) == /\ \A row \in S[c] : row.kind \notin Shared(vendor)
                      /\ Meant(store, c, r) <=> \A row \in S[c] : RowHolds(cfg, row, r)
<1>7. \A c \in ToSet(match) : Any1(c) \/ All1(c)
  BY DEF Means
<1>8. Alternatives(vendor) \subseteq Shared(vendor)
  BY KindsShared
<1> HIDE DEF R
<1>9. ASSUME \A c \in ToSet(match) : Meant(store, c, r), NEW a \in R PROVE Row(a)
  <2>1. PICK c \in ToSet(match) : a \in S[c]
    BY <1>4
  <2>2. CASE Any1(c)
    <3>1. PICK b \in S[c] : RowHolds(cfg, b, r)
      BY <1>9, <2>2
    <3>2. SameKind(vendor, a, b)
      BY <2>1, <2>2, OneKind
    <3>3. a.kind \in Alternatives(vendor) /\ b \in R
      BY <1>5, <2>1, <2>2
    <3> QED
      BY <3>1, <3>2, <3>3
  <2>3. CASE All1(c)
    <3>1. a.kind \notin Alternatives(vendor) /\ RowHolds(cfg, a, r)
      BY <1>8, <1>9, <2>1, <2>3
    <3> QED
      BY <3>1
  <2> QED
    BY <1>7, <2>2, <2>3
<1>10. ASSUME \A a \in R : Row(a), NEW c \in ToSet(match) PROVE Meant(store, c, r)
  <2>1. CASE Any1(c)
    <3>1. PICK a \in S[c] : a.kind \in Alternatives(vendor) /\ About(vendor, a.kind, c)
      BY <2>1
    <3>2. Row(a)
      BY <1>5, <1>10
    <3>3. PICK b \in R : SameKind(vendor, a, b) /\ RowHolds(cfg, b, r)
      BY <3>1, <3>2
    <3>4. PICK d \in ToSet(match) : b \in S[d]
      BY <1>4
    <3>5. b.kind \in Shared(vendor)
      BY <3>1, <3>3, KindsShared
    <3>6. Any1(d)
      BY <1>7, <3>4, <3>5
    <3>7. b.kind \in Alternatives(vendor) /\ About(vendor, b.kind, d)
      BY <3>4, <3>6
    <3>8. c = d
      <4>1. CASE vendor = "juniper"
        <5>1. OfPrefix(c) /\ OfPrefix(d)
          BY <3>1, <3>7, <4>1 DEF About
        <5> QED
          BY <4>1, <5>1 DEF OnePrefix
      <4>2. CASE vendor # "juniper"
        <5>1. a.kind = b.kind
          BY <3>1, <3>3, <4>2, KindsShared
        <5>2. c.field = d.field
          BY <3>1, <3>7, <4>2, <5>1 DEF About
        <5> QED
          BY <1>6, <5>2
      <4> QED
        BY <4>1, <4>2
    <3> QED
      BY <2>1, <3>3, <3>4, <3>8
  <2>2. CASE All1(c)
    <3>1. \A a \in S[c] : RowHolds(cfg, a, r)
      <4> SUFFICES ASSUME NEW a \in S[c] PROVE RowHolds(cfg, a, r)
        OBVIOUS
      <4>1. a.kind \notin Alternatives(vendor) /\ Row(a)
        BY <1>5, <1>8, <1>10, <2>2
      <4> QED
        BY <4>1
    <3> QED
      BY <2>2, <3>1
  <2> QED
    BY <1>7, <2>1, <2>2
<1> HIDE DEF Row
<1> QED
  BY <1>2, <1>3, <1>9, <1>10

(* The match rows of a term, for each vendor, match the routes of which    *)
(* the conditions of its statement hold.                                   *)
LEMMA TermMeans ==
    ASSUME NEW vendor, NEW store, NEW ps, NEW cfg, NEW r, Settled(vendor, store, ps, cfg, r),
           NEW match, MatchTaken(vendor, ps, match),
           NEW t, ToSet(t.match) = ToSet(MatchRows(vendor, store, match))
    PROVE  TermMatches(vendor, cfg, t, r) <=> Holding(store, match, r)
<1> DEFINE S == [c \in ToSet(match) |-> ToSet(RowsFor(vendor, store, match, c))]
<1>1. vendor \in DOMAIN MatchMap /\ OneEach(match) /\ Conds(match)
  BY DEF Settled, Given, MatchTaken
<1>2. vendor = "juniper" => OnePrefix(match)
  <2> SUFFICES ASSUME vendor = "juniper" PROVE OnePrefix(match)
    OBVIOUS
  <2>1. ~JuniperMatchRaises(match) /\ Conds(match) /\ ToSet(match) \subseteq Conditions(ps)
    BY DEF MatchTaken, MatchRaises
  <2>2. Settled("juniper", store, ps, cfg, r)
    OBVIOUS
  <2> QED
    BY <2>1, <2>2, JuniperOnePrefix
<1>3. \A c \in ToSet(match) : RowsMean(vendor, store, cfg, r, c, RowsFor(vendor, store, match, c))
  BY ConditionMeans
<1>4. \A c \in ToSet(match) : Listed(RowsFor(vendor, store, match, c))
  BY <1>3 DEF RowsMean
<1>5. ToSet(MatchRows(vendor, store, match)) = UNION {ToSet(RowsFor(vendor, store, match, c)) : c \in ToSet(match)}
  BY <1>1, <1>4, MatchRowsAre
<1>6. \A c \in ToSet(match) : S[c] = ToSet(RowsFor(vendor, store, match, c))
  OBVIOUS
<1>7. ToSet(t.match) = UNION {S[c] : c \in ToSet(match)}
  BY <1>5, <1>6
<1> HIDE DEF S
<1>8. Means(vendor, store, cfg, r, match, S)
  <2> SUFFICES ASSUME NEW c \in ToSet(match)
               PROVE  \/ /\ S[c] # {} /\ \A row \in S[c] : row.kind \in Alternatives(vendor) /\ About(vendor, row.kind, c)
                         /\ Meant(store, c, r) <=> \E row \in S[c] : RowHolds(cfg, row, r)
                      \/ /\ \A row \in S[c] : row.kind \notin Shared(vendor)
                         /\ Meant(store, c, r) <=> \A row \in S[c] : RowHolds(cfg, row, r)
    BY DEF Means
  <2> DEFINE rows == RowsFor(vendor, store, match, c)
  <2>1. RowsMean(vendor, store, cfg, r, c, rows) /\ S[c] = ToSet(rows)
    BY <1>3, <1>6
  <2> HIDE DEF rows
  <2> QED
    BY <2>1 DEF RowsMean, AnyMeans, AllMean
<1> QED
  BY <1>1, <1>2, <1>7, <1>8, TermOfRows

-----------------------------------------------------------------------------
(* The rows of actions give no verdict.                                    *)
Quiet(rows) == Listed(rows) /\ \A row \in ToSet(rows) : row.what # "result"

LEMMA QuietOne ==
    ASSUME NEW row, row.what # "result"
    PROVE  Quiet(<<row>>) /\ \A test : Quiet(If(test, <<row>>))
BY OneElement, NoElements DEF Quiet, If

LEMMA QuietFew ==
    /\ \A test, how, scope, vals : Quiet(If(test, <<Literal(how, scope, vals)>>))
    /\ \A test, how, items : Quiet(If(test, <<Path(how, items)>>))
    /\ \A test, how, scope, kind, names : Quiet(If(test, <<ByLists(how, scope, kind, names)>>))
    /\ \A how, scope, vals : Quiet(<<Literal(how, scope, vals)>>)
    /\ \A a : a.field # "result" => Quiet(Setting(a))
    /\ \A a, silent : Quiet(NextHop(a, silent))
<1>1. \A how, scope, vals : Literal(how, scope, vals).what # "result"
  BY DEF Literal, NoRow
<1>2. \A how, items : Path(how, items).what # "result"
  BY DEF Path, NoRow
<1>3. \A how, scope, kind, names : ByLists(how, scope, kind, names).what # "result"
  BY DEF ByLists, NoRow
<1>4. \A a : a.field # "result" => Number(a.field, a.type, a.v.num).what # "result"
  BY DEF Number, NoRow
<1>5. \A items : [NoRow EXCEPT !.what = "next_hop", !.items = items].what # "result"
  BY DEF NoRow
<1>6. \A a, silent : Quiet(NextHop(a, silent))
  BY <1>5, QuietOne DEF NextHop
<1>7. \A a : a.field # "result" => Quiet(Setting(a))
  BY <1>4, QuietOne DEF Setting
<1> QED
  BY <1>1, <1>2, <1>3, <1>6, <1>7, QuietOne

LEMMA QuietJoined ==
    ASSUME NEW s, NEW t, Quiet(s), Quiet(t)
    PROVE  Quiet(s \o t)
BY ListsJoined DEF Quiet

LEMMA QuietEach ==
    ASSUME NEW names, Listed(names), NEW rows, rows = [i \in DOMAIN names |-> rows[i]],
           \A i \in DOMAIN names : rows[i].what # "result"
    PROVE  Quiet(rows)
<1>1. Len(names) \in Nat /\ DOMAIN names = 1 .. Len(names)
  BY ListIs
<1>2. Listed(rows) /\ ToSet(rows) = {rows[i] : i \in 1 .. Len(names)}
  BY <1>1, Indexed
<1> QED
  BY <1>1, <1>2 DEF Quiet

LEMMA QuietNames ==
    ASSUME NEW names, Listed(names)
    PROVE  /\ \A how, scope, kind : Quiet(PerName(how, scope, kind, names))
           /\ \A how : Quiet(PathEach(how, names))
<1>1. ASSUME NEW how, NEW scope, NEW kind PROVE Quiet(PerName(how, scope, kind, names))
  <2> DEFINE rows == PerName(how, scope, kind, names)
  <2>1. rows = [i \in DOMAIN names |-> rows[i]] /\ \A i \in DOMAIN names : rows[i].what # "result"
    BY DEF PerName, ByLists, NoRow
  <2> HIDE DEF rows
  <2>2. Quiet(rows)
    BY <2>1, QuietEach
  <2> QED
    BY <2>2 DEF rows
<1>2. ASSUME NEW how PROVE Quiet(PathEach(how, names))
  <2> DEFINE rows == PathEach(how, names)
  <2>1. rows = [i \in DOMAIN names |-> rows[i]] /\ \A i \in DOMAIN names : rows[i].what # "result"
    BY DEF PathEach, Rows, Path, NoRow
  <2> HIDE DEF rows
  <2>2. Quiet(rows)
    BY <2>1, QuietEach
  <2> QED
    BY <2>2 DEF rows
<1> QED
  BY <1>1, <1>2

LEMMA QuietFlat ==
    ASSUME NEW n \in Nat, NEW groups, groups = [i \in 1 .. n |-> groups[i]], \A i \in 1 .. n : Quiet(groups[i])
    PROVE  Quiet(FlattenSeq(groups))
<1>1. Listed(FlattenSeq(groups)) /\ ToSet(FlattenSeq(groups)) = UNION {ToSet(groups[i]) : i \in 1 .. n}
  BY Collected DEF Quiet
<1> QED
  BY <1>1 DEF Quiet

LEMMA QuietTypes ==
    ASSUME NEW store, NEW how, NEW names
    PROVE  Quiet(ByType(store, how, names))
<1> DEFINE types == <<"RT", "SOO">>
           One(t) == If(OfType(store, names, t) # <<>>, <<Literal(how, {t}, MembersAs(store, t, OfType(store, names, t)))>>)
           each  == [i \in DOMAIN types |-> One(types[i])]
<1>1. 2 \in Nat /\ DOMAIN types = 1 .. 2
  OBVIOUS
<1>2. \A t : Quiet(One(t))
  BY QuietFew
<1>3. ByType(store, how, names) = FlattenSeq(each)
  BY DEF ByType, Rows
<1> HIDE DEF One, types
<1>4. each = [i \in 1 .. 2 |-> each[i]] /\ \A i \in 1 .. 2 : Quiet(each[i])
  BY <1>1, <1>2
<1> HIDE DEF each
<1> QED
  BY <1>1, <1>3, <1>4, QuietFlat

(* No vendor sets a field of that name.                                    *)
LEMMA NoResultField ==
    ASSUME NEW vendor \in DOMAIN MatchMap, NEW store, NEW then, ~ThenRaises(vendor, store, then), NEW i \in DOMAIN then
    PROVE  then[i].field # "result"
<1> DEFINE a == then[i]
<1> SUFFICES ASSUME a.field = "result" PROVE FALSE
  OBVIOUS
<1>1. vendor \in {"huawei", "arista", "cumulus", "iosxr", "juniper"}
  BY DEF MatchMap
<1>2. ~PlainAction(vendor, a)
  <2>1. "result" \notin ThenMap[vendor]
    BY <1>1 DEF ThenMap
  <2> QED
    BY <2>1 DEF PlainAction
<1>3. CASE vendor = "huawei"
  <2>1. HuaweiThenRaises(store, a)
    BY <1>2, <1>3 DEF HuaweiThenRaises
  <2> QED
    BY <1>3, <2>1 DEF ThenRaises
<1>4. CASE vendor = "arista"
  <2>1. AristaThenRaises(store, a)
    BY <1>2, <1>4 DEF AristaThenRaises
  <2> QED
    BY <1>4, <2>1 DEF ThenRaises
<1>5. CASE vendor = "cumulus"
  <2>1. CumulusThenRaises(store, a)
    BY <1>2, <1>5 DEF CumulusThenRaises
  <2> QED
    BY <1>5, <2>1 DEF ThenRaises
<1>6. CASE vendor = "iosxr"
  <2>1. IosxrThenRaises(store, a)
    BY <1>2, <1>6 DEF IosxrThenRaises
  <2> QED
    BY <1>6, <2>1 DEF ThenRaises
<1>7. CASE vendor = "juniper"
  <2>1. JuniperThenRaises(a)
    BY <1>2, <1>7 DEF JuniperThenRaises, CommunityActions
  <2> QED
    BY <1>7, <2>1 DEF ThenRaises
<1> QED
  BY <1>1, <1>3, <1>4, <1>5, <1>6, <1>7

Worded(v) == Listed(v.set) /\ Listed(v.added) /\ Listed(v.removed)

LEMMA HuaweiQuiet ==
    ASSUME NEW store, NEW a, Worded(a.v), a.field # "result"
    PROVE  Quiet(HuaweiThen(store, a))
<1> DEFINE v == a.v
<1>1. Listed(v.set) /\ Listed(v.added) /\ Listed(v.removed)
  BY DEF Worded
<1>2. CASE a.field = "community"
  <2>1. HuaweiThen(store, a) = If(v.replaced, <<Literal("set", {"BASIC"}, MembersAs(store, "BASIC", v.set))>>)
                \o If(v.added # <<>>, <<Literal("add", {"BASIC"}, MembersAs(store, "BASIC", v.added))>>)
                \o PerName("del", {"BASIC"}, "BASIC", v.removed)
    BY <1>2 DEF HuaweiThen, PerName, Rows
  <2> QED
    BY <1>1, <2>1, QuietFew, QuietNames, QuietJoined
<1>3. CASE a.field = "large_community"
  <2>1. HuaweiThen(store, a) = If(v.replaced, <<Literal("set", {"LARGE"}, MembersAs(store, "LARGE", v.set))>>)
                \o If(v.added # <<>>, <<Literal("add", {"LARGE"}, MembersAs(store, "LARGE", v.added))>>)
                \o If(v.removed # <<>>, <<Literal("del", {"LARGE"}, MembersAs(store, "LARGE", v.removed))>>)
    BY <1>3 DEF HuaweiThen
  <2> QED
    BY <2>1, QuietFew, QuietJoined
<1>4. CASE a.field = "extcommunity_rt"
  <2>1. HuaweiThen(store, a) = If(v.added # <<>>, <<Literal("add", {"RT"}, MembersAs(store, "RT", v.added))>>)
                \o PerName("del", {"RT"}, "RT", v.removed)
    BY <1>4 DEF HuaweiThen, PerName, Rows
  <2> QED
    BY <1>1, <2>1, QuietFew, QuietNames, QuietJoined
<1>5. CASE a.field = "extcommunity_soo"
  BY <1>5, QuietFew DEF HuaweiThen
<1>6. CASE a.field = "extcommunity"
  <2>1. HuaweiThen(store, a) = ByType(store, "set", v.set) \o ByType(store, "add", v.added)
    BY <1>6 DEF HuaweiThen
  <2> QED
    BY <2>1, QuietTypes, QuietJoined
<1>7. CASE a.field = "as_path"
  <2>1. HuaweiThen(store, a) = If(v.replaced, <<Path("set", v.set)>>) \o If(v.added # <<>>, <<Path("prepend", v.added)>>)
                                   \o PathEach("delete", v.removed)
    BY <1>7 DEF HuaweiThen
  <2> QED
    BY <1>1, <2>1, QuietFew, QuietNames, QuietJoined
<1>8. CASE a.field \notin {"community", "large_community", "extcommunity_rt", "extcommunity_soo", "extcommunity", "as_path"}
  BY <1>8, QuietFew DEF HuaweiThen
<1> QED
  BY <1>2, <1>3, <1>4, <1>5, <1>6, <1>7, <1>8

LEMMA AristaQuiet ==
    ASSUME NEW store, NEW a, Worded(a.v), a.field # "result"
    PROVE  Quiet(AristaThen(store, a))
<1> DEFINE v == a.v
<1>1. Listed(v.set) /\ Listed(v.added) /\ Listed(v.removed)
  BY DEF Worded
<1>2. CASE a.field = "community"
  <2>1. AristaThen(store, a) = If(v.replaced, <<ByLists("set", {"BASIC"}, "BASIC", Rows(v.set, Single))>>)
                \o If(v.added # <<>>, <<ByLists("add", {"BASIC"}, "BASIC", Rows(v.added, Single))>>)
                \o If(v.removed # <<>>, <<Literal("del", {"BASIC"}, MembersAs(store, "BASIC", v.removed))>>)
    BY <1>2 DEF AristaThen
  <2> QED
    BY <2>1, QuietFew, QuietJoined
<1>3. CASE a.field = "large_community"
  <2> DEFINE sets == [i \in DOMAIN v.set |-> ByLists(IF i = 1 THEN "set" ELSE "add", {"LARGE"}, "LARGE", <<Single(v.set[i])>>)]
  <2>1. AristaThen(store, a) = If(v.replaced /\ v.set = <<>>, <<ByLists("set", {"LARGE"}, "LARGE", <<>>)>>)
                \o sets
                \o If(v.added # <<>>, <<ByLists("add", {"LARGE"}, "LARGE", Rows(v.added, Single))>>)
                \o If(v.removed # <<>>, <<ByLists("del", {"LARGE"}, "LARGE", Rows(v.removed, Single))>>)
    BY <1>3 DEF AristaThen
  <2>2. sets = [i \in DOMAIN v.set |-> sets[i]] /\ \A i \in DOMAIN v.set : sets[i].what # "result"
    BY DEF ByLists, NoRow
  <2> HIDE DEF sets
  <2>3. Quiet(sets)
    BY <1>1, <2>2, QuietEach
  <2> QED
    BY <2>1, <2>3, QuietFew, QuietJoined
<1>4. CASE a.field \in {"extcommunity_rt", "extcommunity_soo"}
  <2> DEFINE t == TypeOf[a.field]
  <2>1. AristaThen(store, a) = If(v.added # <<>>, <<Literal("add", {t}, MembersAs(store, t, v.removed))>>)
                                  \o If(v.removed # <<>>, <<Literal("del", {t}, MembersAs(store, t, v.removed))>>)
    BY <1>4 DEF AristaThen
  <2> QED
    BY <2>1, QuietFew, QuietJoined
<1>5. CASE a.field = "extcommunity"
  <2>1. AristaThen(store, a) =
            If(v.replaced, <<Literal("set", IF v.set = <<>> THEN {"RT", "SOO"} ELSE TypesOf(store, v.set), OwnTypes(store, v.set))>>)
                \o If(v.added # <<>>, <<Literal("add", {"RT", "SOO"}, OwnTypes(store, v.added))>>)
                \o If(v.removed # <<>>, <<Literal("del", {"RT", "SOO"}, OwnTypes(store, v.removed))>>)
    BY <1>5 DEF AristaThen
  <2> QED
    BY <2>1, QuietFew, QuietJoined
<1>6. CASE a.field = "as_path"
  <2>1. AristaThen(store, a) = If(v.replaced, <<Path("set", v.set)>>) \o If(v.added # <<>>, <<Path("prepend", v.added)>>)
                                   \o If(v.last # <<>>, <<Path("last", v.last)>>)
    BY <1>6 DEF AristaThen
  <2> QED
    BY <2>1, QuietFew, QuietJoined
<1>7. CASE a.field \notin {"community", "large_community", "extcommunity_rt", "extcommunity_soo", "extcommunity", "as_path"}
  BY <1>7, QuietFew DEF AristaThen
<1> QED
  BY <1>2, <1>3, <1>4, <1>5, <1>6, <1>7

LEMMA CumulusQuiet ==
    ASSUME NEW store, NEW a, Worded(a.v), a.field # "result"
    PROVE  Quiet(CumulusThen(store, a))
<1> DEFINE v == a.v
<1>1. Listed(v.set) /\ Listed(v.added) /\ Listed(v.removed)
  BY DEF Worded
<1>2. CASE a.field = "community"
  <2>1. CumulusThen(store, a) = If(v.replaced, <<Literal("set", {"BASIC"}, MembersAs(store, "BASIC", v.set))>>)
                \o If(v.added # <<>>, <<Literal("add", {"BASIC"}, MembersAs(store, "BASIC", v.added))>>)
                \o PerName("del", {"BASIC"}, "BASIC", v.removed)
    BY <1>2 DEF CumulusThen, PerName, Rows
  <2> QED
    BY <1>1, <2>1, QuietFew, QuietNames, QuietJoined
<1>3. CASE a.field \in {"large_community", "extcommunity_rt", "extcommunity_soo"}
  <2> DEFINE rows == [i \in DOMAIN v.added |-> Literal("add", {TypeOf[a.field]}, {<<TypeOf[a.field], v.added[i]>>})]
  <2>1. CumulusThen(store, a) = rows
    BY <1>3 DEF CumulusThen, Rows
  <2>2. rows = [i \in DOMAIN v.added |-> rows[i]] /\ \A i \in DOMAIN v.added : rows[i].what # "result"
    BY DEF Literal, NoRow
  <2> HIDE DEF rows
  <2> QED
    BY <1>1, <2>1, <2>2, QuietEach
<1>4. CASE a.field = "extcommunity"
  <2>1. CumulusThen(store, a) = IF v.set = <<>> THEN <<Literal("set", {"RT", "SOO"}, {})>> ELSE ByType(store, "set", v.set)
    BY <1>4 DEF CumulusThen
  <2> QED
    BY <2>1, QuietFew, QuietTypes
<1>5. CASE a.field = "as_path"
  <2>1. CumulusThen(store, a) = PathEach("prepend", v.added) \o PathEach("delete", v.removed)
                \o If(v.replaced, <<Path("set", <<>>)>>) \o PathEach("prepend", v.set)
                \o If(v.last # <<>>, <<Path("last", v.last)>>)
    BY <1>5 DEF CumulusThen
  <2> QED
    BY <1>1, <2>1, QuietFew, QuietNames, QuietJoined
<1>6. CASE a.field \notin {"community", "large_community", "extcommunity_rt", "extcommunity_soo", "extcommunity", "as_path"}
  BY <1>6, QuietFew DEF CumulusThen
<1> QED
  BY <1>2, <1>3, <1>4, <1>5, <1>6

LEMMA IosxrQuiet ==
    ASSUME NEW a, Worded(a.v), a.field # "result"
    PROVE  Quiet(IosxrThen(a))
<1> DEFINE v == a.v
           type  == IF a.field = "community" THEN "BASIC" ELSE "RT"
           named == v.set \o v.added
<1>1. Listed(named) /\ Listed(v.added) /\ Listed(v.removed)
  BY ListsJoined DEF Worded
<1>2. CASE a.field \in {"community", "extcommunity"}
  <2>1. IosxrThen(a) = If(v.replaced, <<Literal("set", {type}, {})>>)
                           \o PerName("add", {type}, type, named)
                           \o PerName("del", {type}, type, v.removed)
    BY <1>2 DEF IosxrThen, PerName, Rows
  <2> HIDE DEF type, named
  <2> QED
    BY <1>1, <2>1, QuietFew, QuietNames, QuietJoined
<1> HIDE DEF named, type
<1>3. CASE a.field = "as_path"
  BY <1>1, <1>3, QuietNames DEF IosxrThen
<1>4. CASE a.field \notin {"community", "extcommunity", "as_path"}
  BY <1>4, QuietFew DEF IosxrThen
<1> QED
  BY <1>2, <1>3, <1>4

LEMMA JuniperQuiet ==
    ASSUME NEW store, NEW a, Worded(a.v), a.field # "result"
    PROVE  Quiet(JuniperThen(store, a))
<1> DEFINE v == a.v
           By(how, names) == Rows(names, LAMBDA n : ByLists(how, TypesOf(store, <<n>>), "community", <<Single(n)>>))
<1>1. Listed(v.set) /\ Listed(v.added) /\ Listed(v.removed)
  BY DEF Worded
<1>2. CASE a.field \in CommunityActions
  <2>1. JuniperThen(store, a) = By("del", v.removed) \o By("set", v.set) \o By("add", v.added)
    BY <1>2 DEF JuniperThen, CommunityActions
  <2>2. ASSUME NEW how, NEW names, Listed(names) PROVE Quiet(By(how, names))
    <3> DEFINE rows == By(how, names)
    <3>1. rows = [i \in DOMAIN names |-> rows[i]] /\ \A i \in DOMAIN names : rows[i].what # "result"
      BY DEF Rows, ByLists, NoRow
    <3> HIDE DEF rows
    <3>2. Quiet(rows)
      BY <2>2, <3>1, QuietEach
    <3> QED
      BY <3>2 DEF rows
  <2> HIDE DEF By
  <2>3. Quiet(By("del", v.removed)) /\ Quiet(By("set", v.set)) /\ Quiet(By("add", v.added))
    BY <1>1, <2>2
  <2> QED
    BY <2>1, <2>3, QuietJoined
<1>3. CASE a.field = "as_path"
  <2>1. JuniperThen(store, a) = If(v.added # <<>>, <<Path("prepend", v.added)>>)
                                    \o If(v.expand # <<>>, <<Path("expand", v.expand)>>)
                                    \o If(v.last # <<>>, <<Path("last", v.last)>>)
    BY <1>3 DEF JuniperThen, CommunityActions
  <2> QED
    BY <2>1, QuietFew, QuietJoined
<1>4. CASE a.field \notin CommunityActions \cup {"as_path"}
  BY <1>4, QuietFew DEF JuniperThen, CommunityActions
<1> QED
  BY <1>2, <1>3, <1>4

LEMMA ActionsQuiet ==
    ASSUME NEW vendor \in DOMAIN MatchMap, NEW store, NEW then, Deeds(then), ~ThenRaises(vendor, store, then)
    PROVE  Quiet(ThenRows(vendor, store, then))
<1> DEFINE done  == IF vendor = "juniper" THEN JuniperSorted(then) ELSE then
           m     == Len(done)
           One(a) == CASE vendor = "huawei"  -> HuaweiThen(store, a)
                       [] vendor = "arista"  -> AristaThen(store, a)
                       [] vendor = "cumulus" -> CumulusThen(store, a)
                       [] vendor = "iosxr"   -> IosxrThen(a)
                       [] vendor = "juniper" -> JuniperThen(store, a)
           each  == [i \in DOMAIN done |-> One(done[i])]
<1>1. vendor \in {"huawei", "arista", "cumulus", "iosxr", "juniper"}
  BY DEF MatchMap
<1>2. Listed(then) /\ \A a \in ToSet(then) : Worded(a.v) /\ a.field # "result"
  <2>1. \A a \in ToSet(then) : Worded(a.v)
    BY DEF Deeds, IsAction, IsValue, Worded
  <2>2. \A i \in DOMAIN then : then[i].field # "result"
    BY NoResultField
  <2> QED
    BY <2>1, <2>2 DEF Deeds, ToSet
<1>3. Listed(done) /\ ToSet(done) \subseteq ToSet(then)
  BY <1>2, Sorted1
<1>4. m \in Nat /\ DOMAIN done = 1 .. m /\ \A i \in 1 .. m : done[i] \in ToSet(then)
  BY <1>3, ListIs
<1>5. ASSUME NEW a \in ToSet(then) PROVE Quiet(One(a))
  <2>1. CASE vendor = "huawei"
    BY <1>2, <2>1, HuaweiQuiet
  <2>2. CASE vendor = "arista"
    BY <1>2, <2>2, AristaQuiet
  <2>3. CASE vendor = "cumulus"
    BY <1>2, <2>3, CumulusQuiet
  <2>4. CASE vendor = "iosxr"
    BY <1>2, <2>4, IosxrQuiet
  <2>5. CASE vendor = "juniper"
    BY <1>2, <2>5, JuniperQuiet
  <2> QED
    BY <1>1, <2>1, <2>2, <2>3, <2>4, <2>5
<1>6. ThenRows(vendor, store, then) = FlattenSeq(each)
  BY DEF ThenRows, Rows
<1> HIDE DEF One, done
<1>7. each = [i \in 1 .. m |-> each[i]] /\ \A i \in 1 .. m : Quiet(each[i])
  BY <1>4, <1>5
<1> HIDE DEF each, m
<1> QED
  BY <1>4, <1>6, <1>7, QuietFlat

-----------------------------------------------------------------------------
(* Where the elements of a sequence put together come from: owners rise.   *)
Owns(own, pieces, k, f) ==
    /\ Listed(f) /\ own \in [1 .. Len(f) -> 1 .. k]
    /\ \A a, b \in 1 .. Len(f) : a <= b => own[a] <= own[b]
    /\ \A a \in 1 .. Len(f) : f[a] \in ToSet(pieces[own[a]])
    /\ \A i \in 1 .. k : \A x \in ToSet(pieces[i]) : \E a \in 1 .. Len(f) : own[a] = i /\ f[a] = x

LEMMA OwnsFirst ==
    ASSUME NEW pieces, NEW f, Listed(f), f = pieces[1]
    PROVE  \E own : Owns(own, pieces, 1, f)
<1> DEFINE own == [a \in 1 .. Len(f) |-> 1]
<1>1. Len(f) \in Nat /\ DOMAIN f = 1 .. Len(f) /\ ToSet(f) = {f[a] : a \in 1 .. Len(f)}
  BY ListIs
<1>2. \A i \in 1 .. 1 : i = 1
  OBVIOUS
<1>3. 1 \in 1 .. 1
  OBVIOUS
<1>4. own \in [1 .. Len(f) -> 1 .. 1] /\ \A a \in 1 .. Len(f) : own[a] = 1
  BY <1>3
<1> HIDE DEF own
<1>5. Owns(own, pieces, 1, f)
  <2>1. \A a, b \in 1 .. Len(f) : a <= b => own[a] <= own[b]
    BY <1>4
  <2>2. \A a \in 1 .. Len(f) : f[a] \in ToSet(pieces[own[a]])
    BY <1>1, <1>4
  <2>3. \A i \in 1 .. 1 : \A x \in ToSet(pieces[i]) : \E a \in 1 .. Len(f) : own[a] = i /\ f[a] = x
    BY <1>1, <1>2, <1>4
  <2> QED
    BY <1>4, <2>1, <2>2, <2>3 DEF Owns
<1> QED
  BY <1>5

LEMMA OwnsMore ==
    ASSUME NEW pieces, NEW k \in Nat, NEW f, NEW old, Owns(old, pieces, k, f), NEW p, p = pieces[k + 1], Listed(p)
    PROVE  \E own : Owns(own, pieces, k + 1, f \o p)
<1> DEFINE g == f \o p  m == Len(f)  l == Len(p)
           own == [a \in 1 .. m + l |-> IF a \in 1 .. m THEN old[a] ELSE k + 1]
<1>1. /\ Listed(f) /\ old \in [1 .. m -> 1 .. k]
      /\ \A a, b \in 1 .. m : a <= b => old[a] <= old[b]
      /\ \A a \in 1 .. m : f[a] \in ToSet(pieces[old[a]])
      /\ \A i \in 1 .. k : \A x \in ToSet(pieces[i]) : \E a \in 1 .. m : old[a] = i /\ f[a] = x
  BY DEF Owns
<1>2. /\ Listed(g) /\ m \in Nat /\ l \in Nat /\ Len(g) = m + l
      /\ \A i \in 1 .. m : g[i] = f[i]
      /\ \A i \in m + 1 .. m + l : g[i] = p[i - m] /\ p[i - m] \in ToSet(p)
  <2>1. Listed(f) /\ Listed(p)
    BY <1>1
  <2>2. /\ Listed(f \o p)
        /\ Len(f) \in Nat /\ Len(p) \in Nat /\ Len(f \o p) = Len(f) + Len(p)
        /\ \A i \in 1 .. Len(f) : (f \o p)[i] = f[i] /\ f[i] \in ToSet(f)
        /\ \A i \in Len(f) + 1 .. Len(f) + Len(p) : (f \o p)[i] = p[i - Len(f)] /\ p[i - Len(f)] \in ToSet(p)
    BY <2>1, ListsJoined
  <2> HIDE DEF g
  <2>3. g = f \o p
    BY DEF g
  <2> QED
    BY <2>2, <2>3
<1>3. \A x \in ToSet(p) : \E i \in 1 .. l : p[i] = x
  BY ListIs
<1> HIDE DEF g
<1>4. \A a \in 1 .. m + l : a \in 1 .. m \/ a \in m + 1 .. m + l
  BY <1>2
<1>5. \A a \in m + 1 .. m + l : a \in 1 .. m + l /\ a \notin 1 .. m
  BY <1>2
<1>6. \A a \in 1 .. m : a \in 1 .. m + l
  BY <1>2
<1>7. /\ \A a \in 1 .. m : own[a] = old[a] /\ old[a] \in 1 .. k
      /\ \A a \in m + 1 .. m + l : own[a] = k + 1
  BY <1>1, <1>5, <1>6
<1>8. own \in [1 .. m + l -> 1 .. k + 1]
  <2>1. k + 1 \in 1 .. k + 1 /\ \A i \in 1 .. k : i \in 1 .. k + 1
    OBVIOUS
  <2> QED
    BY <1>1, <2>1
<1> HIDE DEF own, m, l
<1>9. \A a, b \in 1 .. m + l : a <= b => own[a] <= own[b]
  <2> SUFFICES ASSUME NEW a \in 1 .. m + l, NEW b \in 1 .. m + l, a <= b PROVE own[a] <= own[b]
    OBVIOUS
  <2>1. CASE a \in 1 .. m /\ b \in 1 .. m
    BY <1>1, <1>7, <2>1
  <2>2. CASE a \in 1 .. m /\ b \in m + 1 .. m + l
    BY <1>7, <2>2
  <2>3. CASE a \in m + 1 .. m + l /\ b \in m + 1 .. m + l
    BY <1>7, <2>3
  <2>4. CASE a \in m + 1 .. m + l /\ b \in 1 .. m
    BY <1>2, <2>4
  <2> QED
    BY <1>4, <2>1, <2>2, <2>3, <2>4
<1>10. \A a \in 1 .. m + l : g[a] \in ToSet(pieces[own[a]])
  <2> SUFFICES ASSUME NEW a \in 1 .. m + l PROVE g[a] \in ToSet(pieces[own[a]])
    OBVIOUS
  <2>1. CASE a \in 1 .. m
    BY <1>1, <1>2, <1>7, <2>1
  <2>2. CASE a \in m + 1 .. m + l
    BY <1>2, <1>7, <2>2
  <2> QED
    BY <1>4, <2>1, <2>2
<1>11. \A i \in 1 .. k + 1 : \A x \in ToSet(pieces[i]) : \E a \in 1 .. m + l : own[a] = i /\ g[a] = x
  <2> SUFFICES ASSUME NEW i \in 1 .. k + 1, NEW x \in ToSet(pieces[i])
               PROVE  \E a \in 1 .. m + l : own[a] = i /\ g[a] = x
    OBVIOUS
  <2>1. CASE i \in 1 .. k
    <3>1. PICK a \in 1 .. m : old[a] = i /\ f[a] = x
      BY <1>1, <2>1
    <3> QED
      BY <1>2, <1>6, <1>7, <3>1
  <2>2. CASE i = k + 1
    <3>1. PICK j \in 1 .. l : p[j] = x
      BY <1>3, <2>2
    <3>2. m + j \in m + 1 .. m + l /\ (m + j) - m = j
      BY <1>2
    <3> QED
      BY <1>2, <1>5, <1>7, <2>2, <3>1, <3>2
  <2> QED
    BY <2>1, <2>2
<1>12. Owns(own, pieces, k + 1, g)
  BY <1>2, <1>8, <1>9, <1>10, <1>11 DEF Owns
<1> QED
  BY <1>12 DEF g

LEMMA Owners ==
    ASSUME NEW n \in Nat, NEW pieces, pieces = [i \in 1 .. n |-> pieces[i]], \A i \in 1 .. n : Listed(pieces[i])
    PROVE  \E own : Owns(own, pieces, n, FlattenSeq(pieces))
<1>1. Listed(pieces) /\ Len(pieces) = n /\ DOMAIN pieces = 1 .. n
  BY Indexed
<1>2. CASE n = 0
  <2>1. pieces = <<>>
    BY <1>1, <1>2 DEF Listed
  <2>2. FlattenSeq(pieces) = <<>>
    BY <2>1 DEF FlattenSeq
  <2>3. Listed(<<>>) /\ Len(<<>>) = 0 /\ \A a : a \notin 1 .. 0
    BY NoElements
  <2> DEFINE own == [a \in 1 .. 0 |-> 1]
  <2>4. own \in [1 .. 0 -> 1 .. 0]
    OBVIOUS
  <2> HIDE DEF own
  <2>5. Owns(own, pieces, 0, <<>>)
    BY <2>3, <2>4 DEF Owns
  <2> QED
    BY <1>2, <2>2, <2>5
<1>3. CASE n # 0
  <2> DEFINE f == CHOOSE g : Flattened(pieces, n, g)
             S == {0} \cup {k \in 1 .. n : \E own : Owns(own, pieces, k, f[k])}
  <2>1. Flattened(pieces, n, f)
    BY <1>3, FlattenedExists
  <2>2. FlattenSeq(pieces) = f[n]
    BY <1>1, <1>3 DEF FlattenSeq, Flattened
  <2> HIDE DEF f
  <2>3. \A k \in 1 .. n : f[k] = IF k = 1 THEN pieces[k] ELSE f[k - 1] \o pieces[k]
    BY <2>1 DEF Flattened
  <2>4. \A i \in 1 .. n : i - 1 \in S => i \in S
    <3> SUFFICES ASSUME NEW i \in 1 .. n, i - 1 \in S PROVE i \in S
      OBVIOUS
    <3>1. CASE i = 1
      <4>1. f[1] = pieces[1] /\ Listed(f[1])
        BY <2>3, <3>1
      <4>2. \E own : Owns(own, pieces, 1, f[1])
        BY <4>1, OwnsFirst
      <4> QED
        BY <3>1, <4>2
    <3>2. CASE i # 1
      <4> DEFINE k == i - 1
      <4>1. k \in 1 .. n /\ k \in Nat /\ k + 1 = i
        BY <3>2
      <4>2. PICK old : Owns(old, pieces, k, f[k])
        <5>1. i - 1 \in {0} \cup {j \in 1 .. n : \E own : Owns(own, pieces, j, f[j])} /\ i - 1 # 0
          BY <3>2
        <5>2. \E own : Owns(own, pieces, i - 1, f[i - 1])
          BY <5>1
        <5> QED
          BY <5>2
      <4>3. f[i] = f[k] \o pieces[i] /\ Listed(pieces[i])
        BY <2>3, <3>2
      <4> HIDE DEF k
      <4>4. \E own : Owns(own, pieces, k + 1, f[k] \o pieces[i])
        BY <4>1, <4>2, <4>3, OwnsMore DEF k
      <4>5. \E own : Owns(own, pieces, i, f[i])
        BY <4>1, <4>3, <4>4
      <4> QED
        BY <4>5
    <3> QED
      BY <3>1, <3>2
  <2>5. 0 \in S
    OBVIOUS
  <2> HIDE DEF S
  <2>6. n \in S
    <3>1. \A i \in 0 .. n : i \in S
      BY <2>4, <2>5, StepByStep
    <3> QED
      BY <3>1
  <2> QED
    BY <1>3, <2>2, <2>6 DEF S
<1> QED
  BY <1>2, <1>3

(* The first that decides is the first of the owner that decides first.    *)
Leads(m, n, own, D, E) ==
    /\ m \in Nat /\ n \in Nat /\ own \in [1 .. m -> 1 .. n]
    /\ \A a, b \in 1 .. m : a <= b => own[a] <= own[b]
    /\ D \in SUBSET (1 .. m) /\ E \in SUBSET (1 .. n)
    /\ \A a \in D : own[a] \in E
    /\ \A i \in E : \E a \in D : own[a] = i

LEMMA FirstDecides ==
    ASSUME NEW m, NEW n, NEW own, NEW D, NEW E, Leads(m, n, own, D, E)
    PROVE  /\ (D = {}) <=> (E = {})
           /\ D # {} => Min(D) \in D /\ own[Min(D)] = Min(E)
<1> USE DEF Leads
<1>1. D = {} <=> E = {}
  OBVIOUS
<1>2. ASSUME D # {} PROVE Min(D) \in D /\ own[Min(D)] = Min(E)
  <2>1. Min(D) \in D /\ \A a \in D : Min(D) <= a
    <3>1. D \in SUBSET Nat
      OBVIOUS
    <3> QED
      BY <1>2, <3>1, MinNatural
  <2>2. Min(E) \in E /\ \A i \in E : Min(E) <= i
    <3>1. E # {}
      BY <1>1, <1>2
    <3>2. E \in SUBSET Nat
      OBVIOUS
    <3> QED
      BY <3>1, <3>2, MinNatural
  <2> DEFINE d == Min(D)  e == Min(E)
  <2> HIDE DEF d, e
  <2>3. d \in D /\ e \in E /\ (\A a \in D : d <= a) /\ \A i \in E : e <= i
    BY <2>1, <2>2 DEF d, e
  <2>4. PICK a \in D : own[a] = e
    BY <2>3
  <2>5. own[d] <= e
    BY <2>3, <2>4
  <2>6. e <= own[d]
    BY <2>3
  <2>7. own[d] \in 1 .. n /\ e \in 1 .. n
    BY <2>3
  <2>8. own[d] = e
    BY <2>5, <2>6, <2>7
  <2> QED
    BY <2>3, <2>8 DEF d, e
<1> QED
  BY <1>1, <1>2

(* Sorting leaves what is in order.                                        *)
ByKeys(seq, keys) == [n \in DOMAIN seq |-> seq[CHOOSE j \in DOMAIN seq : Cardinality(Ahead(keys, j)) = n - 1]]

LEMMA InOrderAlready ==
    ASSUME NEW seq, Listed(seq), NEW keys, keys = [i \in DOMAIN seq |-> keys[i]], \A i \in DOMAIN seq : keys[i] \in Int,
           \A i, j \in DOMAIN seq : i <= j => keys[i] <= keys[j]
    PROVE  ByKeys(seq, keys) = seq
<1> DEFINE l == Len(seq)
<1>1. l \in Nat /\ DOMAIN seq = 1 .. l /\ seq = [i \in 1 .. l |-> seq[i]]
  BY ListIs
<1>2. DOMAIN keys = 1 .. l
  BY <1>1
<1>3. \A j \in 1 .. l : Cardinality(Ahead(keys, j)) = j - 1
  <2> SUFFICES ASSUME NEW j \in 1 .. l PROVE Cardinality(Ahead(keys, j)) = j - 1
    OBVIOUS
  <2>1. Ahead(keys, j) = {i \in 1 .. l : keys[i] < keys[j] \/ (keys[i] = keys[j] /\ i < j)}
    BY <1>2 DEF Ahead
  <2>2. \A i \in 1 .. l : (keys[i] < keys[j] \/ (keys[i] = keys[j] /\ i < j)) <=> i < j
    <3> SUFFICES ASSUME NEW i \in 1 .. l PROVE (keys[i] < keys[j] \/ (keys[i] = keys[j] /\ i < j)) <=> i < j
      OBVIOUS
    <3>1. keys[i] \in Int /\ keys[j] \in Int
      BY <1>1
    <3>2. (i <= j => keys[i] <= keys[j]) /\ (j <= i => keys[j] <= keys[i])
      BY <1>1
    <3> QED
      BY <3>1, <3>2
  <2>3. Ahead(keys, j) = 1 .. j - 1
    <3>1. \A i : i \in 1 .. j - 1 <=> i \in 1 .. l /\ i < j
      BY <1>1
    <3> QED
      BY <2>1, <2>2, <3>1
  <2>4. Cardinality(1 .. j - 1) = IF 1 > j - 1 THEN 0 ELSE (j - 1) - 1 + 1
    BY FS_Interval
  <2> QED
    BY <2>3, <2>4
<1>4. \A n \in 1 .. l : (CHOOSE j \in DOMAIN seq : Cardinality(Ahead(keys, j)) = n - 1) = n
  <2> SUFFICES ASSUME NEW n \in 1 .. l PROVE (CHOOSE j \in 1 .. l : Cardinality(Ahead(keys, j)) = n - 1) = n
    BY <1>1
  <2>1. Cardinality(Ahead(keys, n)) = n - 1
    BY <1>3
  <2>2. \A j \in 1 .. l : Cardinality(Ahead(keys, j)) = n - 1 => j = n
    BY <1>3
  <2> QED
    BY <2>1, <2>2
<1> QED
  BY <1>1, <1>4 DEF ByKeys

-----------------------------------------------------------------------------
(* A term says for its statement: its rows match what the statement's do,  *)
(* and what gives a verdict gives the statement's.                         *)
OnlySays(rows, result) == Listed(rows) /\ \A row \in ToSet(rows) : row.what = "result" => row = Says(result)
Speaking(vendor, store, s, n, t) ==
    /\ ToSet(t.match) = ToSet(MatchRows(vendor, store, s.match))
    /\ OnlySays(t.body, s.result)
    /\ vendor # "iosxr" => t.number = n
RawTerm(vendor, store, s, n, t) ==
    /\ IsTerm(t) /\ Listed(t.match) /\ t.match = MatchRows(vendor, store, s.match)
    /\ t.name = IF vendor = "juniper" THEN s.name ELSE ""
    /\ Speaking(vendor, store, s, n, t)

(* The terms, each of the statement that owns it, in the order of these;   *)
(* one term of each statement says its verdict.                            *)
Speaks(vendor, store, ss, terms, own) ==
    /\ Listed(terms) /\ own \in [1 .. Len(terms) -> 1 .. Len(ss)]
    /\ \A a, b \in 1 .. Len(terms) : a <= b => own[a] <= own[b]
    /\ \A a \in 1 .. Len(terms) : Speaking(vendor, store, ss[own[a]], TermNumbers(ss)[own[a]], terms[a])
    /\ \A i \in 1 .. Len(ss) : \E a \in 1 .. Len(terms) : own[a] = i /\ Says(ss[i].result) \in ToSet(terms[a].body)

LEMMA TermSays ==
    ASSUME NEW t, NEW result, OnlySays(t.body, result)
    PROVE  TermResult(t) = IF result # "next" /\ Says(result) \in ToSet(t.body) THEN result ELSE "next"
<1> DEFINE says == {i \in DOMAIN t.body : t.body[i].what = "result" /\ t.body[i].how # "next"}
           n    == Len(t.body)
<1>1. n \in Nat /\ DOMAIN t.body = 1 .. n /\ ToSet(t.body) = {t.body[i] : i \in 1 .. n}
  BY ListIs DEF OnlySays
<1>2. Says(result).what = "result" /\ Says(result).how = result
  BY DEF Says, NoRow
<1>3. \A i \in 1 .. n : t.body[i].what = "result" => t.body[i] = Says(result)
  BY <1>1 DEF OnlySays
<1>4. TermResult(t) = IF says = {} THEN "next" ELSE t.body[Min(says)].how
  BY DEF TermResult
<1>5. says = {i \in 1 .. n : t.body[i].what = "result" /\ t.body[i].how # "next"}
  BY <1>1
<1> HIDE DEF says, n
<1>6. CASE result # "next" /\ Says(result) \in ToSet(t.body)
  <2>1. PICK i \in 1 .. n : t.body[i] = Says(result)
    BY <1>1, <1>6
  <2>2. i \in says
    BY <1>2, <1>5, <1>6, <2>1
  <2>3. says \in SUBSET Nat /\ says # {}
    BY <1>5, <2>2
  <2>4. Min(says) \in says
    BY <2>3, MinNatural
  <2>5. t.body[Min(says)] = Says(result)
    BY <1>3, <1>5, <2>4
  <2> QED
    BY <1>2, <1>4, <1>6, <2>3, <2>5
<1>7. CASE ~(result # "next" /\ Says(result) \in ToSet(t.body))
  <2>1. says = {}
    <3> SUFFICES ASSUME NEW i \in says PROVE FALSE
      OBVIOUS
    <3>1. i \in 1 .. n /\ t.body[i] = Says(result) /\ t.body[i].how # "next"
      BY <1>3, <1>5
    <3> QED
      BY <1>1, <1>2, <1>7, <3>1
  <2> QED
    BY <1>4, <1>7, <2>1
<1> QED
  BY <1>6, <1>7

LEMMA TermsSay ==
    ASSUME NEW vendor \in DOMAIN MatchMap, NEW store, NEW s, Deeds(s.then), ~StatementRaises(vendor, store, s),
           Listed(MatchRows(vendor, store, s.match)), NEW n
    PROVE  LET terms == Terms(vendor, store, s, n)
           IN /\ Listed(terms) /\ \A t \in ToSet(terms) : RawTerm(vendor, store, s, n, t)
              /\ \E t \in ToSet(terms) : Says(s.result) \in ToSet(t.body)
<1> DEFINE match == MatchRows(vendor, store, s.match)
           body  == Append(ThenRows(vendor, store, s.then), Says(s.result))
           Term(b) == [number |-> IF vendor = "iosxr" THEN 0 ELSE n,
                       name |-> IF vendor = "juniper" THEN s.name ELSE "", match |-> match, body |-> b]
           rows  == [i \in DOMAIN body |-> Term(<<body[i]>>)]
           m     == Len(body)
<1>1. Quiet(ThenRows(vendor, store, s.then))
  BY ActionsQuiet DEF StatementRaises
<1>2. Listed(body) /\ ToSet(body) = ToSet(ThenRows(vendor, store, s.then)) \cup {Says(s.result)}
  BY <1>1, AppendElements DEF Quiet
<1>3. \A row \in ToSet(body) : row.what = "result" => row = Says(s.result)
  BY <1>1, <1>2 DEF Quiet
<1>4. Terms(vendor, store, s, n) = IF vendor = "iosxr" /\ match = <<>> THEN rows ELSE <<Term(body)>>
  BY DEF Terms, Rows
<1>5. m \in Nat /\ DOMAIN body = 1 .. m /\ ToSet(body) = {body[i] : i \in 1 .. m}
  BY <1>2, ListIs
<1>6. Says(s.result) \in ToSet(body)
  BY <1>2
<1>7. Listed(match)
  OBVIOUS
<1> HIDE DEF body, m, match
<1>8. ASSUME NEW b, OnlySays(b, s.result) PROVE RawTerm(vendor, store, s, n, Term(b)) /\ Term(b).body = b
  BY <1>7, <1>8 DEF RawTerm, Speaking, IsTerm, match
<1>9. OnlySays(body, s.result) /\ \A i \in 1 .. m : OnlySays(<<body[i]>>, s.result)
  BY <1>2, <1>3, <1>5, OneElement DEF OnlySays
<1> HIDE DEF Term
<1>10. Listed(<<Term(body)>>) /\ ToSet(<<Term(body)>>) = {Term(body)}
  BY OneElement
<1>11. RawTerm(vendor, store, s, n, Term(body)) /\ Term(body).body = body
  BY <1>8, <1>9
<1>12. /\ \A i \in 1 .. m : RawTerm(vendor, store, s, n, Term(<<body[i]>>)) /\ Term(<<body[i]>>).body = <<body[i]>>
  BY <1>8, <1>9
<1>13. Listed(rows) /\ ToSet(rows) = {Term(<<body[i]>>) : i \in 1 .. m}
  <2>1. rows = [i \in 1 .. m |-> rows[i]] /\ \A i \in 1 .. m : rows[i] = Term(<<body[i]>>)
    BY <1>5
  <2> HIDE DEF rows
  <2>2. Listed(rows) /\ ToSet(rows) = {rows[i] : i \in 1 .. m}
    BY <1>5, <2>1, Indexed
  <2> QED
    BY <2>1, <2>2
<1> HIDE DEF rows
<1>14. CASE vendor = "iosxr" /\ match = <<>>
  <2>1. PICK i \in 1 .. m : body[i] = Says(s.result)
    BY <1>5, <1>6
  <2>2. Says(s.result) \in ToSet(Term(<<body[i]>>).body)
    BY <1>12, <2>1, OneElement
  <2>3. Terms(vendor, store, s, n) = rows
    BY <1>4, <1>14
  <2> QED
    BY <1>12, <1>13, <2>2, <2>3
<1>15. CASE ~(vendor = "iosxr" /\ match = <<>>)
  <2>1. Terms(vendor, store, s, n) = <<Term(body)>>
    BY <1>4, <1>15
  <2> QED
    BY <1>6, <1>10, <1>11, <2>1
<1> QED
  BY <1>14, <1>15

-----------------------------------------------------------------------------
(* Reading the text back unites terms of one statement only.               *)
LEMMA DistinctElements ==
    ASSUME NEW rows, Listed(rows)
    PROVE  Listed(Distinct(rows)) /\ ToSet(Distinct(rows)) = ToSet(rows)
<1> DEFINE n    == Len(rows)
           at   == [i \in DOMAIN rows |-> i]
           kept == [i \in DOMAIN at |-> IF \E m \in 1 .. at[i] - 1 : rows[m] = rows[at[i]] THEN <<>> ELSE <<rows[at[i]]>>]
           P    == {i \in 1 .. n : ~ \E m \in 1 .. i - 1 : rows[m] = rows[i]}
<1>1. n \in Nat /\ DOMAIN rows = 1 .. n /\ ToSet(rows) = {rows[i] : i \in 1 .. n}
  BY ListIs
<1>2. Distinct(rows) = FlattenSeq(kept)
  BY DEF Distinct, Collect
<1>3. kept = [i \in 1 .. n |-> kept[i]] /\ \A i \in 1 .. n : kept[i] = IF i \in P THEN <<rows[i]>> ELSE <<>>
  BY <1>1
<1> HIDE DEF kept
<1>4. Listed(FlattenSeq(kept)) /\ ToSet(FlattenSeq(kept)) = ValuesAt(n, P, rows)
  BY <1>1, <1>3, Gathered
<1>5. \A i \in 1 .. n : \E j \in P : rows[j] = rows[i]
  <2> SUFFICES ASSUME NEW i \in 1 .. n PROVE \E j \in P : rows[j] = rows[i]
    OBVIOUS
  <2> DEFINE S == {j \in 1 .. n : rows[j] = rows[i]}
  <2>1. S \in SUBSET Nat /\ S # {}
    OBVIOUS
  <2>2. PICK j \in S : \A k \in S : j <= k
    BY <2>1, LeastNatural
  <2>3. \A m \in 1 .. j - 1 : m \in 1 .. n /\ ~(j <= m)
    BY <1>1
  <2>4. \A m \in 1 .. j - 1 : m \notin S
    BY <2>2, <2>3
  <2>5. \A m \in 1 .. j - 1 : rows[m] # rows[j]
    BY <2>3, <2>4
  <2> QED
    BY <2>5
<1>6. P \subseteq 1 .. n
  OBVIOUS
<1> HIDE DEF n, P
<1>7. ValuesAt(n, P, rows) = {rows[i] : i \in 1 .. n}
  BY <1>5, <1>6 DEF ValuesAt
<1> QED
  BY <1>1, <1>2, <1>4, <1>7

LEMMA UnitedTerm ==
    ASSUME NEW vendor, NEW terms, Listed(terms), NEW i \in DOMAIN terms,
           \A j \in DOMAIN terms : IsTerm(terms[j]) /\ Listed(terms[j].match) /\ Listed(terms[j].body)
    PROVE  LET t     == United(vendor, terms, i)
               block == OneBlock(vendor, terms, i)
           IN /\ t.number = terms[i].number
              /\ ToSet(t.match) = UNION {ToSet(terms[j].match) : j \in block}
              /\ ToSet(t.body) = UNION {ToSet(terms[j].body) : j \in block}
              /\ Listed(t.body)
<1> DEFINE n       == Len(terms)
           block   == OneBlock(vendor, terms, i)
           matches == [j \in DOMAIN terms |-> IF j \in block THEN terms[j].match ELSE <<>>]
           bodies  == [j \in DOMAIN terms |-> IF j \in block THEN terms[j].body ELSE <<>>]
           all(f)  == UNION {ToSet(f[j]) : j \in 1 .. n}
<1>1. n \in Nat /\ DOMAIN terms = 1 .. n
  BY ListIs
<1>2. United(vendor, terms, i) = [terms[i] EXCEPT !.match = Distinct(FlattenSeq(matches)), !.body = Distinct(FlattenSeq(bodies))]
  BY DEF United
<1>3. block \subseteq 1 .. n
  BY <1>1 DEF OneBlock
<1> HIDE DEF block
<1>4. /\ matches = [j \in 1 .. n |-> matches[j]] /\ \A j \in 1 .. n : matches[j] = IF j \in block THEN terms[j].match ELSE <<>>
      /\ bodies = [j \in 1 .. n |-> bodies[j]] /\ \A j \in 1 .. n : bodies[j] = IF j \in block THEN terms[j].body ELSE <<>>
  BY <1>1
<1> HIDE DEF matches, bodies
<1>5. \A j \in 1 .. n : Listed(matches[j]) /\ Listed(bodies[j])
  BY <1>1, <1>4, NoElements
<1>6. Listed(FlattenSeq(matches)) /\ ToSet(FlattenSeq(matches)) = all(matches)
  <2> HIDE DEF n
  <2> QED
    BY <1>1, <1>4, <1>5, Collected
<1>7. Listed(FlattenSeq(bodies)) /\ ToSet(FlattenSeq(bodies)) = all(bodies)
  <2> HIDE DEF n
  <2> QED
    BY <1>1, <1>4, <1>5, Collected
<1> HIDE DEF n
<1>8. all(matches) = UNION {ToSet(terms[j].match) : j \in block}
  <2>1. \A j \in 1 .. n : ToSet(matches[j]) = IF j \in block THEN ToSet(terms[j].match) ELSE {}
    BY <1>4, NoElements
  <2> QED
    BY <1>3, <2>1
<1>9. all(bodies) = UNION {ToSet(terms[j].body) : j \in block}
  <2>1. \A j \in 1 .. n : ToSet(bodies[j]) = IF j \in block THEN ToSet(terms[j].body) ELSE {}
    BY <1>4, NoElements
  <2> QED
    BY <1>3, <2>1
<1>10. /\ Listed(Distinct(FlattenSeq(matches))) /\ ToSet(Distinct(FlattenSeq(matches))) = all(matches)
       /\ Listed(Distinct(FlattenSeq(bodies))) /\ ToSet(Distinct(FlattenSeq(bodies))) = all(bodies)
  BY <1>6, <1>7, DistinctElements
<1> HIDE DEF all
<1>11. LET t == United(vendor, terms, i)
       IN t.number = terms[i].number /\ t.match = Distinct(FlattenSeq(matches)) /\ t.body = Distinct(FlattenSeq(bodies))
  BY <1>2 DEF IsTerm
<1> QED
  BY <1>8, <1>9, <1>10, <1>11 DEF block

(* What a policy has to be so that its terms stay apart.                   *)
Apart(vendor, store, ss) ==
    /\ vendor \in {"huawei", "arista"} =>
          \A i, j \in DOMAIN ss : TermNumbers(ss)[i] = TermNumbers(ss)[j] => i = j
    /\ vendor = "iosxr" =>
          \A i, j \in DOMAIN ss : MatchRows(vendor, store, ss[i].match) = MatchRows(vendor, store, ss[j].match) => i = j
    /\ vendor = "juniper" =>
          \A i, j \in DOMAIN ss :
              /\ ss[i].name # "" /\ ss[i].name = ss[j].name => i = j
              /\ ss[i].name = "" /\ ss[j].name = "" /\ TermNumbers(ss)[i] = TermNumbers(ss)[j] => i = j

LEMMA HeadersApart ==
    ASSUME NEW vendor \in DOMAIN MatchMap, vendor # "cumulus", NEW store, NEW ss, Apart(vendor, store, ss),
           NEW i \in DOMAIN ss, NEW j \in DOMAIN ss, NEW t, NEW u,
           RawTerm(vendor, store, ss[i], TermNumbers(ss)[i], t), RawTerm(vendor, store, ss[j], TermNumbers(ss)[j], u),
           Header(vendor, t) = Header(vendor, u)
    PROVE  i = j
<1> DEFINE ni == TermNumbers(ss)[i]  nj == TermNumbers(ss)[j]
<1>1. /\ IsTerm(t) /\ t.match = MatchRows(vendor, store, ss[i].match) /\ (vendor # "iosxr" => t.number = ni)
      /\ IsTerm(u) /\ u.match = MatchRows(vendor, store, ss[j].match) /\ (vendor # "iosxr" => u.number = nj)
      /\ vendor = "juniper" => t.name = ss[i].name /\ u.name = ss[j].name
  BY DEF RawTerm, Speaking
<1>2. vendor \in {"huawei", "arista", "iosxr", "juniper"}
  BY DEF MatchMap
<1> HIDE DEF ni, nj
<1>3. CASE vendor \in {"huawei", "arista"}
  <2>1. Header(vendor, t) = [t EXCEPT !.match = <<>>, !.body = <<>>] /\ Header(vendor, u) = [u EXCEPT !.match = <<>>, !.body = <<>>]
    BY <1>3 DEF Header
  <2>2. Header(vendor, t).number = t.number /\ Header(vendor, u).number = u.number
    BY <1>1, <2>1 DEF IsTerm
  <2>3. ni = nj
    BY <1>1, <1>3, <2>2
  <2> QED
    BY <1>3, <2>3 DEF Apart, ni, nj
<1>4. CASE vendor = "iosxr"
  <2> DEFINE b(x) == IF x.match = <<>> THEN x.body ELSE <<>>
  <2>1. Header(vendor, t) = [t EXCEPT !.body = b(t)] /\ Header(vendor, u) = [u EXCEPT !.body = b(u)]
    BY <1>4 DEF Header
  <2> HIDE DEF b
  <2>2. Header(vendor, t).match = t.match /\ Header(vendor, u).match = u.match
    BY <1>1, <2>1 DEF IsTerm
  <2> QED
    BY <1>1, <1>4, <2>2 DEF Apart
<1>5. CASE vendor = "juniper"
  <2>1. \A x : IsTerm(x) => /\ Header(vendor, x).name = x.name
                            /\ x.name = "" => Header(vendor, x).number = x.number
    BY <1>5 DEF Header, IsTerm
  <2>2. t.name = u.name
    BY <1>1, <2>1
  <2>3. t.name = "" => ni = nj
    BY <1>1, <1>5, <2>1, <2>2
  <2> QED
    BY <1>1, <1>5, <2>2, <2>3 DEF Apart, ni, nj
<1> QED
  BY <1>2, <1>3, <1>4, <1>5

(* The terms of a policy say for its statements as they are written ...    *)
LEMMA RawSpeaks ==
    ASSUME NEW vendor \in DOMAIN MatchMap, NEW store, NEW ss, Listed(ss),
           \A s \in ToSet(ss) : /\ Deeds(s.then) /\ ~StatementRaises(vendor, store, s)
                                /\ Listed(MatchRows(vendor, store, s.match))
    PROVE  LET raw == FlattenSeq([i \in DOMAIN ss |-> Terms(vendor, store, ss[i], TermNumbers(ss)[i])])
           IN \E own : /\ Speaks(vendor, store, ss, raw, own)
                       /\ \A a \in 1 .. Len(raw) :
                             RawTerm(vendor, store, ss[own[a]], TermNumbers(ss)[own[a]], raw[a])
<1> DEFINE n     == Len(ss)
           num   == TermNumbers(ss)
           pieces == [i \in DOMAIN ss |-> Terms(vendor, store, ss[i], num[i])]
           raw   == FlattenSeq(pieces)
<1>1. n \in Nat /\ DOMAIN ss = 1 .. n /\ \A i \in 1 .. n : ss[i] \in ToSet(ss)
  BY ListIs
<1>2. ASSUME NEW i \in 1 .. n
      PROVE  /\ Listed(pieces[i]) /\ \A t \in ToSet(pieces[i]) : RawTerm(vendor, store, ss[i], num[i], t)
             /\ \E t \in ToSet(pieces[i]) : Says(ss[i].result) \in ToSet(t.body)
  <2> DEFINE s == ss[i]  k == num[i]
  <2>1. Deeds(s.then) /\ ~StatementRaises(vendor, store, s) /\ Listed(MatchRows(vendor, store, s.match))
    BY <1>1
  <2>2. pieces[i] = Terms(vendor, store, s, k)
    BY <1>1
  <2> HIDE DEF pieces, k, s
  <2>3. LET terms == Terms(vendor, store, s, k)
        IN /\ Listed(terms) /\ \A t \in ToSet(terms) : RawTerm(vendor, store, s, k, t)
           /\ \E t \in ToSet(terms) : Says(s.result) \in ToSet(t.body)
    BY <2>1, TermsSay
  <2> QED
    BY <2>2, <2>3 DEF s, k
<1>3. pieces = [i \in 1 .. n |-> pieces[i]]
  BY <1>1
<1> HIDE DEF pieces
<1>4. \A i \in 1 .. n : Listed(pieces[i])
  BY <1>2
<1>5. \E own : Owns(own, pieces, n, raw)
  <2> HIDE DEF n
  <2> QED
    BY <1>1, <1>3, <1>4, Owners
<1>6. PICK own : Owns(own, pieces, n, raw)
  BY <1>5
<1> HIDE DEF raw, num
<1>7. /\ Listed(raw) /\ own \in [1 .. Len(raw) -> 1 .. n]
      /\ \A a, b \in 1 .. Len(raw) : a <= b => own[a] <= own[b]
      /\ \A a \in 1 .. Len(raw) : raw[a] \in ToSet(pieces[own[a]])
      /\ \A i \in 1 .. n : \A x \in ToSet(pieces[i]) : \E a \in 1 .. Len(raw) : own[a] = i /\ raw[a] = x
  BY <1>6 DEF Owns
<1>8. \A a \in 1 .. Len(raw) : RawTerm(vendor, store, ss[own[a]], num[own[a]], raw[a])
  <2> SUFFICES ASSUME NEW a \in 1 .. Len(raw) PROVE RawTerm(vendor, store, ss[own[a]], num[own[a]], raw[a])
    OBVIOUS
  <2>1. own[a] \in 1 .. n /\ raw[a] \in ToSet(pieces[own[a]])
    BY <1>7
  <2> QED
    BY <1>2, <2>1
<1>9. \A i \in 1 .. n : \E a \in 1 .. Len(raw) : own[a] = i /\ Says(ss[i].result) \in ToSet(raw[a].body)
  <2> SUFFICES ASSUME NEW i \in 1 .. n
               PROVE  \E a \in 1 .. Len(raw) : own[a] = i /\ Says(ss[i].result) \in ToSet(raw[a].body)
    OBVIOUS
  <2>1. PICK t \in ToSet(pieces[i]) : Says(ss[i].result) \in ToSet(t.body)
    BY <1>2
  <2>2. PICK a \in 1 .. Len(raw) : own[a] = i /\ raw[a] = t
    BY <1>7
  <2> QED
    BY <2>1, <2>2
<1>10. \A a \in 1 .. Len(raw) : Speaking(vendor, store, ss[own[a]], num[own[a]], raw[a])
  BY <1>8 DEF RawTerm
<1>11. Speaks(vendor, store, ss, raw, own)
  BY <1>7, <1>9, <1>10 DEF Speaks, num
<1>12. raw = FlattenSeq([i \in DOMAIN ss |-> Terms(vendor, store, ss[i], TermNumbers(ss)[i])])
  BY DEF raw, pieces, num
<1> QED
  BY <1>8, <1>11, <1>12 DEF num

(* ... and as they are read back.                                          *)
LEMMA ReadBackSpeaks ==
    ASSUME NEW vendor \in DOMAIN MatchMap, vendor # "cumulus", NEW store, NEW ss, Listed(ss), Apart(vendor, store, ss),
           NEW raw, NEW own, Speaks(vendor, store, ss, raw, own),
           \A a \in 1 .. Len(raw) : RawTerm(vendor, store, ss[own[a]], TermNumbers(ss)[own[a]], raw[a])
    PROVE  \E now : Speaks(vendor, store, ss, ReadBack(vendor, raw), now)
<1> DEFINE n     == Len(ss)
           l     == Len(raw)
           num   == TermNumbers(ss)
           at    == [i \in DOMAIN raw |-> i]
           block(i) == OneBlock(vendor, raw, i)
           unit(i)  == United(vendor, raw, i)
           kept  == [i \in DOMAIN at |-> IF at[i] = Min(block(at[i])) THEN <<unit(at[i])>> ELSE <<>>]
           back  == ReadBack(vendor, raw)
<1>1. /\ Listed(raw) /\ own \in [1 .. l -> 1 .. n]
      /\ \A a, b \in 1 .. l : a <= b => own[a] <= own[b]
      /\ \A i \in 1 .. n : \E a \in 1 .. l : own[a] = i /\ Says(ss[i].result) \in ToSet(raw[a].body)
  BY DEF Speaks
<1>2. l \in Nat /\ DOMAIN raw = 1 .. l /\ n \in Nat /\ DOMAIN ss = 1 .. n
  BY <1>1, ListIs
<1>3. back = FlattenSeq(kept)
  BY DEF ReadBack, Collect
<1>4. kept = [i \in 1 .. l |-> kept[i]] /\ \A i \in 1 .. l : kept[i] = IF i = Min(block(i)) THEN <<unit(i)>> ELSE <<>>
  BY <1>2
<1> HIDE DEF kept
<1>5. \A i \in 1 .. l : block(i) = {j \in 1 .. l : Header(vendor, raw[j]) = Header(vendor, raw[i])}
  BY <1>2 DEF OneBlock
<1>6. \A a \in 1 .. l : RawTerm(vendor, store, ss[own[a]], num[own[a]], raw[a])
  OBVIOUS
<1>7. \A i, j \in 1 .. l : j \in block(i) => own[j] = own[i]
  <2> SUFFICES ASSUME NEW i \in 1 .. l, NEW j \in 1 .. l, j \in block(i) PROVE own[j] = own[i]
    OBVIOUS
  <2> DEFINE p == own[i]  q == own[j]  t == raw[i]  u == raw[j]
  <2>1. p \in DOMAIN ss /\ q \in DOMAIN ss
    BY <1>1, <1>2
  <2>2. RawTerm(vendor, store, ss[p], TermNumbers(ss)[p], t) /\ RawTerm(vendor, store, ss[q], TermNumbers(ss)[q], u)
    OBVIOUS
  <2>3. Header(vendor, u) = Header(vendor, t)
    BY <1>5
  <2> HIDE DEF p, q, t, u
  <2>4. q = p
    BY <2>1, <2>2, <2>3, HeadersApart
  <2> QED
    BY <2>4 DEF p, q
<1>8. ASSUME NEW i \in 1 .. l
      PROVE  /\ Speaking(vendor, store, ss[own[i]], num[own[i]], unit(i))
             /\ ToSet(unit(i).body) = UNION {ToSet(raw[j].body) : j \in block(i)}
  <2> DEFINE s == ss[own[i]]  k == num[own[i]]  rows == ToSet(MatchRows(vendor, store, s.match))
  <2>1. \A j \in DOMAIN raw : IsTerm(raw[j]) /\ Listed(raw[j].match) /\ Listed(raw[j].body)
    BY <1>2, <1>6 DEF RawTerm, Speaking, OnlySays
  <2>2. /\ unit(i).number = raw[i].number
        /\ ToSet(unit(i).match) = UNION {ToSet(raw[j].match) : j \in block(i)}
        /\ ToSet(unit(i).body) = UNION {ToSet(raw[j].body) : j \in block(i)}
        /\ Listed(unit(i).body)
    BY <1>1, <1>2, <2>1, UnitedTerm
  <2>3. ASSUME NEW j \in block(i) PROVE Speaking(vendor, store, s, k, raw[j])
    <3>1. j \in 1 .. l
      BY <1>5
    <3>2. own[j] = own[i]
      BY <1>7, <3>1
    <3> QED
      BY <1>6, <3>1, <3>2 DEF RawTerm
  <2>4. i \in block(i)
    BY <1>5
  <2> HIDE DEF s, k, unit, block, rows
  <2>5. \A j \in block(i) : ToSet(raw[j].match) = rows
    BY <2>3 DEF Speaking, rows
  <2>6. ToSet(unit(i).match) = rows
    BY <2>2, <2>4, <2>5
  <2>7. OnlySays(unit(i).body, s.result)
    BY <2>2, <2>3 DEF Speaking, OnlySays
  <2>8. vendor # "iosxr" => unit(i).number = k
    BY <2>2, <2>3, <2>4 DEF Speaking
  <2>9. Speaking(vendor, store, s, k, unit(i))
    BY <2>6, <2>7, <2>8 DEF Speaking, rows
  <2> QED
    BY <2>2, <2>9 DEF s, k
<1>9. \A i \in 1 .. l : Listed(kept[i]) /\ ToSet(kept[i]) = IF i = Min(block(i)) THEN {unit(i)} ELSE {}
  BY <1>4, NoElements, OneElement
<1>10. \E own2 : Owns(own2, kept, l, back)
  <2> HIDE DEF l, back, unit, block
  <2>1. \E own2 : Owns(own2, kept, l, FlattenSeq(kept))
    BY <1>2, <1>4, <1>9, Owners
  <2> QED
    BY <1>3, <2>1
<1>11. PICK own2 : Owns(own2, kept, l, back)
  BY <1>10
<1> DEFINE m   == Len(back)
           now == [a \in 1 .. m |-> own[own2[a]]]
<1> HIDE DEF back
<1>12. /\ Listed(back) /\ own2 \in [1 .. m -> 1 .. l]
       /\ \A a, b \in 1 .. m : a <= b => own2[a] <= own2[b]
       /\ \A a \in 1 .. m : back[a] \in ToSet(kept[own2[a]])
       /\ \A i \in 1 .. l : \A x \in ToSet(kept[i]) : \E a \in 1 .. m : own2[a] = i /\ back[a] = x
  BY <1>11 DEF Owns
<1> HIDE DEF m, l, n, num, unit, block
<1>13. \A a \in 1 .. m : now[a] = own[own2[a]] /\ own2[a] \in 1 .. l /\ now[a] \in 1 .. n /\ back[a] = unit(own2[a])
  <2> SUFFICES ASSUME NEW a \in 1 .. m
               PROVE  now[a] = own[own2[a]] /\ own2[a] \in 1 .. l /\ now[a] \in 1 .. n /\ back[a] = unit(own2[a])
    OBVIOUS
  <2>1. now[a] = own[own2[a]]
    OBVIOUS
  <2> HIDE DEF now
  <2>2. own2[a] \in 1 .. l
    BY <1>12
  <2>3. own[own2[a]] \in 1 .. n
    BY <1>1, <2>2
  <2>4. back[a] = unit(own2[a])
    <3>1. back[a] \in ToSet(kept[own2[a]])
      BY <1>12
    <3>2. \A x \in ToSet(kept[own2[a]]) : x = unit(own2[a])
      BY <1>9, <2>2
    <3> QED
      BY <3>1, <3>2
  <2> QED
    BY <2>1, <2>2, <2>3, <2>4
<1>14. now \in [1 .. m -> 1 .. n]
  BY <1>13
<1> HIDE DEF now
<1>15. \A a, b \in 1 .. m : a <= b => now[a] <= now[b]
  BY <1>1, <1>12, <1>13
<1>16. \A a \in 1 .. m : Speaking(vendor, store, ss[now[a]], num[now[a]], back[a])
  <2> SUFFICES ASSUME NEW a \in 1 .. m PROVE Speaking(vendor, store, ss[now[a]], num[now[a]], back[a])
    OBVIOUS
  <2> QED
    BY <1>8, <1>13
<1>17. \A i \in 1 .. n : \E a \in 1 .. m : now[a] = i /\ Says(ss[i].result) \in ToSet(back[a].body)
  <2> SUFFICES ASSUME NEW i \in 1 .. n PROVE \E a \in 1 .. m : now[a] = i /\ Says(ss[i].result) \in ToSet(back[a].body)
    OBVIOUS
  <2>1. PICK c \in 1 .. l : own[c] = i /\ Says(ss[i].result) \in ToSet(raw[c].body)
    BY <1>1
  <2> DEFINE k == Min(block(c))
  <2>2. block(c) \in SUBSET Nat /\ c \in block(c)
    BY <1>2, <1>5
  <2>3. k \in block(c) /\ \A j \in block(c) : k <= j
    BY <2>2, MinNatural
  <2>4. k \in 1 .. l /\ Header(vendor, raw[k]) = Header(vendor, raw[c])
    BY <1>5, <2>3
  <2>5. block(k) = block(c)
    BY <1>5, <2>4
  <2>6. k = Min(block(k))
    BY <2>5
  <2> HIDE DEF k
  <2>7. ToSet(kept[k]) = {unit(k)}
    BY <1>9, <2>4, <2>6
  <2>8. PICK a \in 1 .. m : own2[a] = k /\ back[a] = unit(k)
    BY <1>12, <2>4, <2>7
  <2>9. now[a] = i
    BY <1>7, <1>13, <2>1, <2>3, <2>4, <2>8
  <2>10. Says(ss[i].result) \in ToSet(unit(k).body)
    BY <1>8, <2>1, <2>2, <2>4, <2>5
  <2> QED
    BY <2>8, <2>9, <2>10
<1>18. Speaks(vendor, store, ss, back, now)
  BY <1>12, <1>14, <1>15, <1>16, <1>17 DEF Speaks, m, n, num
<1> QED
  BY <1>18 DEF back

LEMMA PolicySpeaks ==
    ASSUME NEW vendor \in DOMAIN MatchMap, NEW store, NEW policy, Listed(policy.statements),
           \A s \in ToSet(policy.statements) : /\ Deeds(s.then) /\ ~StatementRaises(vendor, store, s)
                                               /\ Listed(MatchRows(vendor, store, s.match)),
           Apart(vendor, store, policy.statements)
    PROVE  \E own : Speaks(vendor, store, policy.statements, PolicyTerms(vendor, store, policy), own)
<1> DEFINE ss  == policy.statements
           raw == FlattenSeq([i \in DOMAIN ss |-> Terms(vendor, store, ss[i], TermNumbers(ss)[i])])
<1>1. PolicyTerms(vendor, store, policy) = ReadBack(vendor, raw)
  BY DEF PolicyTerms
<1> HIDE DEF ss
<1>2. /\ Listed(ss) /\ Apart(vendor, store, ss)
      /\ \A s \in ToSet(ss) : Deeds(s.then) /\ ~StatementRaises(vendor, store, s) /\ Listed(MatchRows(vendor, store, s.match))
  BY DEF ss
<1>3. \E own : /\ Speaks(vendor, store, ss, raw, own)
               /\ \A a \in 1 .. Len(raw) : RawTerm(vendor, store, ss[own[a]], TermNumbers(ss)[own[a]], raw[a])
  BY <1>2, RawSpeaks
<1> HIDE DEF raw
<1>4. \E own : Speaks(vendor, store, ss, ReadBack(vendor, raw), own)
  <2>1. CASE vendor = "cumulus"
    <3>1. ReadBack(vendor, raw) = raw
      BY <2>1 DEF ReadBack
    <3> QED
      BY <1>3, <3>1
  <2>2. CASE vendor # "cumulus"
    BY <1>2, <1>3, <2>2, ReadBackSpeaks
  <2> QED
    BY <2>1, <2>2
<1> QED
  BY <1>1, <1>4 DEF ss

LEMMA NumbersGiven ==
    ASSUME NEW ss, Listed(ss), \A i \in DOMAIN ss : ss[i].number # Unset /\ ss[i].number \in Int
    PROVE  \A i \in DOMAIN ss : TermNumbers(ss)[i] = ss[i].number
<1> SUFFICES ASSUME NEW i \in DOMAIN ss PROVE TermNumbers(ss)[i] = ss[i].number
  OBVIOUS
<1> DEFINE given == {j \in 1 .. i : ss[j].number # Unset}
<1>1. Len(ss) \in Nat /\ DOMAIN ss = 1 .. Len(ss)
  BY ListIs
<1>2. i \in Nat /\ i \in 1 .. i /\ \A j \in 1 .. i : j \in DOMAIN ss
  BY <1>1
<1>3. TermNumbers(ss)[i] = IF given = {} THEN i - 1 ELSE ss[Max(given)].number + i - Max(given)
  BY DEF TermNumbers
<1>4. given = 1 .. i
  BY <1>2
<1> HIDE DEF given
<1>5. given \in SUBSET (0 .. i) /\ given # {}
  BY <1>2, <1>4
<1>6. Max(given) \in given /\ \A k \in given : k <= Max(given)
  BY <1>2, <1>5, MaxBounded
<1>7. Max(given) = i
  BY <1>2, <1>4, <1>6
<1>8. TermNumbers(ss)[i] = ss[i].number + i - i
  BY <1>3, <1>5, <1>7
<1>9. ss[i].number \in Int
  OBVIOUS
<1> QED
  BY <1>2, <1>8, <1>9

(* Numbers rise with the statements: sorted by them, terms stay in place.  *)
LEMMA SpokenInOrder ==
    ASSUME NEW vendor, NEW store, NEW ss, Listed(ss), NEW terms, NEW own, Speaks(vendor, store, ss, terms, own),
           vendor \in Numbered =>
               \A i, j \in DOMAIN ss : /\ TermNumbers(ss)[i] \in Int
                                       /\ i <= j => TermNumbers(ss)[i] <= TermNumbers(ss)[j]
    PROVE  InOrder(vendor, terms) = terms
<1> DEFINE keys == [i \in DOMAIN terms |-> terms[i].number]
           num  == TermNumbers(ss)
           m    == Len(terms)
<1>1. CASE vendor \in Numbered
  <2>1. /\ Listed(terms) /\ own \in [1 .. m -> 1 .. Len(ss)]
        /\ \A a, b \in 1 .. m : a <= b => own[a] <= own[b]
        /\ \A a \in 1 .. m : Speaking(vendor, store, ss[own[a]], num[own[a]], terms[a])
    BY DEF Speaks
  <2>2. DOMAIN terms = 1 .. m /\ DOMAIN ss = 1 .. Len(ss) /\ m \in Nat
    BY <2>1, ListIs
  <2>3. vendor # "iosxr"
    BY <1>1 DEF Numbered
  <2> HIDE DEF m, num
  <2>4. \A a \in 1 .. m : terms[a].number = num[own[a]] /\ own[a] \in DOMAIN ss
    BY <2>1, <2>2, <2>3 DEF Speaking
  <2>5. \A i, j \in DOMAIN ss : num[i] \in Int /\ (i <= j => num[i] <= num[j])
    BY <1>1 DEF num
  <2>6. keys = [i \in DOMAIN terms |-> keys[i]] /\ \A i \in DOMAIN terms : keys[i] = terms[i].number
    OBVIOUS
  <2> HIDE DEF keys
  <2>7. \A i \in DOMAIN terms : keys[i] \in Int
    BY <2>2, <2>4, <2>5, <2>6
  <2>8. \A i, j \in DOMAIN terms : i <= j => keys[i] <= keys[j]
    <3> SUFFICES ASSUME NEW i \in 1 .. m, NEW j \in 1 .. m, i <= j PROVE keys[i] <= keys[j]
      BY <2>2
    <3>1. own[i] <= own[j] /\ own[i] \in DOMAIN ss /\ own[j] \in DOMAIN ss
      BY <2>1, <2>4
    <3>2. num[own[i]] <= num[own[j]]
      BY <2>5, <3>1
    <3> QED
      BY <2>2, <2>4, <2>6, <3>2
  <2>9. ByKeys(terms, keys) = terms
    BY <2>1, <2>6, <2>7, <2>8, InOrderAlready
  <2>10. InOrder(vendor, terms) = ByKeys(terms, keys)
    BY <1>1 DEF InOrder, SortedBy, ByKeys, keys
  <2> QED
    BY <2>9, <2>10
<1>2. CASE vendor \notin Numbered
  BY <1>2 DEF InOrder
<1> QED
  BY <1>1, <1>2

(* The first term that decides says what the first statement that does.    *)
LEMMA VerdictSpoken ==
    ASSUME NEW vendor, NEW store, NEW ps, NEW cfg, NEW r, Settled(vendor, store, ps, cfg, r),
           NEW ss, Listed(ss),
           \A i \in DOMAIN ss : /\ MatchTaken(vendor, ps, ss[i].match)
                                /\ StatementMeant(store, ss[i], r) <=> Holding(store, ss[i].match, r),
           NEW terms, NEW own, Speaks(vendor, store, ss, terms, own), InOrder(vendor, terms) = terms
    PROVE  Verdict(vendor, cfg, terms, r) = VerdictMeant(store, ss, r)
<1> DEFINE m == Len(terms)  n == Len(ss)
           D == {i \in DOMAIN terms : TermMatches(vendor, cfg, terms[i], r) /\ TermResult(terms[i]) # "next"}
           E == {i \in DOMAIN ss : StatementMeant(store, ss[i], r) /\ ss[i].result # "next"}
<1>1. /\ Listed(terms) /\ own \in [1 .. m -> 1 .. n]
      /\ \A a, b \in 1 .. m : a <= b => own[a] <= own[b]
      /\ \A a \in 1 .. m : Speaking(vendor, store, ss[own[a]], TermNumbers(ss)[own[a]], terms[a])
      /\ \A i \in 1 .. n : \E a \in 1 .. m : own[a] = i /\ Says(ss[i].result) \in ToSet(terms[a].body)
  BY DEF Speaks
<1>2. DOMAIN terms = 1 .. m /\ m \in Nat /\ DOMAIN ss = 1 .. n /\ n \in Nat
  BY <1>1, ListIs
<1>3. Verdict(vendor, cfg, terms, r) = IF D = {} THEN "end" ELSE TermResult(terms[Min(D)])
  BY DEF Verdict
<1>4. VerdictMeant(store, ss, r) = IF E = {} THEN "end" ELSE ss[Min(E)].result
  BY DEF VerdictMeant
<1>5. /\ D = {i \in 1 .. m : TermMatches(vendor, cfg, terms[i], r) /\ TermResult(terms[i]) # "next"}
      /\ E = {i \in 1 .. n : StatementMeant(store, ss[i], r) /\ ss[i].result # "next"}
  BY <1>2
<1> HIDE DEF D, E, m, n
<1>6. ASSUME NEW a \in 1 .. m
      PROVE  /\ own[a] \in 1 .. n
             /\ TermMatches(vendor, cfg, terms[a], r) <=> StatementMeant(store, ss[own[a]], r)
             /\ TermResult(terms[a]) = IF ss[own[a]].result # "next" /\ Says(ss[own[a]].result) \in ToSet(terms[a].body)
                                       THEN ss[own[a]].result ELSE "next"
  <2> DEFINE s == ss[own[a]]  t == terms[a]  match == s.match  result == s.result
  <2>1. own[a] \in DOMAIN ss /\ own[a] \in 1 .. n
    BY <1>1, <1>2
  <2>2. ToSet(t.match) = ToSet(MatchRows(vendor, store, match)) /\ OnlySays(t.body, result)
    BY <1>1 DEF Speaking
  <2>3. MatchTaken(vendor, ps, match) /\ (StatementMeant(store, s, r) <=> Holding(store, match, r))
    BY <2>1
  <2> HIDE DEF match, t, result, s
  <2>4. TermMatches(vendor, cfg, t, r) <=> Holding(store, match, r)
    BY <2>2, <2>3, TermMeans
  <2>5. TermResult(t) = IF result # "next" /\ Says(result) \in ToSet(t.body) THEN result ELSE "next"
    BY <2>2, TermSays
  <2> QED
    BY <2>1, <2>3, <2>4, <2>5 DEF s, t, result
<1>7. \A a \in D : own[a] \in E /\ TermResult(terms[a]) = ss[own[a]].result
  <2> SUFFICES ASSUME NEW a \in D PROVE own[a] \in E /\ TermResult(terms[a]) = ss[own[a]].result
    OBVIOUS
  <2>1. a \in 1 .. m /\ TermMatches(vendor, cfg, terms[a], r) /\ TermResult(terms[a]) # "next"
    BY <1>5
  <2>2. ss[own[a]].result # "next" /\ TermResult(terms[a]) = ss[own[a]].result
    BY <1>6, <2>1
  <2> QED
    BY <1>5, <1>6, <2>1, <2>2
<1>8. \A i \in E : \E a \in D : own[a] = i
  <2> SUFFICES ASSUME NEW i \in E PROVE \E a \in D : own[a] = i
    OBVIOUS
  <2>1. i \in 1 .. n /\ StatementMeant(store, ss[i], r) /\ ss[i].result # "next"
    BY <1>5
  <2>2. PICK a \in 1 .. m : own[a] = i /\ Says(ss[i].result) \in ToSet(terms[a].body)
    BY <1>1, <2>1
  <2>3. TermMatches(vendor, cfg, terms[a], r) /\ TermResult(terms[a]) = ss[i].result
    BY <1>6, <2>1, <2>2
  <2> QED
    BY <1>5, <2>1, <2>2, <2>3
<1>9. /\ (D = {}) <=> (E = {})
      /\ D # {} => Min(D) \in D /\ own[Min(D)] = Min(E)
  <2>1. D \in SUBSET (1 .. m) /\ E \in SUBSET (1 .. n)
    BY <1>5
  <2>2. \A a \in D : own[a] \in E
    BY <1>7
  <2>3. own \in [1 .. m -> 1 .. n] /\ m \in Nat /\ n \in Nat
    BY <1>1, <1>2
  <2>4. \A a, b \in 1 .. m : a <= b => own[a] <= own[b]
    BY <1>1
  <2> QED
    BY <1>8, <2>1, <2>2, <2>3, <2>4, FirstDecides DEF Leads
<1> QED
  BY <1>3, <1>4, <1>7, <1>9

-----------------------------------------------------------------------------
(* What the statements were asked for: conditions the user may give, that  *)
(* merge, and one of the user's numbers.                                   *)
AskedOf(x, s) ==
    /\ Listed(s.conds) /\ ToSet(s.conds) \subseteq x.conds
    /\ s.match = MergeConditions(s.conds) /\ ~Errs(s.match)
    /\ s.number \in x.numbers
AllAsked(x, ss) == \A s \in ToSet(ss) : AskedOf(x, s)

AskedInv ==
    /\ pc = "with" => AskedOf(it, open)
    /\ AllAsked(it, statements)
    /\ \A p \in ToSet(policies) : AllAsked(it, p.statements)

LEMMA StillAsked ==
    ASSUME NEW x, NEW s, IsBuilt(s), AskedOf(x, s)
    PROVE  /\ \A c : AskedOf(x, Call(s, c))
           /\ \A result : AskedOf(x, LeaveWith(s, result))
<1>1. \A c : Call(s, c).conds = s.conds /\ Call(s, c).match = s.match /\ Call(s, c).number = s.number
  BY DEF Call, IsBuilt
<1>2. \A result : LET t == LeaveWith(s, result) IN t.conds = s.conds /\ t.match = s.match /\ t.number = s.number
  BY DEF LeaveWith
<1> QED
  BY <1>1, <1>2 DEF AskedOf

(* Every statement of a policy has conditions of the user's that merge.    *)
THEOREM AskedInvHolds == Spec => []AskedInv
<1>1. Init => AskedInv
  BY NoElements DEF Init, AskedInv, AllAsked
<1>2. BuildInv /\ AskedInv /\ [Next]_vars => AskedInv'
  <2> SUFFICES ASSUME BuildInv, AskedInv, [Next]_vars PROVE AskedInv'
    OBVIOUS
  <2> USE DEF AskedInv
  <2>0. subject' = subject => it' = it
    BY DEF it
  <2> HIDE DEF it
  <2>1. ASSUME NEW conds \in BoundedSeq(it.conds, MaxParts - parts), NEW name \in it.names, NEW number \in it.numbers,
               CallRoute(conds, name, number)
        PROVE  AskedInv'
    <3>1. PICK m \in 0 .. MaxParts - parts : conds \in [1 .. m -> it.conds]
      BY DEF BoundedSeq, SeqOf
    <3>2. MaxParts - parts \in Int /\ m \in Nat
      BY RplAssumption DEF BuildInv
    <3>3. conds \in Seq(it.conds)
      BY <3>1, <3>2, FunctionSeq
    <3>4. Listed(conds) /\ ToSet(conds) \subseteq it.conds
      BY <3>3, SeqElements
    <3> DEFINE s == NewStatement(name, number, conds)
    <3>5. s.conds = conds /\ s.match = MergeConditions(conds) /\ s.number = number
      BY DEF NewStatement
    <3>6. ~CannotMatch(conds) => AskedOf(it, s)
      BY <3>4, <3>5 DEF AskedOf, CannotMatch, Errs
    <3> HIDE DEF s
    <3>7. pc' = "with" => open' = s /\ ~CannotMatch(conds)
      BY <2>1 DEF CallRoute, s
    <3>8. statements' = statements /\ policies' = policies /\ it' = it
      BY <2>0, <2>1 DEF CallRoute
    <3> QED
      BY <3>6, <3>7, <3>8
  <2>2. ASSUME NEW c \in it.calls, CallBuilder(c) PROVE AskedInv'
    <3>1. pc = "with" /\ open' = Call(open, c) /\ statements' = statements /\ policies' = policies /\ it' = it
      BY <2>0, <2>2 DEF CallBuilder
    <3>2. AskedOf(it, Call(open, c))
      BY <3>1, StillAsked DEF BuildInv
    <3> QED
      BY <3>1, <3>2
  <2>3. ASSUME NEW result \in it.results, Leave(result) PROVE AskedInv'
    <3>1. /\ pc = "with" /\ statements' = Append(statements, LeaveWith(open, result))
          /\ pc' # "with" /\ policies' = policies /\ it' = it
      BY <2>0, <2>3 DEF Leave
    <3>2. AskedOf(it, LeaveWith(open, result))
      BY <3>1, StillAsked DEF BuildInv
    <3>3. ToSet(Append(statements, LeaveWith(open, result))) = ToSet(statements) \cup {LeaveWith(open, result)}
      BY AppendElements DEF BuildInv, SaidAll
    <3> QED
      BY <3>1, <3>2, <3>3 DEF AllAsked
  <2>4. CASE EndHandler
    <3> DEFINE p == [name |-> handlers[turn], statements |-> statements]
    <3>1. policies' = Append(policies, p) /\ statements' = <<>> /\ pc' # "with" /\ it' = it
      BY <2>0, <2>4 DEF EndHandler
    <3>2. ToSet(Append(policies, p)) = ToSet(policies) \cup {p} /\ ToSet(<<>>) = {}
      BY AppendElements, NoElements DEF BuildInv, Policed
    <3> QED
      BY <3>1, <3>2 DEF AllAsked
  <2>5. ASSUME NEW vendor \in Vendors, Generate(vendor) PROVE AskedInv'
    <3>1. pc' # "with" /\ statements' = statements /\ policies' = policies /\ it' = it
      BY <2>0, <2>5 DEF Generate
    <3> QED
      BY <3>1
  <2>6. CASE UNCHANGED vars
    <3>1. pc' = pc /\ open' = open /\ statements' = statements /\ policies' = policies /\ it' = it
      BY <2>0, <2>6 DEF vars
    <3> QED
      BY <3>1
  <2> QED
    BY <2>1, <2>2, <2>3, <2>4, <2>5, <2>6 DEF Next
<1> QED
  BY <1>1, <1>2, BuildInvHolds, PTL DEF Spec

LEMMA SoundApart ==
    ASSUME NEW v \in DOMAIN MatchMap, NEW ss, Listed(ss), Sound(v, ss),
           v \in Numbered => \A i \in DOMAIN ss : ss[i].number # Unset /\ ss[i].number \in Int
    PROVE  /\ Apart(v, it.store, ss)
           /\ v \in Numbered =>
                  \A i, j \in DOMAIN ss : /\ TermNumbers(ss)[i] \in Int
                                          /\ i <= j => TermNumbers(ss)[i] <= TermNumbers(ss)[j]
<1> DEFINE num == TermNumbers(ss)
<1>1. DOMAIN ss = 1 .. Len(ss) /\ Len(ss) \in Nat
  BY ListIs
<1>2. v \in Numbered => \A i \in DOMAIN ss : num[i] = ss[i].number /\ num[i] \in Int
  BY NumbersGiven
<1> HIDE DEF num
<1>3. v \in Numbered => \A i, j \in DOMAIN ss : i < j => num[i] < num[j]
  BY <1>2 DEF Sound, Rising
<1>4. v \in Numbered => \A i, j \in DOMAIN ss : (i <= j => num[i] <= num[j]) /\ (num[i] = num[j] => i = j)
  <2> SUFFICES ASSUME v \in Numbered, NEW i \in DOMAIN ss, NEW j \in DOMAIN ss
               PROVE  (i <= j => num[i] <= num[j]) /\ (num[i] = num[j] => i = j)
    OBVIOUS
  <2>1. num[i] \in Int /\ num[j] \in Int /\ i \in Int /\ j \in Int
    BY <1>1, <1>2
  <2>2. (i < j => num[i] < num[j]) /\ (j < i => num[j] < num[i])
    BY <1>3
  <2>3. i < j \/ i = j \/ j < i
    BY <2>1
  <2> QED
    BY <2>1, <2>2, <2>3
<1>5. \A i, j \in DOMAIN ss : i < j \/ i = j \/ j < i
  BY <1>1
<1>6. ~SameHeader(v, ss)
  BY DEF Sound
<1>7. v = "iosxr" =>
          \A i, j \in DOMAIN ss : MatchRows(v, it.store, ss[i].match) = MatchRows(v, it.store, ss[j].match) => i = j
  <2> SUFFICES ASSUME v = "iosxr", NEW i \in DOMAIN ss, NEW j \in DOMAIN ss,
                      MatchRows(v, it.store, ss[i].match) = MatchRows(v, it.store, ss[j].match), i # j
               PROVE  FALSE
    OBVIOUS
  <2>1. i < j \/ j < i
    BY <1>5
  <2> QED
    BY <1>6, <2>1 DEF SameHeader
<1>8. v = "juniper" =>
          \A i, j \in DOMAIN ss :
              /\ ss[i].name # "" /\ ss[i].name = ss[j].name => i = j
              /\ ss[i].name = "" /\ ss[j].name = "" /\ num[i] = num[j] => i = j
  <2> SUFFICES ASSUME v = "juniper", NEW i \in DOMAIN ss, NEW j \in DOMAIN ss, i # j,
                      \/ ss[i].name # "" /\ ss[i].name = ss[j].name
                      \/ ss[i].name = "" /\ ss[j].name = "" /\ num[i] = num[j]
               PROVE  FALSE
    OBVIOUS
  <2>1. i < j \/ j < i
    BY <1>5
  <2>2. \A a, b \in DOMAIN ss : a < b =>
            ~(IF ss[a].name # "" THEN ss[a].name = ss[b].name ELSE ss[b].name = "" /\ num[a] = num[b])
    BY <1>6 DEF SameHeader, num
  <2> QED
    BY <2>1, <2>2
<1> QED
  BY <1>2, <1>4, <1>7, <1>8 DEF Apart, Numbered, num

(* The conditions of a policy as they are merged.                          *)
LEMMA AskedMeans ==
    ASSUME BuildInv, AskedInv, NEW s \in Statements(policies), NEW r \in it.routes
    PROVE  /\ OneEach(s.match)
           /\ \A c \in ToSet(s.match) : IsMade(c) /\ OfFamily(it.store, c, r)
           /\ StatementMeant(it.store, s, r) <=> Holding(it.store, s.match, r)
           /\ s.number \in Int
<1> DEFINE store == it.store  conds == s.conds  match == s.match
<1>1. AskedOf(it, s)
  <2>1. PICK i \in DOMAIN policies : s \in ToSet(policies[i].statements)
    BY DEF Statements
  <2>2. policies[i] \in ToSet(policies)
    BY DEF ToSet
  <2> QED
    BY <2>1, <2>2 DEF AskedInv, AllAsked
<1>2. subject \in DOMAIN Subjects
  BY DEF BuildInv
<1>3. /\ \A c \in it.conds : IsCondition(c) /\ IsMade(c)
      /\ it.numbers \subseteq Int /\ IsRoute(r)
      /\ \A c \in it.conds : OfFamily(store, c, r)
  <2>1. \A c \in it.conds : IsCondition(c)
    BY <1>2, RplAssumption DEF it
  <2>2. /\ it.numbers \subseteq Int
        /\ \A q \in it.routes : IsRoute(q)
        /\ \A c \in it.conds : IsMade(c)
    BY <1>2, MeaningAssumption DEF it
  <2>3. \A c \in it.conds : \A q \in it.routes, n \in ToSet(c.names) : c.field = "ip_prefix" /\ q.v6 =>
            \A i \in DOMAIN it.store.prefixes : it.store.prefixes[i].name = n =>
                \A m \in ToSet(it.store.prefixes[i].members) : m.net # q.net
    BY <1>2, MeaningAssumption DEF it
  <2> HIDE DEF it
  <2> QED
    BY <2>1, <2>2, <2>3 DEF OfFamily
<1>4. Listed(conds) /\ ToSet(conds) \subseteq it.conds /\ match = MergeConditions(conds) /\ ~Errs(match) /\ s.number \in it.numbers
  BY <1>1 DEF AskedOf
<1>5. MadeAll(conds)
  BY <1>3, <1>4 DEF MadeAll, Conds
<1> HIDE DEF it, store, conds, match
<1>6. Merged(store, r, conds, Len(conds), match)
  BY <1>3, <1>4, <1>5, MergingMeans
<1>7. /\ Conds(match) /\ OneEach(match)
      /\ \A i \in DOMAIN match : IsMade(match[i]) /\ (match[i].field \notin NumberFields => match[i] \in ToSet(conds))
      /\ Holding(store, match, r) <=> \A k \in 1 .. Len(conds) : Meant(store, conds[k], r)
  BY <1>4, <1>6 DEF Merged
<1>8. ASSUME NEW c \in ToSet(match) PROVE IsMade(c) /\ OfFamily(store, c, r)
  <2>1. PICK i \in DOMAIN match : match[i] = c
    BY DEF ToSet
  <2>2. IsMade(c) /\ (c.field \notin NumberFields => c \in ToSet(conds))
    BY <1>7, <2>1
  <2>3. c.field = "ip_prefix" => c \in it.conds
    BY <1>4, <2>2 DEF NumberFields
  <2> QED
    BY <1>3, <2>2, <2>3 DEF OfFamily
<1>9. StatementMeant(store, s, r) <=> \A k \in 1 .. Len(conds) : Meant(store, conds[k], r)
  <2>1. DOMAIN conds = 1 .. Len(conds)
    BY <1>4, ListIs
  <2> QED
    BY <2>1 DEF StatementMeant, conds
<1> QED
  BY <1>3, <1>4, <1>7, <1>8, <1>9 DEF store, match

(* What is written, for a policy whose text means what it says.            *)
LEMMA PolicyMeans ==
    ASSUME BuildInv, WrittenInv, AskedInv, Written1, OneFamily, WellTyped,
           ~SharesFilterName(out.vendor), ~MixesLengths(out.vendor),
           NEW k \in DOMAIN policies, Sound(out.vendor, policies[k].statements), NEW r \in it.routes
    PROVE  Verdict(out.vendor, out, TermsOf(k), r) = VerdictMeant(it.store, policies[k].statements, r)
<1> DEFINE v == out.vendor  store == it.store  policy == policies[k]  ss == policy.statements
<1>1. /\ v \in DOMAIN MatchMap /\ Policed(policies) /\ ~PoliciesRaise(v, store, policies)
      /\ ~ListsRaise(v, store, policies) /\ out.lists = AllLists(v, store, policies)
      /\ out.policies = Policies(v, store, policies)
  BY RplAssumption DEF BuildInv, WrittenInv, Written1
<1>2. Given(v, store, policies)
  <2>1. OneFamilyIn(policies) /\ WellTypedIn(store, policies)
    BY DEF OneFamily, WellTyped, OneFamilyIn, WellTypedIn, PolicyConds, PrefixConds
  <2> QED
    BY <1>1, <2>1 DEF Given
<1>3. IsStore(store) /\ IsRoute(r)
  BY MeaningAssumption DEF it, BuildInv
<1>4. \A s \in Statements(policies) :
          /\ OneEach(s.match) /\ s.number \in Int
          /\ \A c \in ToSet(s.match) : IsMade(c) /\ OfFamily(store, c, r)
          /\ StatementMeant(store, s, r) <=> Holding(store, s.match, r)
  BY AskedMeans
<1>5. NotShared(v, store, policies)
  BY DEF NotShared, SharesFilterName, PolicyConds, PrefixConds
<1>6. NotMixed(v, store, policies)
  BY DEF NotMixed, MixesLengths, PolicyConds, PrefixConds
<1>7. Settled(v, store, policies, out, r)
  <2>1. \A c \in Conditions(policies) : IsMade(c) /\ OfFamily(store, c, r)
    BY <1>4 DEF Conditions
  <2> HIDE DEF v, store
  <2> QED
    BY <1>1, <1>2, <1>3, <1>5, <1>6, <2>1 DEF Settled
<1>8. Listed(ss) /\ DOMAIN ss = 1 .. Len(ss) /\ \A s \in ToSet(ss) : s \in Statements(policies)
  <2>1. policy \in ToSet(policies)
    BY DEF ToSet
  <2>2. Listed(ss)
    BY <1>1, <2>1 DEF Policed, SaidAll
  <2>3. DOMAIN ss = 1 .. Len(ss)
    BY <2>2, ListIs
  <2> QED
    BY <2>2, <2>3 DEF Statements
<1>9. TermsOf(k) = PolicyTerms(v, store, policy)
  BY <1>1 DEF TermsOf, Policies
<1>10. \A i \in DOMAIN ss : ss[i] \in ToSet(ss)
  BY DEF ToSet
<1>11. v = "juniper" => \A s \in ToSet(ss) : OneType(s.match)
  BY DEF Sound, TwoTypes, OneType
<1>12. Sound(v, ss)
  OBVIOUS
<1> HIDE DEF v, policy, ss, store
<1>13. \A s \in ToSet(ss) : /\ Deeds(s.then) /\ ~StatementRaises(v, store, s)
                            /\ Listed(MatchRows(v, store, s.match))
  <2> SUFFICES ASSUME NEW s \in ToSet(ss)
               PROVE  Deeds(s.then) /\ ~StatementRaises(v, store, s) /\ Listed(MatchRows(v, store, s.match))
    OBVIOUS
  <2>1. s \in Statements(policies)
    BY <1>8
  <2>2. IsSaid(s)
    BY <1>1, <2>1, StatementIs
  <2>3. ~StatementRaises(v, store, s)
    BY <1>1, <2>1 DEF PoliciesRaise
  <2>4. AllBacked("match", AllLists(v, store, policies), MatchRows(v, store, s.match))
    BY <1>2, <2>1, MatchesBacked
  <2> QED
    BY <2>2, <2>3, <2>4 DEF IsSaid, AllBacked
<1>14. v \in Numbered => \A i \in DOMAIN ss : ss[i].number # Unset /\ ss[i].number \in Int
  BY <1>4, <1>8, <1>10, <1>13 DEF StatementRaises
<1>15. /\ Apart(v, store, ss)
       /\ v \in Numbered =>
              \A i, j \in DOMAIN ss : /\ TermNumbers(ss)[i] \in Int
                                      /\ i <= j => TermNumbers(ss)[i] <= TermNumbers(ss)[j]
  BY <1>1, <1>8, <1>12, <1>14, SoundApart DEF store
<1>16. \A i \in DOMAIN ss : /\ MatchTaken(v, policies, ss[i].match)
                            /\ StatementMeant(store, ss[i], r) <=> Holding(store, ss[i].match, r)
  <2> SUFFICES ASSUME NEW s \in ToSet(ss)
               PROVE  /\ MatchTaken(v, policies, s.match)
                      /\ StatementMeant(store, s, r) <=> Holding(store, s.match, r)
    BY <1>10
  <2>1. s \in Statements(policies)
    BY <1>8
  <2>2. Conds(s.match)
    BY <1>1, <2>1, StatementIs DEF IsSaid
  <2>3. ToSet(s.match) \subseteq Conditions(policies)
    BY <2>1 DEF Conditions
  <2>4. ~MatchRaises(v, s.match)
    BY <1>13 DEF StatementRaises
  <2> QED
    BY <1>4, <1>11, <2>1, <2>2, <2>3, <2>4 DEF MatchTaken
<1>17. PICK own : Speaks(v, store, ss, PolicyTerms(v, store, policy), own)
  <2>1. ss = policy.statements
    BY DEF ss
  <2> QED
    BY <1>1, <1>8, <1>13, <1>15, <2>1, PolicySpeaks
<1> DEFINE terms == PolicyTerms(v, store, policy)
<1> HIDE DEF terms
<1>18. Speaks(v, store, ss, terms, own)
  BY <1>17 DEF terms
<1>19. InOrder(v, terms) = terms
  BY <1>8, <1>15, <1>18, SpokenInOrder
<1>20. Verdict(v, out, terms, r) = VerdictMeant(store, ss, r)
  BY <1>7, <1>8, <1>16, <1>18, <1>19, VerdictSpoken
<1> QED
  BY <1>9, <1>20 DEF v, store, policy, ss, terms

(* Whatever the user's lists, conditions, calls and handlers, and on every *)
(* vendor that takes them: a written policy decides about every route as   *)
(* its statements say, one after another - while no list serves two        *)
(* families or types, the route filters of Juniper are told apart and of   *)
(* one kind of lengths, and numbers and names tell the policy's terms      *)
(* apart.                                                                  *)
THEOREM VerdictsAreMeant == Spec => []VerdictsMeant
<1>1. BuildInv /\ WrittenInv /\ AskedInv => VerdictsMeant
  BY PolicyMeans DEF VerdictsMeant
<1> QED
  BY <1>1, BuildInvHolds, WrittenInvHolds, AskedInvHolds, PTL
=============================================================================
