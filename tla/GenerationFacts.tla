-------------------------- MODULE GenerationFacts ---------------------------
(***************************************************************************)
(* What the proofs about old_new rest on.  First what the merged acls say  *)
(* of a row: any rules, any rows.  Then what becomes of each place of a    *)
(* document when fragments are applied to it: any keys, documents,         *)
(* fragments, acls and filters.                                            *)
(***************************************************************************)
EXTENDS Acl, JsonFragment, SequenceFacts

(* Rules as generators write them: a pattern says what it matches.         *)
WellFormed(rules) ==
    /\ Listed(rules) /\ \A r \in ToSet(rules) : IsRule(r)
    /\ \A r, q \in ToSet(rules) : r.pat = q.pat => r.words = q.words /\ r.sim = q.sim

Unignored(rules) == \A r \in ToSet(rules) : ~r.ignore

(* The rule that stands for all of the text of rule i.                     *)
TextPrio(rules, i) == Max({rules[j].prio : j \in SameText(rules, i)})
Like(rule, r) ==
    rule.words = r.words /\ rule.undo = r.undo /\ rule.sim = r.sim /\ rule.ignore = r.ignore
StandsFor(rule, rules, i) ==
    /\ Like(rule, rules[i]) /\ rule.prio = TextPrio(rules, i)
    /\ ToSet(rule.owners) = {rules[j].owners[1] : j \in SameText(rules, i)}

LEMMA RulesAre ==
    ASSUME NEW rules, WellFormed(rules)
    PROVE  /\ Len(rules) \in Nat /\ DOMAIN rules = 1 .. Len(rules)
           /\ ToSet(rules) = {rules[i] : i \in 1 .. Len(rules)}
           /\ \A i \in DOMAIN rules : IsRule(rules[i]) /\ i \in SameText(rules, i) /\ SameText(rules, i) \subseteq DOMAIN rules
           /\ \A i \in DOMAIN rules : \A j \in SameText(rules, i) :
                 SameText(rules, j) = SameText(rules, i) /\ Like(rules[j], rules[i])
<1>1. /\ Len(rules) \in Nat /\ DOMAIN rules = 1 .. Len(rules)
      /\ ToSet(rules) = {rules[i] : i \in 1 .. Len(rules)}
  BY ListIs DEF WellFormed
<1>2. \A i \in DOMAIN rules : IsRule(rules[i])
  BY <1>1 DEF WellFormed
<1>3. \A i \in DOMAIN rules : \A j \in SameText(rules, i) :
         /\ j \in DOMAIN rules /\ RuleId(rules[j]) = RuleId(rules[i])
         /\ rules[j].pat = rules[i].pat /\ rules[j].undo = rules[i].undo /\ rules[j].ignore = rules[i].ignore
  BY DEF SameText, RuleId
<1>4. \A i \in DOMAIN rules : i \in SameText(rules, i)
  BY DEF SameText
<1>5. ASSUME NEW i \in DOMAIN rules, NEW j \in SameText(rules, i)
      PROVE  SameText(rules, j) = SameText(rules, i) /\ Like(rules[j], rules[i])
  <2>1. SameText(rules, j) = SameText(rules, i)
    BY <1>3 DEF SameText
  <2>2. Like(rules[j], rules[i])
    BY <1>1, <1>3 DEF WellFormed, Like
  <2> QED
    BY <2>1, <2>2
<1> QED
  BY <1>1, <1>2, <1>3, <1>4, <1>5

LEMMA TextPrioIs ==
    ASSUME NEW rules, WellFormed(rules), NEW i \in DOMAIN rules
    PROVE  /\ TextPrio(rules, i) \in Int
           /\ \E j \in SameText(rules, i) : TextPrio(rules, i) = rules[j].prio
           /\ \A j \in SameText(rules, i) : rules[j].prio <= TextPrio(rules, i)
           /\ \A j \in SameText(rules, i) : TextPrio(rules, j) = TextPrio(rules, i)
<1> DEFINE same  == SameText(rules, i)
           n     == Len(rules)
           prios == {rules[j].prio : j \in same}
           f     == [j \in 1 .. n |-> rules[j].prio]
<1>1. /\ n \in Nat /\ DOMAIN rules = 1 .. n /\ i \in same /\ same \subseteq 1 .. n
      /\ \A j \in 1 .. n : IsRule(rules[j])
      /\ \A j \in same : SameText(rules, j) = same
  BY RulesAre
<1> HIDE DEF same
<1>2. \A j \in same : rules[j].prio \in Int /\ f[j] = rules[j].prio
  BY <1>1 DEF IsRule
<1>3. \A j \in same : f[j] \in Int
  BY <1>2
<1> HIDE DEF f
<1>4. PICK j \in same : \A k \in same : f[k] <= f[j]
  BY <1>1, <1>3, GreatestAmong
<1>5. f[j] \in prios /\ \A p \in prios : f[j] >= p
  BY <1>2, <1>4
<1>6. \A p \in prios : p \in Int
  BY <1>2
<1> HIDE DEF prios
<1>7. Max(prios) \in prios /\ \A p \in prios : Max(prios) >= p
  BY <1>5 DEF Max
<1>8. \A p \in prios : p <= Max(prios)
  BY <1>6, <1>7
<1>9. TextPrio(rules, i) = Max(prios)
  BY DEF TextPrio, prios, same
<1>10. \A k \in same : TextPrio(rules, k) = TextPrio(rules, i)
  BY <1>1 DEF TextPrio, same
<1> QED
  BY <1>6, <1>7, <1>8, <1>9, <1>10 DEF prios, same

LEMMA UnitedIs ==
    ASSUME NEW rules, WellFormed(rules), NEW i \in DOMAIN rules
    PROVE  StandsFor(United(rules, i), rules, i)
<1> DEFINE same   == SameText(rules, i)
           n      == Len(rules)
           owners == [j \in DOMAIN rules |-> IF j \in same THEN rules[j].owners ELSE <<>>]
           kids   == [j \in DOMAIN rules |-> IF j \in same THEN rules[j].kids ELSE <<>>]
           prios  == {rules[j].prio : j \in same}
           r      == United(rules, i)
<1>1. /\ n \in Nat /\ DOMAIN rules = 1 .. n /\ i \in same /\ same \subseteq 1 .. n
      /\ \A j \in 1 .. n : IsRule(rules[j])
  BY RulesAre
<1>2. r = [rules[i] EXCEPT !.global = \E j \in same : rules[j].global, !.owners = FlattenSeq(owners),
                           !.prio = Max(prios), !.kids = FlattenSeq(kids)]
  BY DEF United
<1>3. DOMAIN rules[i] = {"pat", "words", "undo", "sim", "prio", "global", "ignore", "owners", "kids"}
  BY <1>1 DEF IsRule
<1> HIDE DEF same, owners, kids, prios, r
<1>4. Like(r, rules[i]) /\ r.owners = FlattenSeq(owners) /\ r.prio = Max(prios)
  BY <1>2, <1>3 DEF Like
<1>5. ToSet(FlattenSeq(owners)) = {rules[j].owners[1] : j \in same}
  <2>1. \A j \in 1 .. n : Listed(rules[j].owners) /\ Len(rules[j].owners) = 1
    BY <1>1 DEF IsRule, IsList, Listed
  <2>2. \A j \in 1 .. n : ToSet(rules[j].owners) = {rules[j].owners[1]}
    BY <2>1, ListIs
  <2>3. \A j \in 1 .. n : owners[j] = IF j \in same THEN rules[j].owners ELSE <<>>
    BY <1>1 DEF owners
  <2>4. \A j \in 1 .. n : Listed(owners[j]) /\ ToSet(owners[j]) = IF j \in same THEN {rules[j].owners[1]} ELSE {}
    BY <2>1, <2>2, <2>3, NoElements
  <2>5. owners = [j \in 1 .. n |-> owners[j]]
    BY <1>1 DEF owners
  <2>6. ToSet(FlattenSeq(owners)) = UNION {ToSet(owners[j]) : j \in 1 .. n}
    BY <1>1, <2>4, <2>5, Collected
  <2>7. \A o : o \in UNION {ToSet(owners[j]) : j \in 1 .. n} <=> \E j \in 1 .. n : o \in ToSet(owners[j])
    OBVIOUS
  <2>8. \A o : (\E j \in 1 .. n : o \in ToSet(owners[j])) <=> \E j \in same : o = rules[j].owners[1]
    BY <1>1, <2>4
  <2> QED
    BY <2>6, <2>7, <2>8
<1> QED
  BY <1>4, <1>5 DEF StandsFor, TextPrio, same, prios, r

(* Each merged rule stands for those of one text, and those of each text   *)
(* have one that does.                                                     *)
LEMMA MergedIs ==
    ASSUME NEW rules, WellFormed(rules)
    PROVE  /\ Listed(MergeToplevel(rules))
           /\ \A rule \in ToSet(MergeToplevel(rules)) : \E i \in DOMAIN rules : StandsFor(rule, rules, i)
           /\ \A i \in DOMAIN rules : \E rule \in ToSet(MergeToplevel(rules)) : StandsFor(rule, rules, i)
<1> DEFINE n      == Len(rules)
           firsts == {i \in 1 .. n : i = Min(SameText(rules, i))}
           united == [i \in 1 .. n |-> United(rules, i)]
           places == [i \in DOMAIN rules |-> i]
           parts  == [k \in DOMAIN places |-> IF places[k] = Min(SameText(rules, places[k]))
                                              THEN <<United(rules, places[k])>> ELSE <<>>]
<1>1. /\ n \in Nat /\ DOMAIN rules = 1 .. n
      /\ \A i \in 1 .. n : i \in SameText(rules, i) /\ SameText(rules, i) \subseteq 1 .. n
      /\ \A i \in 1 .. n : \A j \in SameText(rules, i) :
            SameText(rules, j) = SameText(rules, i) /\ Like(rules[j], rules[i])
  BY RulesAre
<1>2. MergeToplevel(rules) = FlattenSeq(parts)
  BY DEF MergeToplevel, Collect
<1>3. /\ parts = [i \in 1 .. n |-> parts[i]]
      /\ \A i \in 1 .. n : parts[i] = IF i \in firsts THEN <<united[i]>> ELSE <<>>
  BY <1>1
<1> HIDE DEF parts
<1>4. /\ Listed(MergeToplevel(rules))
      /\ \A x : x \in ToSet(MergeToplevel(rules)) <=> \E i \in 1 .. n : i \in firsts /\ x = united[i]
  <2> HIDE DEF united, firsts
  <2>1. Listed(FlattenSeq(parts)) /\ ToSet(FlattenSeq(parts)) = ValuesAt(n, firsts, united)
    BY <1>1, <1>3, Gathered
  <2>2. \A x : x \in ValuesAt(n, firsts, united) <=> \E i \in 1 .. n : i \in firsts /\ x = united[i]
    BY DEF ValuesAt
  <2> QED
    BY <1>2, <2>1, <2>2
<1>5. \A i \in 1 .. n : StandsFor(united[i], rules, i)
  BY <1>1, UnitedIs
<1>6. ASSUME NEW i \in 1 .. n
      PROVE  \E rule \in ToSet(MergeToplevel(rules)) : StandsFor(rule, rules, i)
  <2> DEFINE f == Min(SameText(rules, i))
  <2>1. SameText(rules, i) \in SUBSET Nat /\ SameText(rules, i) # {}
    BY <1>1
  <2>2. f \in SameText(rules, i)
    BY <2>1, MinNatural
  <2>3. f \in 1 .. n /\ SameText(rules, f) = SameText(rules, i) /\ Like(rules[f], rules[i])
    BY <1>1, <2>2
  <2>4. f \in firsts
    BY <2>3
  <2> HIDE DEF f, united
  <2>5. united[f] \in ToSet(MergeToplevel(rules)) /\ StandsFor(united[f], rules, f)
    BY <1>4, <1>5, <2>3, <2>4
  <2>6. StandsFor(united[f], rules, i)
    BY <2>3, <2>5, TextPrioIs DEF StandsFor, Like
  <2> QED
    BY <2>5, <2>6
<1> QED
  BY <1>1, <1>4, <1>5, <1>6

-----------------------------------------------------------------------------
(* Local rules and global ones are all the rules.                          *)
LEMMA LocalAndGlobal ==
    ASSUME NEW rules, Listed(rules)
    PROVE  LET ordered == Those(rules, LAMBDA r : ~r.global) \o Those(rules, LAMBDA r : r.global)
           IN Listed(ordered) /\ ToSet(ordered) = ToSet(rules)
<1> DEFINE n        == Len(rules)
           locals   == {i \in 1 .. n : ~rules[i].global}
           globals  == {i \in 1 .. n : rules[i].global}
           localOf  == [i \in DOMAIN rules |-> IF ~rules[i].global THEN <<rules[i]>> ELSE <<>>]
           globalOf == [i \in DOMAIN rules |-> IF rules[i].global THEN <<rules[i]>> ELSE <<>>]
<1>1. n \in Nat /\ DOMAIN rules = 1 .. n /\ \A x : x \in ToSet(rules) <=> \E i \in 1 .. n : x = rules[i]
  BY ListIs
<1>2. /\ Those(rules, LAMBDA r : ~r.global) = FlattenSeq(localOf)
      /\ Those(rules, LAMBDA r : r.global) = FlattenSeq(globalOf)
  BY DEF Those, Collect
<1>3. /\ localOf = [i \in 1 .. n |-> localOf[i]] /\ globalOf = [i \in 1 .. n |-> globalOf[i]]
      /\ \A i \in 1 .. n : localOf[i] = IF i \in locals THEN <<rules[i]>> ELSE <<>>
      /\ \A i \in 1 .. n : globalOf[i] = IF i \in globals THEN <<rules[i]>> ELSE <<>>
  BY <1>1
<1>4. \A x : /\ x \in ValuesAt(n, locals, rules) <=> \E i \in 1 .. n : i \in locals /\ x = rules[i]
             /\ x \in ValuesAt(n, globals, rules) <=> \E i \in 1 .. n : i \in globals /\ x = rules[i]
  BY DEF ValuesAt
<1>5. \A i \in 1 .. n : i \in locals \/ i \in globals
  OBVIOUS
<1> HIDE DEF localOf, globalOf, locals, globals
<1>6. Listed(FlattenSeq(localOf)) /\ ToSet(FlattenSeq(localOf)) = ValuesAt(n, locals, rules)
  BY <1>1, <1>3, Gathered
<1>7. Listed(FlattenSeq(globalOf)) /\ ToSet(FlattenSeq(globalOf)) = ValuesAt(n, globals, rules)
  BY <1>1, <1>3, Gathered
<1>8. /\ Listed(FlattenSeq(localOf) \o FlattenSeq(globalOf))
      /\ ToSet(FlattenSeq(localOf) \o FlattenSeq(globalOf)) = ValuesAt(n, locals, rules) \cup ValuesAt(n, globals, rules)
  BY <1>6, <1>7, ListsJoined
<1>9. ValuesAt(n, locals, rules) \cup ValuesAt(n, globals, rules) = ToSet(rules)
  BY <1>1, <1>4, <1>5
<1> QED
  BY <1>2, <1>8, <1>9

(* The matches in one direction.                                           *)
LEMMA FoundIs ==
    ASSUME NEW rules, Listed(rules), NEW row, NEW b
    PROVE  /\ Listed(Found(rules, row, b))
           /\ \A m : m \in ToSet(Found(rules, row, b)) <=>
                 \E r \in ToSet(rules) : m = [rule |-> r, reverse |-> b] /\ RowMatches(r, row, b)
<1> DEFINE n     == Len(rules)
           hits  == {i \in 1 .. n : RowMatches(rules[i], row, b)}
           match == [i \in 1 .. n |-> [rule |-> rules[i], reverse |-> b]]
           parts == [i \in DOMAIN rules |-> IF RowMatches(rules[i], row, b)
                                            THEN <<[rule |-> rules[i], reverse |-> b]>> ELSE <<>>]
<1>1. n \in Nat /\ DOMAIN rules = 1 .. n /\ \A x : x \in ToSet(rules) <=> \E i \in 1 .. n : x = rules[i]
  BY ListIs
<1>2. Found(rules, row, b) = FlattenSeq(parts)
  BY DEF Found, Collect
<1>3. /\ parts = [i \in 1 .. n |-> parts[i]]
      /\ \A i \in 1 .. n : parts[i] = IF i \in hits THEN <<match[i]>> ELSE <<>>
  BY <1>1
<1>4. \A x : x \in ValuesAt(n, hits, match) <=>
               \E i \in 1 .. n : RowMatches(rules[i], row, b) /\ x = [rule |-> rules[i], reverse |-> b]
  BY DEF ValuesAt
<1> HIDE DEF parts, hits, match
<1>5. Listed(FlattenSeq(parts)) /\ ToSet(FlattenSeq(parts)) = ValuesAt(n, hits, match)
  BY <1>1, <1>3, Gathered
<1> QED
  BY <1>1, <1>2, <1>4, <1>5

(* All the matches, those as written before the removal forms.             *)
LEMMA MatchesAre ==
    ASSUME NEW rules, Listed(rules), NEW row
    PROVE  LET matches == FindAclMatches(row, rules)
           IN /\ Listed(matches)
              /\ \A m : m \in ToSet(matches) <=>
                    \E r \in ToSet(rules), b \in BOOLEAN : m = [rule |-> r, reverse |-> b] /\ RowMatches(r, row, b)
              /\ \A i, j \in 1 .. Len(matches) : i <= j /\ matches[i].reverse => matches[j].reverse
<1> DEFINE ordered == Those(rules, LAMBDA r : ~r.global) \o Those(rules, LAMBDA r : r.global)
           direct  == Found(ordered, row, FALSE)
           back    == Found(ordered, row, TRUE)
<1>1. FindAclMatches(row, rules) = direct \o back
  BY DEF FindAclMatches
<1>2. Listed(ordered) /\ ToSet(ordered) = ToSet(rules)
  BY LocalAndGlobal
<1> HIDE DEF ordered
<1>3. Listed(direct) /\ Listed(back)
  BY <1>2, FoundIs
<1>4. \A m : m \in ToSet(direct) <=> \E r \in ToSet(rules) : m = [rule |-> r, reverse |-> FALSE] /\ RowMatches(r, row, FALSE)
  BY <1>2, FoundIs
<1>5. \A m : m \in ToSet(back) <=> \E r \in ToSet(rules) : m = [rule |-> r, reverse |-> TRUE] /\ RowMatches(r, row, TRUE)
  BY <1>2, FoundIs
<1> HIDE DEF direct, back
<1>6. (\A m \in ToSet(direct) : m.reverse = FALSE) /\ (\A m \in ToSet(back) : m.reverse = TRUE)
  <2>1. ASSUME NEW m \in ToSet(direct) PROVE m.reverse = FALSE
    <3>1. PICK r \in ToSet(rules) : m = [rule |-> r, reverse |-> FALSE]
      BY <1>4
    <3> QED
      BY <3>1
  <2>2. ASSUME NEW m \in ToSet(back) PROVE m.reverse = TRUE
    <3>1. PICK r \in ToSet(rules) : m = [rule |-> r, reverse |-> TRUE]
      BY <1>5
    <3> QED
      BY <3>1
  <2> QED
    BY <2>1, <2>2
<1>7. Listed(direct \o back) /\ ToSet(direct \o back) = ToSet(direct) \cup ToSet(back)
  BY <1>3, ListsJoined
<1>8. /\ Len(direct) \in Nat /\ Len(back) \in Nat /\ Len(direct \o back) = Len(direct) + Len(back)
      /\ \A i \in 1 .. Len(direct) : (direct \o back)[i] \in ToSet(direct)
      /\ \A i \in Len(direct) + 1 .. Len(direct) + Len(back) : (direct \o back)[i] \in ToSet(back)
  <2>1. Len(direct) \in Nat /\ Len(back) \in Nat /\ Len(direct \o back) = Len(direct) + Len(back)
    BY <1>3, ListsJoined
  <2>2. \A i \in 1 .. Len(direct) : (direct \o back)[i] \in ToSet(direct)
    BY <1>3, ListsJoined
  <2>3. ASSUME NEW i \in Len(direct) + 1 .. Len(direct) + Len(back) PROVE (direct \o back)[i] \in ToSet(back)
    <3>1. (direct \o back)[i] = back[i - Len(direct)] /\ back[i - Len(direct)] \in ToSet(back)
      BY <1>3, ListsJoined
    <3> QED
      BY <3>1
  <2> QED
    BY <2>1, <2>2, <2>3
<1>9. \A i, j \in 1 .. Len(direct \o back) :
         i <= j /\ (direct \o back)[i].reverse => (direct \o back)[j].reverse
  <2> SUFFICES ASSUME NEW i \in 1 .. Len(direct \o back), NEW j \in 1 .. Len(direct \o back), i <= j,
                      (direct \o back)[i].reverse
               PROVE  (direct \o back)[j].reverse
    OBVIOUS
  <2>1. i \notin 1 .. Len(direct)
    BY <1>6, <1>8
  <2>2. j \in Len(direct) + 1 .. Len(direct) + Len(back)
    BY <1>8, <2>1
  <2> QED
    BY <1>6, <1>8, <2>2
<1>10. \A m : m \in ToSet(direct) \cup ToSet(back) <=>
          \E r \in ToSet(rules), b \in BOOLEAN : m = [rule |-> r, reverse |-> b] /\ RowMatches(r, row, b)
  BY <1>4, <1>5
<1> QED
  BY <1>1, <1>7, <1>9, <1>10

(* The match selected is as good as any; and when it is a removal form, so *)
(* are all that are as good.                                               *)
LEMMA SelectedIs ==
    ASSUME NEW rules, Listed(rules), \A r \in ToSet(rules) : r.prio \in Int /\ r.sim \in Int,
           NEW row, FindAclMatches(row, rules) # <<>>
    PROVE  LET matches  == FindAclMatches(row, rules)
               selected == SelectMatch(matches)
           IN /\ selected \in ToSet(matches)
              /\ \A m \in ToSet(matches) : ~Better(m, selected)
              /\ \A m \in ToSet(matches) : selected.reverse /\ ~Better(selected, m) => m.reverse
<1> DEFINE matches == FindAclMatches(row, rules)
           n       == Len(matches)
           prio    == [i \in 1 .. n |-> matches[i].rule.prio]
           sim     == [i \in 1 .. n |-> matches[i].rule.sim]
           first   == Min(Unbeaten(matches))
<1>1. /\ Listed(matches)
      /\ \A m : m \in ToSet(matches) <=>
            \E r \in ToSet(rules), b \in BOOLEAN : m = [rule |-> r, reverse |-> b] /\ RowMatches(r, row, b)
      /\ \A i, j \in 1 .. n : i <= j /\ matches[i].reverse => matches[j].reverse
  BY MatchesAre
<1> HIDE DEF matches
<1>2. n \in Nat /\ DOMAIN matches = 1 .. n /\ \A m : m \in ToSet(matches) <=> \E i \in 1 .. n : m = matches[i]
  BY <1>1, ListIs
<1>3. \A i \in 1 .. n : matches[i].rule \in ToSet(rules)
  <2> SUFFICES ASSUME NEW i \in 1 .. n PROVE matches[i].rule \in ToSet(rules)
    OBVIOUS
  <2>1. matches[i] \in ToSet(matches)
    BY <1>2
  <2>2. PICK r \in ToSet(rules), b \in BOOLEAN : matches[i] = [rule |-> r, reverse |-> b]
    BY <1>1, <2>1
  <2> QED
    BY <2>2
<1>4. \A i \in 1 .. n : /\ prio[i] = matches[i].rule.prio /\ prio[i] \in Int
                        /\ sim[i] = matches[i].rule.sim /\ sim[i] \in Int
  BY <1>3
<1>5. n # 0
  <2> SUFFICES ASSUME n = 0 PROVE FALSE
    OBVIOUS
  <2>1. matches \in Seq(ToSet(matches)) /\ Len(matches) = 0
    BY <1>1 DEF Listed
  <2>2. matches = <<>>
    BY <2>1, EmptySeq
  <2> QED
    BY <2>2 DEF matches
<1> HIDE DEF n, prio, sim
<1>6. \A i, j \in 1 .. n : Better(matches[j], matches[i]) <=>
          prio[j] > prio[i] \/ (prio[j] = prio[i] /\ sim[j] > sim[i])
  BY <1>4 DEF Better
<1>7. Unbeaten(matches) = {i \in 1 .. n : ~ \E j \in 1 .. n : Better(matches[j], matches[i])}
  BY <1>2 DEF Unbeaten
<1>8. Unbeaten(matches) # {}
  <2> DEFINE all == 1 .. n
             top == {i \in 1 .. n : \A j \in 1 .. n : prio[j] <= prio[i]}
  <2>1. all \in SUBSET (1 .. n) /\ all # {} /\ \A i \in all : prio[i] \in Int
    <3>1. 1 \in all
      BY <1>2, <1>5
    <3>2. \A i \in all : prio[i] \in Int
      BY <1>4
    <3> QED
      BY <3>1, <3>2
  <2> HIDE DEF all
  <2>2. PICK i \in all : \A j \in all : prio[j] <= prio[i]
    BY <1>2, <2>1, GreatestAmong
  <2>3. top \in SUBSET (1 .. n) /\ top # {} /\ \A j \in top : sim[j] \in Int
    BY <1>4, <2>2 DEF all
  <2> HIDE DEF top
  <2>4. PICK l \in top : \A j \in top : sim[j] <= sim[l]
    BY <1>2, <2>3, GreatestAmong
  <2>5. l \in 1 .. n /\ \A j \in 1 .. n : prio[j] <= prio[l]
    BY <2>4 DEF top
  <2>6. ASSUME NEW j \in 1 .. n, prio[j] = prio[l] PROVE sim[j] <= sim[l]
    <3>1. j \in top
      BY <2>5, <2>6 DEF top
    <3> QED
      BY <2>4, <3>1
  <2>7. \A j \in 1 .. n : ~Better(matches[j], matches[l])
    BY <1>4, <1>6, <2>5, <2>6
  <2> QED
    BY <1>7, <2>5, <2>7
<1>9. first \in Unbeaten(matches) /\ \A i \in Unbeaten(matches) : first <= i
  <2>1. Unbeaten(matches) \in SUBSET Nat
    BY <1>2, <1>7
  <2> QED
    BY <1>8, <2>1, MinNatural
<1> HIDE DEF first
<1>10. first \in 1 .. n /\ \A j \in 1 .. n : ~Better(matches[j], matches[first])
  BY <1>7, <1>9
<1>11. ASSUME NEW j \in 1 .. n, matches[first].reverse, ~Better(matches[first], matches[j])
       PROVE  matches[j].reverse
  <2>1. prio[j] = prio[first] /\ sim[j] = sim[first]
    BY <1>4, <1>6, <1>10, <1>11
  <2>2. \A i \in 1 .. n : ~Better(matches[i], matches[j])
    BY <1>4, <1>6, <1>10, <2>1
  <2>3. first <= j
    BY <1>7, <1>9, <2>2
  <2> QED
    BY <1>1, <1>10, <1>11, <2>3 DEF n
<1>12. SelectMatch(matches) = matches[first]
  BY DEF SelectMatch, first
<1> QED
  BY <1>2, <1>10, <1>11, <1>12 DEF matches

-----------------------------------------------------------------------------
(* What merged rules answer for a row, in terms of the rules as written:   *)
(* the rules about the row, how they rank, in which direction they match.  *)
Says(rules, row, i)  == i \in DOMAIN rules /\ row.word \in rules[i].words
Backs(rules, row, i) == rules[i].undo # row.undo
Above(rules, i, j)   ==
    \/ TextPrio(rules, i) > TextPrio(rules, j)
    \/ TextPrio(rules, i) = TextPrio(rules, j) /\ rules[i].sim > rules[j].sim
Ruling(rules, row, i) ==
    /\ Says(rules, row, i)
    /\ \A j \in DOMAIN rules : Says(rules, row, j) => ~Above(rules, j, i)
    /\ Backs(rules, row, i) =>
          \A j \in DOMAIN rules : Says(rules, row, j) /\ ~Above(rules, i, j) => Backs(rules, row, j)
Peers(rules, row, i) ==
    {j \in DOMAIN rules : /\ Says(rules, row, j) /\ ~Above(rules, i, j)
                          /\ Backs(rules, row, j) <=> Backs(rules, row, i)}
Keeps(rules, row, i) == \A j \in Peers(rules, row, i) : rules[j].owners[1].keep

LEMMA MergedMatches ==
    ASSUME NEW rules, WellFormed(rules), NEW row, row.undo \in BOOLEAN
    PROVE  LET matches == ToSet(FindAclMatches(row, MergeToplevel(rules)))
           IN /\ \A m \in matches : \E i \in DOMAIN rules :
                    StandsFor(m.rule, rules, i) /\ Says(rules, row, i) /\ (m.reverse <=> Backs(rules, row, i)) /\ m.reverse \in BOOLEAN
              /\ \A i \in DOMAIN rules : Says(rules, row, i) =>
                    \E m \in matches : StandsFor(m.rule, rules, i) /\ (m.reverse <=> Backs(rules, row, i)) /\ m.reverse \in BOOLEAN
<1> DEFINE merged  == MergeToplevel(rules)
           matches == ToSet(FindAclMatches(row, merged))
<1>1. /\ Listed(merged)
      /\ \A rule \in ToSet(merged) : \E i \in DOMAIN rules : StandsFor(rule, rules, i)
      /\ \A i \in DOMAIN rules : \E rule \in ToSet(merged) : StandsFor(rule, rules, i)
  BY MergedIs
<1>2. \A i \in DOMAIN rules : rules[i].undo \in BOOLEAN
  BY RulesAre DEF IsRule
<1> HIDE DEF merged
<1>3. \A m : m \in matches <=>
         \E r \in ToSet(merged), b \in BOOLEAN : m = [rule |-> r, reverse |-> b] /\ RowMatches(r, row, b)
  BY <1>1, MatchesAre
<1> HIDE DEF matches
<1>4. ASSUME NEW m \in matches
      PROVE  \E i \in DOMAIN rules :
                StandsFor(m.rule, rules, i) /\ Says(rules, row, i) /\ (m.reverse <=> Backs(rules, row, i)) /\ m.reverse \in BOOLEAN
  <2>1. PICK r \in ToSet(merged), b \in BOOLEAN : m = [rule |-> r, reverse |-> b] /\ RowMatches(r, row, b)
    BY <1>3
  <2>2. PICK i \in DOMAIN rules : StandsFor(r, rules, i)
    BY <1>1
  <2>3. r.words = rules[i].words /\ r.undo = rules[i].undo
    BY <2>2 DEF StandsFor, Like
  <2>4. row.word \in r.words /\ row.undo = (r.undo # b)
    BY <2>1 DEF RowMatches
  <2>5. Says(rules, row, i)
    BY <2>3, <2>4 DEF Says
  <2>6. b <=> Backs(rules, row, i)
    BY <1>2, <2>3, <2>4 DEF Backs
  <2>7. m.rule = r /\ m.reverse = b
    BY <2>1
  <2> QED
    BY <2>2, <2>5, <2>6, <2>7
<1>5. ASSUME NEW i \in DOMAIN rules, Says(rules, row, i)
      PROVE  \E m \in matches : StandsFor(m.rule, rules, i) /\ (m.reverse <=> Backs(rules, row, i)) /\ m.reverse \in BOOLEAN
  <2>1. PICK r \in ToSet(merged) : StandsFor(r, rules, i)
    BY <1>1
  <2>2. r.words = rules[i].words /\ r.undo = rules[i].undo
    BY <2>1 DEF StandsFor, Like
  <2>3. PICK b \in BOOLEAN : b <=> Backs(rules, row, i)
    OBVIOUS
  <2>4. RowMatches(r, row, b)
    BY <1>2, <1>5, <2>2, <2>3 DEF RowMatches, Says, Backs
  <2>5. [rule |-> r, reverse |-> b] \in matches
    BY <1>3, <2>4
  <2>6. [rule |-> r, reverse |-> b].rule = r /\ [rule |-> r, reverse |-> b].reverse = b
    OBVIOUS
  <2> QED
    BY <2>1, <2>3, <2>5, <2>6
<1> QED
  BY <1>4, <1>5 DEF matches, merged

(* What merged acls answer for a row, in terms of the rules as written:    *)
(* the best of those that speak of it, by the %prio of all rules of its    *)
(* text and by closeness, and whether all who speak like it forbid to      *)
(* delete (match_row_to_acl after _merge_toplevel).                        *)
THEOREM AnswerOfMerged ==
    ASSUME NEW rules, WellFormed(rules), Unignored(rules), NEW row, row.undo \in BOOLEAN
    PROVE  LET answer == MatchRowToAcl(row, MergeToplevel(rules))
           IN IF \E i \in DOMAIN rules : Says(rules, row, i)
              THEN /\ answer.matched
                   /\ \E i \in DOMAIN rules :
                         /\ Ruling(rules, row, i)
                         /\ answer.reverse <=> Backs(rules, row, i)
                         /\ answer.keep <=> Keeps(rules, row, i)
              ELSE ~answer.matched
<1> DEFINE merged   == MergeToplevel(rules)
           list     == FindAclMatches(row, merged)
           matches  == ToSet(list)
           selected == SelectMatch(list)
           best     == BestMatches(list)
           answer   == MatchRowToAcl(row, merged)
<1>1. /\ \A m \in matches : \E i \in DOMAIN rules :
            StandsFor(m.rule, rules, i) /\ Says(rules, row, i) /\ (m.reverse <=> Backs(rules, row, i)) /\ m.reverse \in BOOLEAN
      /\ \A i \in DOMAIN rules : Says(rules, row, i) =>
            \E m \in matches : StandsFor(m.rule, rules, i) /\ (m.reverse <=> Backs(rules, row, i)) /\ m.reverse \in BOOLEAN
  BY MergedMatches
<1>2. /\ Listed(merged)
      /\ \A rule \in ToSet(merged) : \E i \in DOMAIN rules : StandsFor(rule, rules, i)
  BY MergedIs
<1>3. /\ ToSet(rules) = {rules[i] : i \in 1 .. Len(rules)} /\ DOMAIN rules = 1 .. Len(rules)
      /\ \A i \in DOMAIN rules : IsRule(rules[i]) /\ i \in SameText(rules, i) /\ SameText(rules, i) \subseteq DOMAIN rules
      /\ \A i \in DOMAIN rules : \A j \in SameText(rules, i) : Like(rules[j], rules[i])
  BY RulesAre
<1>4. \A i \in DOMAIN rules : ~rules[i].ignore /\ rules[i].sim \in Int
  BY <1>3 DEF IsRule, Unignored
<1>5. \A i \in DOMAIN rules : TextPrio(rules, i) \in Int /\ \A j \in SameText(rules, i) : TextPrio(rules, j) = TextPrio(rules, i)
  BY TextPrioIs
<1>6. \A rule, i : StandsFor(rule, rules, i) =>
         /\ rule.prio = TextPrio(rules, i) /\ rule.sim = rules[i].sim
         /\ rule.ignore = rules[i].ignore
         /\ ToSet(rule.owners) = {rules[j].owners[1] : j \in SameText(rules, i)}
  BY DEF StandsFor, Like
<1>7. answer = IF list = <<>> \/ selected.rule.ignore
               THEN [matched |-> FALSE, reverse |-> FALSE, keep |-> FALSE, clash |-> FALSE]
               ELSE [matched |-> TRUE, reverse |-> selected.reverse,
                     keep |-> \A o \in OwnersOf(best) : o.keep, clash |-> Cardinality(Deleters(best)) > 1]
  BY DEF MatchRowToAcl
<1>8. best = {m \in matches : Metric(m) = Metric(selected) /\ m.reverse = selected.reverse}
  BY DEF BestMatches
<1>9. list # <<>> =>
         /\ selected \in matches
         /\ \A m \in matches : ~Better(m, selected)
         /\ \A m \in matches : selected.reverse /\ ~Better(selected, m) => m.reverse
  <2>1. \A r \in ToSet(merged) : r.prio \in Int /\ r.sim \in Int
    BY <1>2, <1>4, <1>5, <1>6
  <2> HIDE DEF merged
  <2> QED
    BY <1>2, <2>1, SelectedIs
<1> HIDE DEF list, matches, selected, best, answer, merged
<1>10. CASE ~ \E i \in DOMAIN rules : Says(rules, row, i)
  <2>1. list = <<>>
    BY <1>1, <1>9, <1>10
  <2>2. answer.matched = FALSE
    BY <1>7, <2>1
  <2> QED
    BY <1>10, <2>2 DEF answer, merged
<1>11. CASE \E i \in DOMAIN rules : Says(rules, row, i)
  <2>1. list # <<>>
    <3>1. PICK m \in matches : TRUE
      BY <1>1, <1>11
    <3> QED
      BY <3>1, NoElements DEF matches
  <2>2. PICK s \in DOMAIN rules : /\ StandsFor(selected.rule, rules, s) /\ Says(rules, row, s)
                                  /\ selected.reverse <=> Backs(rules, row, s)
                                  /\ selected.reverse \in BOOLEAN
    BY <1>1, <1>9, <2>1
  <2>3. ~selected.rule.ignore
    BY <1>4, <1>6, <2>2
  <2>4. /\ answer.matched = TRUE /\ answer.reverse = selected.reverse
        /\ answer.keep = (\A o \in OwnersOf(best) : o.keep)
    BY <1>7, <2>1, <2>3
  <2>5. \A m \in matches, i \in DOMAIN rules : StandsFor(m.rule, rules, i) =>
           /\ Better(m, selected) <=> Above(rules, i, s)
           /\ Better(selected, m) <=> Above(rules, s, i)
           /\ Metric(m) = Metric(selected) <=> ~Above(rules, i, s) /\ ~Above(rules, s, i)
    <3> SUFFICES ASSUME NEW m \in matches, NEW i \in DOMAIN rules, StandsFor(m.rule, rules, i)
                 PROVE  /\ Better(m, selected) <=> Above(rules, i, s)
                        /\ Better(selected, m) <=> Above(rules, s, i)
                        /\ Metric(m) = Metric(selected) <=> ~Above(rules, i, s) /\ ~Above(rules, s, i)
      OBVIOUS
    <3>1. /\ m.rule.prio = TextPrio(rules, i) /\ m.rule.sim = rules[i].sim
          /\ selected.rule.prio = TextPrio(rules, s) /\ selected.rule.sim = rules[s].sim
      BY <1>6, <2>2
    <3>2. /\ TextPrio(rules, i) \in Int /\ TextPrio(rules, s) \in Int
          /\ rules[i].sim \in Int /\ rules[s].sim \in Int
      BY <1>4, <1>5
    <3> QED
      BY <3>1, <3>2 DEF Better, Above, Metric
  <2>6. ASSUME NEW i \in DOMAIN rules, Says(rules, row, i)
        PROVE  /\ ~Above(rules, i, s)
               /\ Backs(rules, row, s) /\ ~Above(rules, s, i) => Backs(rules, row, i)
    <3>1. PICK m \in matches : StandsFor(m.rule, rules, i) /\ (m.reverse <=> Backs(rules, row, i))
      BY <1>1, <2>6
    <3> QED
      BY <1>9, <2>1, <2>2, <2>5, <3>1
  <2>7. Ruling(rules, row, s)
    BY <2>2, <2>6 DEF Ruling
  <2>8. ASSUME \A o \in OwnersOf(best) : o.keep, NEW j \in Peers(rules, row, s)
        PROVE  rules[j].owners[1].keep
    <3>1. /\ j \in DOMAIN rules /\ Says(rules, row, j) /\ ~Above(rules, s, j)
          /\ Backs(rules, row, j) <=> Backs(rules, row, s)
      BY DEF Peers
    <3>2. PICK m \in matches : /\ StandsFor(m.rule, rules, j) /\ (m.reverse <=> Backs(rules, row, j))
                               /\ m.reverse \in BOOLEAN
      BY <1>1, <3>1
    <3>3. Metric(m) = Metric(selected) /\ m.reverse = selected.reverse
      BY <2>2, <2>5, <2>6, <3>1, <3>2
    <3>4. m \in best
      BY <1>8, <3>3
    <3>5. rules[j].owners[1] \in ToSet(m.rule.owners)
      BY <1>3, <1>6, <3>1, <3>2
    <3>6. rules[j].owners[1] \in OwnersOf(best)
      BY <3>4, <3>5 DEF OwnersOf
    <3> QED
      BY <2>8, <3>6
  <2>9. ASSUME \A j \in Peers(rules, row, s) : rules[j].owners[1].keep, NEW o \in OwnersOf(best)
        PROVE  o.keep
    <3>1. PICK m \in best : o \in ToSet(m.rule.owners)
      BY DEF OwnersOf
    <3>2. m \in matches /\ Metric(m) = Metric(selected) /\ m.reverse = selected.reverse
      BY <1>8
    <3>3. PICK i \in DOMAIN rules : /\ StandsFor(m.rule, rules, i) /\ Says(rules, row, i)
                                    /\ m.reverse <=> Backs(rules, row, i)
      BY <1>1, <3>2
    <3>4. PICK j \in SameText(rules, i) : o = rules[j].owners[1]
      BY <1>6, <3>1, <3>3
    <3>5. j \in DOMAIN rules /\ rules[j].words = rules[i].words /\ rules[j].undo = rules[i].undo /\ rules[j].sim = rules[i].sim
      BY <1>3, <3>4 DEF Like
    <3>6. TextPrio(rules, j) = TextPrio(rules, i)
      BY <1>5, <3>4
    <3>7. ~Above(rules, s, i)
      BY <2>5, <3>2, <3>3
    <3>8. ~Above(rules, s, j)
      BY <3>5, <3>6, <3>7 DEF Above
    <3>9. Says(rules, row, j) /\ (Backs(rules, row, j) <=> Backs(rules, row, s))
      BY <2>2, <3>2, <3>3, <3>5 DEF Says, Backs
    <3>10. j \in Peers(rules, row, s)
      BY <3>5, <3>8, <3>9 DEF Peers
    <3> QED
      BY <2>9, <3>4, <3>10
  <2>10. (\A o \in OwnersOf(best) : o.keep) <=> Keeps(rules, row, s)
    BY <2>8, <2>9 DEF Keeps
  <2> QED
    BY <1>11, <2>2, <2>4, <2>7, <2>10 DEF answer, merged
<1> QED
  BY <1>10, <1>11

-----------------------------------------------------------------------------
(* The rules of one generator among those of all: each is there, under the *)
(* name of the generator, and nothing else is under that name.             *)
CopyOf(r, q, gen) ==
    /\ r.pat = q.pat /\ r.words = q.words /\ r.undo = q.undo /\ r.sim = q.sim
    /\ r.prio = q.prio /\ r.ignore = q.ignore
    /\ q.owners[1].gen = gen /\ q.owners[1].keep = r.owners[1].keep
Among(own, all, gen) ==
    /\ \A i \in DOMAIN own : \E j \in DOMAIN all : CopyOf(own[i], all[j], gen)
    /\ \A j \in DOMAIN all : all[j].owners[1].gen = gen => \E i \in DOMAIN own : CopyOf(own[i], all[j], gen)

OthersForbid(all, gen, row) ==
    \E j \in DOMAIN all : all[j].owners[1].gen # gen /\ all[j].owners[1].keep /\ RowMatches(all[j], row, TRUE)

(* The rules of a text rank no lower when more rules are of that text.     *)
LEMMA RanksNoLower ==
    ASSUME NEW own, NEW all, WellFormed(own), WellFormed(all), NEW gen, NEW i \in DOMAIN own, NEW j \in DOMAIN all,
           CopyOf(own[i], all[j], gen), \A k \in DOMAIN own : \E l \in DOMAIN all : CopyOf(own[k], all[l], gen)
    PROVE  TextPrio(own, i) <= TextPrio(all, j)
<1>1. PICK k \in SameText(own, i) : TextPrio(own, i) = own[k].prio
  BY TextPrioIs
<1>2. k \in DOMAIN own /\ RuleId(own[k]) = RuleId(own[i])
  BY <1>1 DEF SameText
<1>3. PICK l \in DOMAIN all : CopyOf(own[k], all[l], gen)
  BY <1>2
<1>4. RuleId(all[l]) = RuleId(all[j]) /\ all[l].prio = own[k].prio
  BY <1>2, <1>3 DEF CopyOf, RuleId
<1>5. l \in SameText(all, j)
  BY <1>4 DEF SameText
<1> QED
  BY <1>1, <1>4, <1>5, TextPrioIs

(* A row that passes the rules of a generator passes those of all, unless  *)
(* it removes what another one forbids to delete.  A rule of another one   *)
(* that ranks higher is about the row too; one of its own ranked no lower  *)
(* before, so that the answer for the row is the one it had.               *)
LEMMA PassesTogether ==
    ASSUME NEW own, NEW all, NEW gen, NEW row, row.undo \in BOOLEAN,
           WellFormed(own), WellFormed(all), Unignored(own), Unignored(all), Among(own, all, gen),
           Passes(row, MergeToplevel(own)), ~Passes(row, MergeToplevel(all))
    PROVE  OthersForbid(all, gen, row)
<1> DEFINE mine == MatchRowToAcl(row, MergeToplevel(own))
           ours == MatchRowToAcl(row, MergeToplevel(all))
<1>1. mine.matched /\ ~(mine.reverse /\ mine.keep) /\ ~(ours.matched /\ ~(ours.reverse /\ ours.keep))
  BY DEF Passes
<1>2. IF \E i \in DOMAIN own : Says(own, row, i)
      THEN /\ mine.matched
           /\ \E i \in DOMAIN own :
                 Ruling(own, row, i) /\ (mine.reverse <=> Backs(own, row, i)) /\ (mine.keep <=> Keeps(own, row, i))
      ELSE ~mine.matched
  BY AnswerOfMerged
<1>3. IF \E i \in DOMAIN all : Says(all, row, i)
      THEN /\ ours.matched
           /\ \E i \in DOMAIN all :
                 Ruling(all, row, i) /\ (ours.reverse <=> Backs(all, row, i)) /\ (ours.keep <=> Keeps(all, row, i))
      ELSE ~ours.matched
  BY AnswerOfMerged
<1> HIDE DEF mine, ours
<1>4. PICK p \in DOMAIN own :
        Ruling(own, row, p) /\ (mine.reverse <=> Backs(own, row, p)) /\ (mine.keep <=> Keeps(own, row, p))
  BY <1>1, <1>2
<1>5. PICK q \in DOMAIN all : CopyOf(own[p], all[q], gen)
  BY DEF Among
<1>6. Says(own, row, p) /\ Says(all, row, q)
  BY <1>4, <1>5 DEF Ruling, Says, CopyOf
<1>7. PICK s \in DOMAIN all : Ruling(all, row, s) /\ Backs(all, row, s) /\ Keeps(all, row, s)
  BY <1>1, <1>3, <1>6
<1>8. Says(all, row, s) /\ ~Above(all, q, s) /\ (~Above(all, s, q) => Backs(all, row, q))
  BY <1>6, <1>7 DEF Ruling
<1>9. /\ \A i \in DOMAIN own : own[i].undo \in BOOLEAN /\ own[i].sim \in Int /\ TextPrio(own, i) \in Int
      /\ \A i \in DOMAIN all : all[i].undo \in BOOLEAN /\ all[i].sim \in Int /\ TextPrio(all, i) \in Int
  BY RulesAre, TextPrioIs DEF IsRule
<1>10. /\ \A i \in SameText(all, s) : i \in DOMAIN all /\ Like(all[i], all[s]) /\ TextPrio(all, i) = TextPrio(all, s)
       /\ s \in SameText(all, s)
  BY RulesAre, TextPrioIs
<1>11. \A i \in SameText(all, s) : /\ Says(all, row, i) /\ Backs(all, row, i)
                                    /\ i \in Peers(all, row, s) /\ all[i].owners[1].keep
  <2> SUFFICES ASSUME NEW i \in SameText(all, s)
               PROVE  /\ Says(all, row, i) /\ Backs(all, row, i)
                      /\ i \in Peers(all, row, s) /\ all[i].owners[1].keep
    OBVIOUS
  <2>1. Says(all, row, i) /\ Backs(all, row, i)
    BY <1>7, <1>8, <1>10 DEF Says, Backs, Like
  <2>2. ~Above(all, s, i)
    BY <1>9, <1>10 DEF Above, Like
  <2>3. i \in Peers(all, row, s)
    BY <1>7, <1>10, <2>1, <2>2 DEF Peers
  <2> QED
    BY <1>7, <2>1, <2>3 DEF Keeps
<1>12. \A i \in SameText(all, s) : RowMatches(all[i], row, TRUE)
  BY <1>9, <1>10, <1>11 DEF RowMatches, Says, Backs
<1>13. CASE \E i \in SameText(all, s) : all[i].owners[1].gen # gen
  BY <1>10, <1>11, <1>12, <1>13 DEF OthersForbid
<1>14. CASE \A i \in SameText(all, s) : all[i].owners[1].gen = gen
  <2>1. PICK t \in DOMAIN own : CopyOf(own[t], all[s], gen)
    BY <1>10, <1>14 DEF Among
  <2>2. TextPrio(all, s) <= TextPrio(own, t)
    <3>1. PICK i \in SameText(all, s) : TextPrio(all, s) = all[i].prio
      BY TextPrioIs
    <3>2. PICK u \in DOMAIN own : CopyOf(own[u], all[i], gen)
      BY <1>10, <1>14 DEF Among
    <3>3. RuleId(all[i]) = RuleId(all[s])
      BY DEF SameText
    <3>4. RuleId(own[u]) = RuleId(own[t]) /\ own[u].prio = all[i].prio
      BY <2>1, <3>2, <3>3 DEF CopyOf, RuleId
    <3>5. u \in SameText(own, t)
      BY <3>4 DEF SameText
    <3> QED
      BY <3>1, <3>4, <3>5, TextPrioIs
  <2>3. Says(own, row, t)
    BY <1>8, <2>1 DEF Says, CopyOf
  <2>4. ~Above(own, t, p)
    BY <1>4, <2>3 DEF Ruling
  <2>5. TextPrio(own, p) <= TextPrio(all, q)
    BY <1>5, RanksNoLower DEF Among
  <2>6. own[p].sim = all[q].sim /\ own[t].sim = all[s].sim /\ own[p].undo = all[q].undo
    BY <1>5, <2>1 DEF CopyOf
  <2>7. /\ TextPrio(own, p) = TextPrio(all, s) /\ TextPrio(all, q) = TextPrio(all, s)
        /\ own[p].sim = all[s].sim /\ all[q].sim = all[s].sim
    BY <1>8, <1>9, <2>2, <2>4, <2>5, <2>6 DEF Above
  <2>8. ~Above(all, s, q)
    BY <1>9, <2>7 DEF Above
  <2>9. Backs(own, row, p)
    BY <1>8, <2>6, <2>8 DEF Backs
  <2>10. PICK i \in Peers(own, row, p) : ~own[i].owners[1].keep
    BY <1>1, <1>4, <2>9 DEF Keeps
  <2>11. /\ i \in DOMAIN own /\ Says(own, row, i) /\ ~Above(own, p, i) /\ Backs(own, row, i)
         /\ ~Above(own, i, p)
    BY <1>4, <2>9, <2>10 DEF Peers, Ruling
  <2>12. PICK u \in DOMAIN all : CopyOf(own[i], all[u], gen)
    BY <2>11 DEF Among
  <2>13. Says(all, row, u) /\ Backs(all, row, u) /\ all[u].sim = own[i].sim /\ ~all[u].owners[1].keep
    BY <2>10, <2>11, <2>12 DEF Says, Backs, CopyOf
  <2>14. TextPrio(own, i) <= TextPrio(all, u)
    BY <2>11, <2>12, RanksNoLower DEF Among
  <2>15. ~Above(all, u, s)
    BY <1>7, <2>13 DEF Ruling
  <2>16. ~Above(all, s, u)
    BY <1>9, <2>7, <2>11, <2>13, <2>14, <2>15 DEF Above
  <2>17. u \in Peers(all, row, s)
    BY <1>7, <2>13, <2>16 DEF Peers
  <2> QED
    BY <1>7, <2>13, <2>17 DEF Keeps
<1> QED
  BY <1>13, <1>14

-----------------------------------------------------------------------------
(* Paths.                                                                   *)
Places == {p \in Seq(Keys) : Len(p) # 0}

LEMMA UnderIs ==
    ASSUME NEW p \in Seq(Keys), NEW q \in Seq(Keys)
    PROVE  Under(p, q) <=> Len(p) <= Len(q) /\ \A i \in 1 .. Len(p) : p[i] = q[i]
<1>1. Len(p) \in Nat /\ Len(q) \in Nat
  BY LenProperties
<1>2. SubSeq(p, 1, Len(p)) = p
  BY SubSeqFull
<1>3. ASSUME Len(p) <= Len(q) PROVE SubSeq(q, 1, Len(p)) = p <=> \A i \in 1 .. Len(p) : p[i] = q[i]
  <2>1. /\ SubSeq(q, 1, Len(p)) \in Seq(Keys) /\ Len(SubSeq(q, 1, Len(p))) = Len(p)
        /\ \A i \in 1 .. Len(p) : SubSeq(q, 1, Len(p))[i] = q[i]
    BY <1>1, <1>3, SubSeqProperties
  <2>2. (\A i \in 1 .. Len(p) : p[i] = q[i]) => SubSeq(q, 1, Len(p)) = p
    BY <2>1, SeqEqual
  <2> QED
    BY <2>1, <2>2
<1> QED
  BY <1>2, <1>3 DEF Under, IsPrefix

LEMMA SamePath ==
    ASSUME NEW p \in Seq(Keys), NEW q \in Seq(Keys), Len(p) = Len(q), \A i \in 1 .. Len(p) : p[i] = q[i]
    PROVE  p = q
BY SeqEqual

LEMMA UnderItself == \A p \in Seq(Keys) : Under(p, p)
BY UnderIs, LenProperties

LEMMA UnderTogether ==
    ASSUME NEW p \in Seq(Keys), NEW q \in Seq(Keys), NEW r \in Seq(Keys)
    PROVE  /\ Under(p, q) /\ Under(q, r) => Under(p, r)
           /\ Under(p, r) /\ Under(q, r) => Under(p, q) \/ Under(q, p)
           /\ Under(p, q) /\ Under(q, p) => p = q
           /\ Under(p, q) => Len(p) <= Len(q) /\ (Len(p) = Len(q) => p = q)
<1>1. Len(p) \in Nat /\ Len(q) \in Nat /\ Len(r) \in Nat
  BY LenProperties
<1>2. /\ Under(p, q) <=> Len(p) <= Len(q) /\ \A i \in 1 .. Len(p) : p[i] = q[i]
      /\ Under(q, p) <=> Len(q) <= Len(p) /\ \A i \in 1 .. Len(q) : q[i] = p[i]
      /\ Under(q, r) <=> Len(q) <= Len(r) /\ \A i \in 1 .. Len(q) : q[i] = r[i]
      /\ Under(p, r) <=> Len(p) <= Len(r) /\ \A i \in 1 .. Len(p) : p[i] = r[i]
  BY UnderIs
<1>3. Under(p, q) /\ Under(q, r) => Under(p, r)
  <2> SUFFICES ASSUME Under(p, q), Under(q, r) PROVE Under(p, r)
    OBVIOUS
  <2>1. \A i \in 1 .. Len(p) : i \in 1 .. Len(q)
    BY <1>1, <1>2
  <2> QED
    BY <1>1, <1>2, <2>1
<1>4. Under(p, r) /\ Under(q, r) => Under(p, q) \/ Under(q, p)
  <2> SUFFICES ASSUME Under(p, r), Under(q, r) PROVE Under(p, q) \/ Under(q, p)
    OBVIOUS
  <2>1. CASE Len(p) <= Len(q)
    <3>1. \A i \in 1 .. Len(p) : i \in 1 .. Len(q)
      BY <1>1, <2>1
    <3> QED
      BY <1>2, <2>1, <3>1
  <2>2. CASE Len(q) <= Len(p)
    <3>1. \A i \in 1 .. Len(q) : i \in 1 .. Len(p)
      BY <1>1, <2>2
    <3> QED
      BY <1>2, <2>2, <3>1
  <2> QED
    BY <1>1, <2>1, <2>2
<1>5. Under(p, q) => Len(p) <= Len(q) /\ (Len(p) = Len(q) => p = q)
  BY <1>2, SamePath
<1>6. Under(p, q) /\ Under(q, p) => p = q
  <2> SUFFICES ASSUME Under(p, q), Under(q, p) PROVE p = q
    OBVIOUS
  <2>1. Len(p) <= Len(q) /\ Len(q) <= Len(p)
    BY <1>2
  <2> QED
    BY <1>1, <1>5, <2>1
<1> QED
  BY <1>3, <1>4, <1>5, <1>6

(* The first keys of a path.                                               *)
LEMMA Shortened ==
    ASSUME NEW q \in Seq(Keys), NEW n \in 1 .. Len(q)
    PROVE  /\ SubSeq(q, 1, n) \in Places /\ Len(SubSeq(q, 1, n)) = n /\ Under(SubSeq(q, 1, n), q)
           /\ \A p \in Seq(Keys) : Under(p, q) /\ Len(p) = n => p = SubSeq(q, 1, n)
<1>1. Len(q) \in Nat
  BY LenProperties
<1>2. SubSeq(q, 1, n) \in Seq(Keys) /\ Len(SubSeq(q, 1, n)) = n /\ \A i \in 1 .. n : SubSeq(q, 1, n)[i] = q[i]
  BY <1>1, SubSeqProperties
<1>3. Under(SubSeq(q, 1, n), q)
  <2> DEFINE p == SubSeq(q, 1, n)
  <2> HIDE DEF p
  <2>1. p \in Seq(Keys) /\ Len(p) = n /\ n <= Len(q) /\ \A i \in 1 .. Len(p) : p[i] = q[i]
    BY <1>1, <1>2 DEF p
  <2>2. Under(p, q)
    BY <2>1, UnderIs
  <2> QED
    BY <2>2 DEF p
<1>4. ASSUME NEW p \in Seq(Keys), Under(p, q), Len(p) = n PROVE p = SubSeq(q, 1, n)
  <2>1. \A i \in 1 .. Len(p) : p[i] = q[i]
    BY <1>4, UnderIs
  <2> QED
    BY <1>2, <1>4, <2>1, SamePath
<1> QED
  BY <1>2, <1>3, <1>4 DEF Places

LEMMA ParentIs ==
    ASSUME NEW q \in Seq(Keys), Len(q) > 1
    PROVE  /\ Up(q) \in Places /\ Len(Up(q)) = Len(q) - 1 /\ Under(Up(q), q) /\ Up(q) # q
           /\ \A p \in Seq(Keys) : Under(p, q) /\ p # q => Under(p, Up(q))
<1>1. Len(q) \in Nat /\ Len(q) - 1 \in 1 .. Len(q)
  BY LenProperties
<1>2. Up(q) = SubSeq(q, 1, Len(q) - 1)
  BY DEF Up
<1>3. Up(q) \in Places /\ Len(Up(q)) = Len(q) - 1 /\ Under(Up(q), q)
  BY <1>1, <1>2, Shortened
<1>4. ASSUME NEW p \in Seq(Keys), Under(p, q), p # q PROVE Under(p, Up(q))
  <2>1. Len(p) <= Len(q) /\ Len(p) # Len(q)
    BY <1>4, UnderTogether
  <2>2. Len(p) <= Len(Up(q))
    BY <1>1, <1>3, <2>1, LenProperties
  <2>3. Up(q) \in Seq(Keys)
    BY <1>3 DEF Places
  <2>4. Under(p, Up(q)) \/ Under(Up(q), p)
    BY <1>3, <1>4, <2>3, UnderTogether
  <2>5. Under(Up(q), p) => Len(Up(q)) <= Len(p) /\ (Len(p) = Len(Up(q)) => Up(q) = p)
    BY <2>3, UnderTogether
  <2>6. Under(Up(q), p) => Up(q) = p
    BY <1>1, <1>3, <2>2, <2>5, LenProperties
  <2> QED
    BY <2>4, <2>6, UnderItself
<1> QED
  BY <1>1, <1>3, <1>4

-----------------------------------------------------------------------------
(* Documents: what is at a place, if anything.                             *)
At(doc, q) == IF q \in DOMAIN doc THEN {doc[q]} ELSE {}

LEMMA HasParents ==
    ASSUME NEW d, IsDocument(d), NEW q \in DOMAIN d, NEW p \in Places, Under(p, q)
    PROVE  p \in DOMAIN d /\ (p # q => d[p] = "object")
<1> DEFINE Fine(r) == p \in DOMAIN d /\ (p # r => d[p] = "object")
           S == {n \in Nat : \A r \in DOMAIN d : Under(p, r) /\ Len(r) = n => Fine(r)}
<1>1. \A r \in DOMAIN d : r \in Seq(Keys) /\ Len(r) \in Nat /\ Len(r) # 0
  BY LenProperties DEF IsDocument
<1>2. p \in Seq(Keys) /\ Len(p) \in Nat /\ Len(p) # 0
  BY LenProperties DEF Places
<1>3. 0 \in S
  BY <1>1
<1>4. ASSUME NEW n \in 1 .. Len(q), n - 1 \in S PROVE n \in S
  <2> SUFFICES ASSUME NEW r \in DOMAIN d, Under(p, r), Len(r) = n PROVE Fine(r)
    OBVIOUS
  <2>1. CASE p = r
    BY <2>1
  <2>2. CASE p # r
    <3>1. Len(p) <= Len(r) /\ Len(p) # Len(r)
      BY <1>1, <1>2, <2>2, UnderTogether
    <3>2. Len(r) > 1
      BY <1>1, <1>2, <3>1
    <3>3. Up(r) \in DOMAIN d /\ d[Up(r)] = "object"
      BY <3>2 DEF IsDocument
    <3>4. Under(p, Up(r)) /\ Len(Up(r)) = n - 1
      BY <1>1, <1>2, <2>2, <3>2, ParentIs
    <3>5. Fine(Up(r))
      BY <1>4, <3>3, <3>4
    <3> QED
      BY <3>3, <3>5
  <2> QED
    BY <2>1, <2>2
<1> HIDE DEF S
<1>5. Len(q) \in Nat /\ Len(q) \in 0 .. Len(q)
  BY <1>1
<1>6. \A i \in 0 .. Len(q) : i \in S
  BY <1>3, <1>4, <1>5, StepByStep
<1> QED
  BY <1>5, <1>6 DEF S

LEMMA SameDocument ==
    ASSUME NEW c, NEW d, IsDocument(c), IsDocument(d), \A q \in Places : At(c, q) = At(d, q)
    PROVE  c = d
<1>1. DOMAIN c \subseteq Places /\ DOMAIN d \subseteq Places
  BY DEF IsDocument, Places
<1>2. DOMAIN c = DOMAIN d
  BY <1>1 DEF At
<1>3. \A q \in DOMAIN c : c[q] = d[q]
  BY <1>1, <1>2 DEF At
<1>4. c = [q \in DOMAIN c |-> c[q]] /\ d = [q \in DOMAIN d |-> d[q]]
  BY DEF IsDocument
<1> QED
  BY <1>2, <1>3, <1>4

(* Documents are made of places that have their parents.                   *)
LEMMA DocumentIs ==
    ASSUME NEW d, IsFiniteSet(DOMAIN d), DOMAIN d \subseteq Places, d = [q \in DOMAIN d |-> d[q]],
           \A q \in DOMAIN d : Len(q) > 1 => At(d, Up(q)) = {"object"}
    PROVE  IsDocument(d)
<1>1. ASSUME NEW q \in DOMAIN d, Len(q) > 1 PROVE Up(q) \in DOMAIN d /\ d[Up(q)] = "object"
  <2>1. At(d, Up(q)) = {"object"}
    BY <1>1
  <2> QED
    BY <2>1 DEF At
<1> QED
  BY <1>1 DEF IsDocument, Places

-----------------------------------------------------------------------------
(* Setting a pointer: what is on the way to it or below it is the          *)
(* fragment's, the rest stays.                                             *)
Touches(p, q) == Under(p, q) \/ Under(q, p)

LEMMA ParentsAre ==
    ASSUME NEW p \in Places
    PROVE  {SubSeq(p, 1, n) : n \in 1 .. (Len(p) - 1)} = {q \in Places : Under(q, p) /\ q # p}
<1>1. p \in Seq(Keys) /\ Len(p) \in Nat /\ Len(p) # 0
  BY LenProperties DEF Places
<1>2. ASSUME NEW n \in 1 .. (Len(p) - 1)
      PROVE  SubSeq(p, 1, n) \in Places /\ Under(SubSeq(p, 1, n), p) /\ SubSeq(p, 1, n) # p
  <2>1. n \in 1 .. Len(p) /\ n # Len(p)
    BY <1>1
  <2>2. SubSeq(p, 1, n) \in Places /\ Under(SubSeq(p, 1, n), p) /\ Len(SubSeq(p, 1, n)) = n
    BY <1>1, <2>1, Shortened
  <2> QED
    BY <2>1, <2>2
<1>3. ASSUME NEW q \in Places, Under(q, p), q # p PROVE \E n \in 1 .. (Len(p) - 1) : q = SubSeq(p, 1, n)
  <2>1. q \in Seq(Keys) /\ Len(q) \in Nat /\ Len(q) # 0
    BY LenProperties DEF Places
  <2>2. Len(q) <= Len(p) /\ Len(q) # Len(p)
    BY <1>1, <1>3, <2>1, UnderTogether
  <2>3. Len(q) \in 1 .. Len(p) /\ Len(q) \in 1 .. (Len(p) - 1)
    BY <1>1, <2>1, <2>2
  <2>4. q = SubSeq(p, 1, Len(q))
    BY <1>1, <1>3, <2>1, <2>3, Shortened
  <2> QED
    BY <2>3, <2>4
<1> QED
  BY <1>2, <1>3

LEMMA PointerIsSet ==
    ASSUME NEW d, NEW f, IsDocument(d), IsDocument(f), NEW p \in DOMAIN f
    PROVE  LET new == PointerSet(d, p, f)
           IN /\ IsDocument(new)
              /\ \A q \in Places : At(new, q) = IF Touches(p, q) THEN At(f, q) ELSE At(d, q)
<1> DEFINE value   == {q \in DOMAIN f : Under(p, q)}
           others  == {q \in DOMAIN d : ~Under(p, q)}
           parents == {SubSeq(p, 1, n) : n \in 1 .. (Len(p) - 1)}
           new     == PointerSet(d, p, f)
<1>1. DOMAIN f \subseteq Places /\ DOMAIN d \subseteq Places /\ p \in Places /\ p \in Seq(Keys) /\ Places \subseteq Seq(Keys)
  BY DEF IsDocument, Places
<1>2. parents = {q \in Places : Under(q, p) /\ q # p}
  BY <1>1, ParentsAre
<1>3. \A q \in parents : q \in DOMAIN f /\ f[q] = "object"
  BY <1>2, HasParents
<1>4. new = [q \in value \cup others \cup parents |->
                IF q \in value THEN f[q] ELSE IF q \in parents THEN "object" ELSE d[q]]
  BY DEF PointerSet
<1> HIDE DEF parents, new
<1>5. DOMAIN new = value \cup others \cup parents
  BY <1>4
<1>6. ASSUME NEW q \in Places PROVE At(new, q) = IF Touches(p, q) THEN At(f, q) ELSE At(d, q)
  <2>1. q \in Seq(Keys) /\ Under(p, p)
    BY <1>1, UnderItself
  <2>2. Under(p, q) /\ Under(q, p) => p = q
    BY <1>1, <2>1, UnderTogether
  <2>3. CASE Under(p, q)
    <3>1. q \notin parents /\ q \notin others
      BY <1>2, <2>2, <2>3
    <3>2. q \in DOMAIN f => q \in DOMAIN new /\ new[q] = f[q]
      BY <1>4, <1>5, <2>3
    <3>3. q \notin DOMAIN f => q \notin DOMAIN new
      BY <1>5, <3>1
    <3> QED
      BY <2>3, <3>2, <3>3 DEF At, Touches
  <2>4. CASE ~Under(p, q) /\ Under(q, p)
    <3>1. q \in parents /\ q \notin value
      BY <1>2, <2>1, <2>4
    <3>2. q \in DOMAIN new /\ new[q] = "object" /\ q \in DOMAIN f /\ f[q] = "object"
      BY <1>3, <1>4, <1>5, <3>1
    <3> QED
      BY <2>4, <3>2 DEF At, Touches
  <2>5. CASE ~Under(p, q) /\ ~Under(q, p)
    <3>1. q \notin parents /\ q \notin value
      BY <1>2, <2>5
    <3>2. q \in DOMAIN new <=> q \in DOMAIN d
      BY <1>5, <2>5, <3>1
    <3>3. q \in DOMAIN new => new[q] = d[q]
      BY <1>4, <1>5, <3>1
    <3> QED
      BY <2>5, <3>2, <3>3 DEF At, Touches
  <2> QED
    BY <2>3, <2>4, <2>5
<1>7. IsFiniteSet(DOMAIN new)
  <2>1. IsFiniteSet(DOMAIN f \cup DOMAIN d)
    BY FS_Union DEF IsDocument
  <2>2. DOMAIN new \in SUBSET (DOMAIN f \cup DOMAIN d)
    BY <1>3, <1>5
  <2> QED
    BY <2>1, <2>2, FS_Subset
<1>8. DOMAIN new \subseteq Places /\ new = [q \in DOMAIN new |-> new[q]]
  BY <1>1, <1>2, <1>4, <1>5
<1>9. ASSUME NEW q \in DOMAIN new, Len(q) > 1 PROVE At(new, Up(q)) = {"object"}
  <2>1. q \in Places /\ q \in Seq(Keys) /\ At(new, q) # {}
    BY <1>1, <1>8 DEF At
  <2>2. /\ Up(q) \in Places /\ Up(q) \in Seq(Keys) /\ Under(Up(q), q)
        /\ Under(p, q) /\ p # q => Under(p, Up(q))
    BY <1>1, <1>9, <2>1, ParentIs
  <2>3. /\ Under(Up(q), q) /\ Under(q, p) => Under(Up(q), p)
        /\ Under(p, Up(q)) /\ Under(Up(q), q) => Under(p, q)
    BY <1>1, <2>1, <2>2, UnderTogether
  <2>4. CASE Touches(p, q)
    <3>1. At(f, q) # {}
      BY <1>6, <2>1, <2>4
    <3>2. q \in DOMAIN f
      BY <3>1 DEF At
    <3>3. Up(q) \in DOMAIN f /\ f[Up(q)] = "object"
      BY <1>9, <3>2 DEF IsDocument
    <3>4. Touches(p, Up(q))
      BY <2>2, <2>3, <2>4, UnderItself DEF Touches
    <3> QED
      BY <1>6, <2>2, <3>3, <3>4 DEF At
  <2>5. CASE ~Touches(p, q)
    <3>1. At(d, q) # {}
      BY <1>6, <2>1, <2>5
    <3>2. Up(q) \in DOMAIN d /\ d[Up(q)] = "object"
      BY <1>9, <3>1 DEF IsDocument, At
    <3>3. CASE Touches(p, Up(q))
      <4>1. Under(Up(q), p) /\ Up(q) # p
        BY <2>2, <2>3, <2>5, <3>3 DEF Touches
      <4>2. Up(q) \in DOMAIN f /\ f[Up(q)] = "object"
        BY <2>2, <4>1, HasParents
      <4> QED
        BY <1>6, <2>2, <3>3, <4>2 DEF At
    <3>4. CASE ~Touches(p, Up(q))
      BY <1>6, <2>2, <3>2, <3>4 DEF At
    <3> QED
      BY <3>3, <3>4
  <2> QED
    BY <2>4, <2>5
<1>10. IsDocument(new)
  BY <1>7, <1>8, <1>9, DocumentIs
<1> QED
  BY <1>6, <1>10 DEF new

-----------------------------------------------------------------------------
(* The documents over some values.                                         *)
Documents(W) == {c \in UNION {[S -> W] : S \in SUBSET Places} : IsDocument(c)}
Over(c, W)   == \A q \in Places : At(c, q) \subseteq W
ValuesOf(d)  == {d[q] : q \in DOMAIN d}

LEMMA DocumentsAre ==
    ASSUME NEW W, NEW c
    PROVE  c \in Documents(W) <=> IsDocument(c) /\ Over(c, W)
<1>1. ASSUME c \in Documents(W) PROVE IsDocument(c) /\ Over(c, W)
  <2>1. PICK S \in SUBSET Places : c \in [S -> W]
    BY <1>1 DEF Documents
  <2> QED
    BY <1>1, <2>1 DEF Documents, Over, At
<1>2. ASSUME IsDocument(c), Over(c, W) PROVE c \in Documents(W)
  <2>1. DOMAIN c \in SUBSET Places /\ c = [q \in DOMAIN c |-> c[q]]
    BY <1>2 DEF IsDocument, Places
  <2>2. \A q \in DOMAIN c : c[q] \in W
    BY <1>2, <2>1 DEF Over, At
  <2>3. c \in [DOMAIN c -> W]
    BY <2>1, <2>2
  <2> QED
    BY <1>2, <2>1, <2>3 DEF Documents
<1> QED
  BY <1>1, <1>2

LEMMA OverItself ==
    ASSUME NEW d, NEW W, ValuesOf(d) \subseteq W
    PROVE  Over(d, W)
BY DEF Over, At, ValuesOf

(* Pointers, set one after another.                                        *)
SettingUpTo(d, pointers, f, n, g) ==
    g = [i \in 0 .. n |-> IF i = 0 THEN d ELSE PointerSet(g[i - 1], pointers[i], f)]

LEMMA SettingExists ==
    ASSUME NEW d, NEW f, IsDocument(d), IsDocument(f), NEW n \in Nat, NEW pointers, \A i \in 1 .. n : pointers[i] \in DOMAIN f
    PROVE  \E g : SettingUpTo(d, pointers, f, n, g)
<1> DEFINE W    == ValuesOf(d) \cup ValuesOf(f)
           D    == Documents(W)
           step == [i \in 1 .. n |-> [c \in D |-> PointerSet(c, pointers[i], f)]]
<1>1. Over(d, W) /\ Over(f, W)
  BY OverItself
<1> HIDE DEF W
<1>2. d \in D
  BY <1>1, DocumentsAre
<1>3. ASSUME NEW i \in 1 .. n, NEW c \in D PROVE PointerSet(c, pointers[i], f) \in D
  <2>1. IsDocument(c) /\ Over(c, W) /\ pointers[i] \in DOMAIN f
    BY DocumentsAre
  <2>2. /\ IsDocument(PointerSet(c, pointers[i], f))
        /\ \A q \in Places : At(PointerSet(c, pointers[i], f), q) = IF Touches(pointers[i], q) THEN At(f, q) ELSE At(c, q)
    BY <2>1, PointerIsSet
  <2>3. Over(PointerSet(c, pointers[i], f), W)
    BY <1>1, <2>1, <2>2 DEF Over
  <2> QED
    BY <2>2, <2>3, DocumentsAre
<1> HIDE DEF D
<1>4. \A i \in 1 .. n : step[i] \in [D -> D]
  BY <1>3
<1> HIDE DEF step
<1>5. PICK g : Iterates(g, D, d, step, n)
  BY <1>2, <1>4, IterationExists DEF Iterated
<1>6. g \in [0 .. n -> D] /\ g[0] = d /\ \A i \in 1 .. n : g[i] = PointerSet(g[i - 1], pointers[i], f)
  <2>1. g \in [0 .. n -> D] /\ g[0] = d /\ \A i \in 1 .. n : g[i] = step[i][g[i - 1]]
    BY <1>5 DEF Iterates
  <2>2. \A i \in 1 .. n : g[i - 1] \in D
    BY <2>1
  <2> QED
    BY <2>1, <2>2 DEF step
<1>7. \A i \in 0 .. n : g[i] = IF i = 0 THEN d ELSE PointerSet(g[i - 1], pointers[i], f)
  BY <1>6
<1>8. g = [i \in 0 .. n |-> g[i]]
  BY <1>6
<1> QED
  BY <1>7, <1>8 DEF SettingUpTo

SetBy(pointers, n, q) == \E i \in 1 .. n : Touches(pointers[i], q)

LEMMA PointersAreSet ==
    ASSUME NEW d, NEW f, IsDocument(d), IsDocument(f), NEW pointers, Listed(pointers), ToSet(pointers) \subseteq DOMAIN f
    PROVE  LET new == SetPointers(d, pointers, f)
           IN /\ IsDocument(new)
              /\ \A q \in Places : At(new, q) = IF SetBy(pointers, Len(pointers), q) THEN At(f, q) ELSE At(d, q)
<1> DEFINE n == Len(pointers)
           g == CHOOSE h : SettingUpTo(d, pointers, f, n, h)
           Right(i) == /\ IsDocument(g[i])
                       /\ \A q \in Places : At(g[i], q) = IF SetBy(pointers, i, q) THEN At(f, q) ELSE At(d, q)
           S == {i \in 0 .. n : Right(i)}
<1>1. n \in Nat /\ \A i \in 1 .. n : pointers[i] \in DOMAIN f
  BY ListIs
<1>2. SettingUpTo(d, pointers, f, n, g)
  BY <1>1, SettingExists
<1>3. SetPointers(d, pointers, f) = g[n]
  BY DEF SetPointers, SettingUpTo
<1> HIDE DEF g
<1>4. g[0] = d /\ \A i \in 1 .. n : g[i] = PointerSet(g[i - 1], pointers[i], f)
  BY <1>1, <1>2 DEF SettingUpTo
<1>5. 0 \in S
  BY <1>1, <1>4 DEF SetBy
<1>6. ASSUME NEW i \in 1 .. n, i - 1 \in S PROVE i \in S
  <2>1. Right(i - 1) /\ pointers[i] \in DOMAIN f /\ g[i] = PointerSet(g[i - 1], pointers[i], f)
    BY <1>1, <1>4, <1>6
  <2>2. /\ IsDocument(g[i])
        /\ \A q \in Places : At(g[i], q) = IF Touches(pointers[i], q) THEN At(f, q) ELSE At(g[i - 1], q)
    BY <2>1, PointerIsSet
  <2>3. \A q : SetBy(pointers, i, q) <=> SetBy(pointers, i - 1, q) \/ Touches(pointers[i], q)
    BY DEF SetBy
  <2> QED
    BY <2>1, <2>2, <2>3
<1> HIDE DEF S
<1>7. \A i \in 0 .. n : i \in S
  BY <1>1, <1>5, <1>6, StepByStep
<1>8. n \in 0 .. n
  BY <1>1
<1>9. n \in S
  BY <1>7, <1>8
<1> QED
  BY <1>3, <1>9 DEF S

-----------------------------------------------------------------------------
(* What an acl owns of a document depends on the place, not on what else   *)
(* the document has.                                                       *)
Fit(p, filter) == \A i \in DOMAIN p \cap DOMAIN filter : p[i] \in filter[i]
ChosenBy(glob, filters, p) ==
    \E o \in Places : /\ Under(o, p) /\ Globs(glob, o)
                     /\ \E f \in filters : Fit(o, f) /\ IF Len(f) > Len(o) THEN Globs(f, p) ELSE p = o
Owns(glob, deepest, filters, p) ==
    IF deepest /\ filters # {} THEN ChosenBy(glob, filters, p) ELSE Globs(glob, p)

LEMMA OwnedIs ==
    ASSUME NEW d, IsDocument(d), NEW glob, NEW deepest, NEW filters
    PROVE  OwnedLevel(glob, deepest, filters, d) = {p \in DOMAIN d : Owns(glob, deepest, filters, p)}
<1>1. Resolve(glob, d) = {p \in DOMAIN d : Globs(glob, p)}
  BY DEF Resolve
<1>2. DOMAIN d \subseteq Places /\ DOMAIN d \subseteq Seq(Keys)
  BY DEF IsDocument, Places
<1>3. ASSUME NEW p PROVE p \in Filter(Resolve(glob, d), filters, d) <=> p \in DOMAIN d /\ ChosenBy(glob, filters, p)
  <2> DEFINE Chosen1(o, f) == IF Len(f) > Len(o) THEN {q \in Resolve(f, d) : Under(o, q)} ELSE {o}
  <2>1. p \in Filter(Resolve(glob, d), filters, d)
            <=> \E o \in Resolve(glob, d) : \E f \in filters : Fit(o, f) /\ p \in Chosen1(o, f)
    BY DEF Filter, Fit
  <2>2. ASSUME NEW o \in Resolve(glob, d), NEW f \in filters, Fit(o, f), p \in Chosen1(o, f)
        PROVE  p \in DOMAIN d /\ ChosenBy(glob, filters, p)
    <3>1. o \in DOMAIN d /\ o \in Places /\ Globs(glob, o) /\ Under(o, o)
      BY <1>1, <1>2, UnderItself
    <3>2. CASE Len(f) > Len(o)
      <4>1. p \in DOMAIN d /\ Globs(f, p) /\ Under(o, p)
        BY <2>2, <3>2 DEF Resolve
      <4> QED
        BY <2>2, <3>1, <3>2, <4>1 DEF ChosenBy
    <3>3. CASE ~(Len(f) > Len(o))
      <4>1. p = o
        BY <2>2, <3>3
      <4> QED
        BY <2>2, <3>1, <3>3, <4>1 DEF ChosenBy
    <3> QED
      BY <3>2, <3>3
  <2>3. ASSUME p \in DOMAIN d, ChosenBy(glob, filters, p)
        PROVE  \E o \in Resolve(glob, d) : \E f \in filters : Fit(o, f) /\ p \in Chosen1(o, f)
    <3>1. PICK o \in Places, f \in filters :
              Under(o, p) /\ Globs(glob, o) /\ Fit(o, f) /\ IF Len(f) > Len(o) THEN Globs(f, p) ELSE p = o
      BY <2>3 DEF ChosenBy
    <3>2. o \in DOMAIN d
      BY <2>3, <3>1, HasParents
    <3>3. o \in Resolve(glob, d)
      BY <1>1, <3>1, <3>2
    <3>4. p \in Chosen1(o, f)
      BY <2>3, <3>1 DEF Resolve
    <3> QED
      BY <3>1, <3>3, <3>4
  <2> QED
    BY <2>1, <2>2, <2>3
<1>4. CASE deepest /\ filters # {}
  BY <1>3, <1>4 DEF OwnedLevel, Owns
<1>5. CASE ~(deepest /\ filters # {})
  BY <1>1, <1>5 DEF OwnedLevel, Owns
<1> QED
  BY <1>4, <1>5

(* A level of an acl takes away what the fragment has not.                 *)
TakenAt(acl, n, f, filters, q) ==
    /\ SubSeq(acl.pointer, 1, n) \notin acl.cant_delete
    /\ \E p \in Places : /\ Under(p, q) /\ p \notin DOMAIN f /\ ~Protected(p, acl.cant_delete)
                         /\ Owns(SubSeq(acl.pointer, 1, n), n = Len(acl.pointer), filters, p)

LEMMA LevelIsRemoved ==
    ASSUME NEW d, NEW f, IsDocument(d), IsDocument(f), NEW acl, NEW n, NEW filters
    PROVE  LET new == RemoveLevel(d, acl, n, f, filters)
           IN /\ IsDocument(new)
              /\ \A q \in Places : At(new, q) = IF TakenAt(acl, n, f, filters, q) THEN {} ELSE At(d, q)
<1> DEFINE glob    == SubSeq(acl.pointer, 1, n)
           deepest == n = Len(acl.pointer)
           gone    == {p \in OwnedLevel(glob, deepest, filters, d) \ OwnedLevel(glob, deepest, filters, f) :
                           ~Protected(p, acl.cant_delete)}
           kept    == {q \in DOMAIN d : \A p \in gone : ~Under(p, q)}
           new     == RemoveLevel(d, acl, n, f, filters)
           Takes(q) == TakenAt(acl, n, f, filters, q)
<1>1. DOMAIN d \subseteq Places /\ d = [q \in DOMAIN d |-> d[q]] /\ Places \subseteq Seq(Keys)
  BY DEF IsDocument, Places
<1>2. CASE glob \in acl.cant_delete
  <2>1. new = d /\ \A q : ~Takes(q)
    BY <1>2 DEF RemoveLevel, TakenAt
  <2> QED
    BY <2>1
<1>3. CASE glob \notin acl.cant_delete
  <2>1. new = [q \in kept |-> d[q]]
    BY <1>3 DEF RemoveLevel, Keep
  <2>2. \A p : p \in gone <=> /\ p \in DOMAIN d /\ p \notin DOMAIN f /\ ~Protected(p, acl.cant_delete)
                              /\ Owns(glob, deepest, filters, p)
    BY OwnedIs
  <2> HIDE DEF gone, new
  <2>3. ASSUME NEW q \in DOMAIN d PROVE q \in kept <=> ~Takes(q)
    <3>1. \A p \in Places : Under(p, q) => p \in DOMAIN d
      BY HasParents
    <3>2. (\E p \in gone : Under(p, q)) <=> Takes(q)
      BY <1>1, <1>3, <2>2, <3>1 DEF TakenAt
    <3> QED
      BY <3>2
  <2>4. \A q \in Places : At(new, q) = IF Takes(q) THEN {} ELSE At(d, q)
    BY <2>1, <2>3 DEF At
  <2>5. DOMAIN new \in SUBSET DOMAIN d /\ DOMAIN new \subseteq Places /\ new = [q \in DOMAIN new |-> new[q]]
    BY <1>1, <2>1
  <2>6. IsFiniteSet(DOMAIN new)
    BY <2>5, FS_Subset DEF IsDocument
  <2>7. ASSUME NEW q \in DOMAIN new, Len(q) > 1 PROVE At(new, Up(q)) = {"object"}
    <3>1. q \in DOMAIN d /\ q \in Seq(Keys) /\ ~Takes(q)
      BY <1>1, <2>1, <2>3, <2>5
    <3>2. Up(q) \in DOMAIN d /\ d[Up(q)] = "object" /\ Up(q) \in Places /\ Up(q) \in Seq(Keys) /\ Under(Up(q), q)
      BY <1>1, <2>7, <3>1, ParentIs DEF IsDocument
    <3>3. \A p \in Places : Under(p, Up(q)) => Under(p, q)
      BY <1>1, <3>1, <3>2, UnderTogether
    <3>4. ~Takes(Up(q))
      BY <3>1, <3>3 DEF TakenAt
    <3> QED
      BY <2>4, <3>2, <3>4 DEF At
  <2>8. IsDocument(new)
    BY <2>5, <2>6, <2>7, DocumentIs
  <2> QED
    BY <2>4, <2>8 DEF new
<1> QED
  BY <1>2, <1>3

(* All levels of an acl.                                                   *)
RemovingUpTo(d, acl, f, filters, n, g) ==
    g = [i \in 0 .. n |-> IF i = 0 THEN d ELSE RemoveLevel(g[i - 1], acl, i, f, filters)]

LEMMA RemovingExists ==
    ASSUME NEW d, NEW f, IsDocument(d), IsDocument(f), NEW acl, NEW filters, NEW n \in Nat
    PROVE  \E g : RemovingUpTo(d, acl, f, filters, n, g)
<1> DEFINE W    == ValuesOf(d)
           D    == Documents(W)
           step == [i \in 1 .. n |-> [c \in D |-> RemoveLevel(c, acl, i, f, filters)]]
<1>1. Over(d, W)
  BY OverItself
<1> HIDE DEF W
<1>2. d \in D
  BY <1>1, DocumentsAre
<1>3. ASSUME NEW i \in 1 .. n, NEW c \in D PROVE RemoveLevel(c, acl, i, f, filters) \in D
  <2>1. IsDocument(c) /\ Over(c, W)
    BY DocumentsAre
  <2>2. /\ IsDocument(RemoveLevel(c, acl, i, f, filters))
        /\ \A q \in Places : At(RemoveLevel(c, acl, i, f, filters), q) = IF TakenAt(acl, i, f, filters, q) THEN {} ELSE At(c, q)
    BY <2>1, LevelIsRemoved
  <2>3. Over(RemoveLevel(c, acl, i, f, filters), W)
    BY <2>1, <2>2 DEF Over
  <2> QED
    BY <2>2, <2>3, DocumentsAre
<1> HIDE DEF D
<1>4. \A i \in 1 .. n : step[i] \in [D -> D]
  BY <1>3
<1> HIDE DEF step
<1>5. PICK g : Iterates(g, D, d, step, n)
  BY <1>2, <1>4, IterationExists DEF Iterated
<1>6. g \in [0 .. n -> D] /\ g[0] = d /\ \A i \in 1 .. n : g[i] = RemoveLevel(g[i - 1], acl, i, f, filters)
  <2>1. g \in [0 .. n -> D] /\ g[0] = d /\ \A i \in 1 .. n : g[i] = step[i][g[i - 1]]
    BY <1>5 DEF Iterates
  <2>2. \A i \in 1 .. n : g[i - 1] \in D
    BY <2>1
  <2> QED
    BY <2>1, <2>2 DEF step
<1>7. \A i \in 0 .. n : g[i] = IF i = 0 THEN d ELSE RemoveLevel(g[i - 1], acl, i, f, filters)
  BY <1>6
<1>8. g = [i \in 0 .. n |-> g[i]]
  BY <1>6
<1> QED
  BY <1>7, <1>8 DEF RemovingUpTo

Taken(acl, n, f, filters, q) == \E i \in 1 .. n : TakenAt(acl, i, f, filters, q)

LEMMA RemovedUpTo ==
    ASSUME NEW d, NEW f, IsDocument(d), IsDocument(f), NEW acl, NEW filters, NEW n \in Nat, NEW g,
           RemovingUpTo(d, acl, f, filters, n, g)
    PROVE  /\ IsDocument(g[n])
           /\ \A q \in Places : At(g[n], q) = IF Taken(acl, n, f, filters, q) THEN {} ELSE At(d, q)
<1> DEFINE Right(i) == /\ IsDocument(g[i])
                       /\ \A q \in Places : At(g[i], q) = IF Taken(acl, i, f, filters, q) THEN {} ELSE At(d, q)
           S == {i \in 0 .. n : Right(i)}
<1>1. \A i \in 0 .. n : g[i] = IF i = 0 THEN d ELSE RemoveLevel(g[i - 1], acl, i, f, filters)
  BY DEF RemovingUpTo
<1>2. g[0] = d /\ \A i \in 1 .. n : g[i] = RemoveLevel(g[i - 1], acl, i, f, filters)
  BY <1>1
<1>3. 0 \in S
  BY <1>2 DEF Taken
<1>4. ASSUME NEW i \in 1 .. n, i - 1 \in S PROVE i \in S
  <2> DEFINE c == g[i - 1]
  <2>1. Right(i - 1) /\ IsDocument(c) /\ g[i] = RemoveLevel(c, acl, i, f, filters)
    BY <1>2, <1>4
  <2>2. /\ IsDocument(RemoveLevel(c, acl, i, f, filters))
        /\ \A q \in Places : At(RemoveLevel(c, acl, i, f, filters), q) = IF TakenAt(acl, i, f, filters, q) THEN {} ELSE At(c, q)
    <3> HIDE DEF c
    <3> QED
      BY <2>1, LevelIsRemoved
  <2>3. \A q : Taken(acl, i, f, filters, q) <=> Taken(acl, i - 1, f, filters, q) \/ TakenAt(acl, i, f, filters, q)
    BY DEF Taken
  <2> QED
    BY <2>1, <2>2, <2>3
<1> HIDE DEF S
<1>5. \A i \in 0 .. n : i \in S
  BY <1>3, <1>4, StepByStep
<1>6. n \in S
  BY <1>5
<1> QED
  BY <1>6 DEF S

LEMMA LevelsAreRemoved ==
    ASSUME NEW d, NEW f, IsDocument(d), IsDocument(f), NEW acl, Listed(acl.pointer), NEW filters
    PROVE  LET new == RemoveLevels(d, acl, f, filters)
           IN /\ IsDocument(new)
              /\ \A q \in Places : At(new, q) = IF Taken(acl, Len(acl.pointer), f, filters, q) THEN {} ELSE At(d, q)
<1> DEFINE n == Len(acl.pointer)
           g == CHOOSE h : RemovingUpTo(d, acl, f, filters, n, h)
<1>1. n \in Nat
  BY ListIs
<1>2. RemoveLevels(d, acl, f, filters) = g[n]
  BY DEF RemoveLevels, RemovingUpTo
<1> HIDE DEF n
<1>3. RemovingUpTo(d, acl, f, filters, n, g)
  BY <1>1, RemovingExists
<1> HIDE DEF g
<1>4. /\ IsDocument(g[n])
      /\ \A q \in Places : At(g[n], q) = IF Taken(acl, n, f, filters, q) THEN {} ELSE At(d, q)
  BY <1>1, <1>3, RemovedUpTo
<1> QED
  BY <1>2, <1>4 DEF n

-----------------------------------------------------------------------------
(* One acl of a fragment.                                                  *)
IsAcl(acl) == Listed(acl.pointer)
SetFor(acl, f, filters, q)   == \E p \in OwnedLevel(acl.pointer, TRUE, filters, f) : Touches(p, q)
TakenFor(acl, f, filters, q) == Taken(acl, Len(acl.pointer), f, filters, q)

LEMMA AclIsApplied ==
    ASSUME NEW d, NEW f, IsDocument(d), IsDocument(f), NEW acl, IsAcl(acl), NEW filters
    PROVE  LET new == ApplyAclItem(d, acl, f, filters)
           IN /\ IsDocument(new)
              /\ \A q \in Places : At(new, q) = IF SetFor(acl, f, filters, q) THEN At(f, q)
                                               ELSE IF TakenFor(acl, f, filters, q) THEN {} ELSE At(d, q)
<1> DEFINE owned == OwnedLevel(acl.pointer, TRUE, filters, f)
           ps    == SetToSeq(owned)
           set   == SetPointers(d, ps, f)
           new   == ApplyAclItem(d, acl, f, filters)
           Set1(q)  == SetFor(acl, f, filters, q)
           Taken1(q) == TakenFor(acl, f, filters, q)
<1>1. owned \in SUBSET DOMAIN f
  BY OwnedIs
<1>2. IsFiniteSet(owned)
  BY <1>1, FS_Subset DEF IsDocument
<1>3. Listed(ps) /\ ToSet(ps) = owned
  BY <1>2, SetListed
<1>4. \A q : SetBy(ps, Len(ps), q) <=> Set1(q)
  <2>1. ToSet(ps) = {ps[i] : i \in 1 .. Len(ps)}
    BY <1>3, ListIs
  <2> QED
    BY <1>3, <2>1 DEF SetBy, SetFor
<1>5. IsDocument(set) /\ \A q \in Places : At(set, q) = IF Set1(q) THEN At(f, q) ELSE At(d, q)
  <2> HIDE DEF ps, owned, Set1
  <2>1. ToSet(ps) \subseteq DOMAIN f
    BY <1>1, <1>3
  <2> QED
    BY <1>3, <1>4, <2>1, PointersAreSet
<1> HIDE DEF set, Set1, Taken1
<1>6. new = RemoveLevels(set, acl, f, filters)
  BY DEF ApplyAclItem, set
<1> HIDE DEF new
<1>7. IsDocument(new) /\ \A q \in Places : At(new, q) = IF Taken1(q) THEN {} ELSE At(set, q)
  BY <1>5, <1>6, LevelsAreRemoved DEF IsAcl, Taken1, TakenFor
<1>8. ASSUME NEW q \in Places, Taken1(q) PROVE At(f, q) = {}
  <2>1. PICK p \in Places : Under(p, q) /\ p \notin DOMAIN f
    BY <1>8 DEF Taken1, TakenFor, Taken, TakenAt
  <2>2. q \notin DOMAIN f
    BY <2>1, HasParents
  <2> QED
    BY <2>2 DEF At
<1> QED
  BY <1>5, <1>7, <1>8 DEF new, Set1, Taken1

-----------------------------------------------------------------------------
(* Objects that are gone are written as null.                              *)
Nulled(S) == {"null" : v \in S \cap {"object", "null"}}
Stands(doc, q) == Len(q) = 1 \/ At(doc, Up(q)) = {"object"}

LEMMA RemovedAreNulled ==
    ASSUME NEW d, NEW c, IsDocument(d), IsDocument(c)
    PROVE  LET new == NullifyRemoved(d, c)
           IN /\ IsDocument(new)
              /\ \A q \in Places : At(new, q) = IF At(c, q) = {} /\ Stands(c, q) THEN Nulled(At(d, q)) ELSE At(c, q)
<1> DEFINE nulls == {p \in DOMAIN d \ DOMAIN c :
                       /\ d[p] \in {"object", "null"}
                       /\ Len(p) = 1 \/ (Up(p) \in DOMAIN c /\ c[Up(p)] = "object")}
           new   == NullifyRemoved(d, c)
<1>1. DOMAIN d \subseteq Places /\ DOMAIN c \subseteq Places /\ c = [q \in DOMAIN c |-> c[q]] /\ Places \subseteq Seq(Keys)
  BY DEF IsDocument, Places
<1>2. new = [p \in DOMAIN c \cup nulls |-> IF p \in nulls THEN "null" ELSE c[p]]
  BY DEF NullifyRemoved
<1>3. \A q : Len(q) = 1 \/ (Up(q) \in DOMAIN c /\ c[Up(q)] = "object") <=> Stands(c, q)
  BY DEF Stands, At
<1>4. \A q : q \in nulls <=> q \in DOMAIN d /\ q \notin DOMAIN c /\ d[q] \in {"object", "null"} /\ Stands(c, q)
  BY <1>3
<1> HIDE DEF nulls, new
<1>5. ASSUME NEW q \in Places
      PROVE  At(new, q) = IF At(c, q) = {} /\ Stands(c, q) THEN Nulled(At(d, q)) ELSE At(c, q)
  <2>1. CASE q \in DOMAIN c
    BY <1>2, <1>4, <2>1 DEF At
  <2>2. CASE q \in nulls
    <3>1. q \in DOMAIN d /\ q \notin DOMAIN c /\ d[q] \in {"object", "null"} /\ Stands(c, q)
      BY <1>4, <2>2
    <3>2. At(d, q) = {d[q]} /\ At(c, q) = {}
      BY <3>1 DEF At
    <3>3. Nulled(At(d, q)) = {"null"}
      BY <3>1, <3>2 DEF Nulled
    <3>4. At(new, q) = {"null"}
      BY <1>2, <2>2 DEF At
    <3> QED
      BY <3>1, <3>2, <3>3, <3>4
  <2>3. CASE q \notin nulls /\ q \notin DOMAIN c
    <3>1. At(new, q) = {} /\ At(c, q) = {}
      BY <1>2, <2>3 DEF At
    <3>2. Stands(c, q) => Nulled(At(d, q)) = {}
      BY <1>4, <2>3 DEF At, Nulled
    <3> QED
      BY <3>1, <3>2
  <2> QED
    BY <2>1, <2>2, <2>3
<1>6. DOMAIN new = DOMAIN c \cup nulls /\ nulls \subseteq DOMAIN d /\ new = [q \in DOMAIN new |-> new[q]]
  BY <1>2, <1>4
<1>7. IsFiniteSet(DOMAIN new)
  <2>1. IsFiniteSet(DOMAIN c \cup DOMAIN d)
    BY FS_Union DEF IsDocument
  <2>2. DOMAIN new \in SUBSET (DOMAIN c \cup DOMAIN d)
    BY <1>6
  <2> QED
    BY <2>1, <2>2, FS_Subset
<1>8. ASSUME NEW q \in DOMAIN new, Len(q) > 1 PROVE At(new, Up(q)) = {"object"}
  <2>1. q \in Places /\ q \in Seq(Keys)
    BY <1>1, <1>6
  <2>2. Up(q) \in Places
    BY <1>8, <2>1, ParentIs
  <2>3. At(c, Up(q)) = {"object"}
    <3>1. CASE q \in DOMAIN c
      <4>1. Up(q) \in DOMAIN c /\ c[Up(q)] = "object"
        BY <1>8, <3>1 DEF IsDocument
      <4> QED
        BY <4>1 DEF At
    <3>2. CASE q \in nulls
      <4>1. Len(q) # 1
        BY <1>8, <2>1, LenProperties
      <4> QED
        BY <1>4, <3>2, <4>1 DEF Stands
    <3> QED
      BY <1>6, <3>1, <3>2
  <2> QED
    BY <1>5, <2>2, <2>3
<1>9. IsDocument(new)
  BY <1>1, <1>6, <1>7, <1>8, DocumentIs
<1> QED
  BY <1>5, <1>9 DEF new

-----------------------------------------------------------------------------
(* The acls of a fragment, one after another.                              *)
AclStep(acl, f, filters, q, S) ==
    IF SetFor(acl, f, filters, q) THEN At(f, q) ELSE IF TakenFor(acl, f, filters, q) THEN {} ELSE S
AclsUpTo(d, acls, f, filters, n, g) ==
    g = [i \in 0 .. n |-> IF i = 0 THEN d ELSE ApplyAclItem(g[i - 1], acls[i], f, filters)]

(* Documents over W, and what each acl makes of each place.                *)
AclRun(d, acls, f, filters, n, W, g) ==
    /\ g[0] = d
    /\ \A i \in 0 .. n : IsDocument(g[i]) /\ Over(g[i], W)
    /\ \A i \in 1 .. n : \A q \in Places : At(g[i], q) = AclStep(acls[i], f, filters, q, At(g[i - 1], q))
AppliedOver(d, acls, f, filters, W) ==
    \E g : AclRun(d, acls, f, filters, Len(acls), W, g) /\ g[Len(acls)] = ApplyAcl(d, acls, f, filters)

LEMMA AclOver ==
    ASSUME NEW W, NEW c \in Documents(W), NEW f, IsDocument(f), Over(f, W), NEW acl, IsAcl(acl), NEW filters
    PROVE  LET new == ApplyAclItem(c, acl, f, filters)
           IN /\ new \in Documents(W)
              /\ \A q \in Places : At(new, q) = AclStep(acl, f, filters, q, At(c, q))
<1> DEFINE new == ApplyAclItem(c, acl, f, filters)
<1>1. IsDocument(c) /\ Over(c, W)
  BY DocumentsAre
<1>2. /\ IsDocument(new)
      /\ \A q \in Places : At(new, q) = IF SetFor(acl, f, filters, q) THEN At(f, q)
                                        ELSE IF TakenFor(acl, f, filters, q) THEN {} ELSE At(c, q)
  BY <1>1, AclIsApplied
<1> HIDE DEF new
<1>3. \A q \in Places : At(new, q) = AclStep(acl, f, filters, q, At(c, q))
  BY <1>2 DEF AclStep
<1>4. Over(new, W)
  BY <1>1, <1>2 DEF Over
<1> QED
  BY <1>2, <1>3, <1>4, DocumentsAre DEF new

LEMMA AclsExist ==
    ASSUME NEW W, NEW d \in Documents(W), NEW f, IsDocument(f), Over(f, W), NEW n \in Nat, NEW acls, NEW filters,
           \A i \in 1 .. n : IsAcl(acls[i])
    PROVE  \E g : AclsUpTo(d, acls, f, filters, n, g)
<1> DEFINE D    == Documents(W)
           step == [i \in 1 .. n |-> [c \in D |-> ApplyAclItem(c, acls[i], f, filters)]]
<1>1. ASSUME NEW i \in 1 .. n, NEW c \in D PROVE ApplyAclItem(c, acls[i], f, filters) \in D
  <2>1. IsAcl(acls[i])
    OBVIOUS
  <2> QED
    BY <2>1, AclOver
<1> HIDE DEF D
<1>2. \A i \in 1 .. n : step[i] \in [D -> D]
  BY <1>1
<1>3. d \in D
  BY DEF D
<1> HIDE DEF step
<1>4. PICK g : Iterates(g, D, d, step, n)
  BY <1>2, <1>3, IterationExists DEF Iterated
<1>5. g \in [0 .. n -> D] /\ g[0] = d /\ \A i \in 1 .. n : g[i] = ApplyAclItem(g[i - 1], acls[i], f, filters)
  <2>1. g \in [0 .. n -> D] /\ g[0] = d /\ \A i \in 1 .. n : g[i] = step[i][g[i - 1]]
    BY <1>4 DEF Iterates
  <2>2. \A i \in 1 .. n : g[i - 1] \in D
    BY <2>1
  <2> QED
    BY <2>1, <2>2 DEF step
<1>6. \A i \in 0 .. n : g[i] = IF i = 0 THEN d ELSE ApplyAclItem(g[i - 1], acls[i], f, filters)
  BY <1>5
<1>7. g = [i \in 0 .. n |-> g[i]]
  BY <1>5
<1> QED
  BY <1>6, <1>7 DEF AclsUpTo

LEMMA AclsRun ==
    ASSUME NEW W, NEW d \in Documents(W), NEW f, IsDocument(f), Over(f, W), NEW n \in Nat, NEW acls, NEW filters,
           \A i \in 1 .. n : IsAcl(acls[i]), NEW g, AclsUpTo(d, acls, f, filters, n, g)
    PROVE  AclRun(d, acls, f, filters, n, W, g)
<1> DEFINE S == {i \in 0 .. n : g[i] \in Documents(W)}
<1>1. \A i \in 0 .. n : g[i] = IF i = 0 THEN d ELSE ApplyAclItem(g[i - 1], acls[i], f, filters)
  BY DEF AclsUpTo
<1>2. g[0] = d /\ \A i \in 1 .. n : g[i] = ApplyAclItem(g[i - 1], acls[i], f, filters)
  BY <1>1
<1>3. 0 \in S
  BY <1>2
<1>4. ASSUME NEW i \in 1 .. n, g[i - 1] \in Documents(W)
      PROVE  /\ g[i] \in Documents(W)
             /\ \A q \in Places : At(g[i], q) = AclStep(acls[i], f, filters, q, At(g[i - 1], q))
  <2> DEFINE c == g[i - 1]
  <2>1. c \in Documents(W) /\ g[i] = ApplyAclItem(c, acls[i], f, filters) /\ IsAcl(acls[i])
    BY <1>2, <1>4
  <2> HIDE DEF c
  <2>2. /\ ApplyAclItem(c, acls[i], f, filters) \in Documents(W)
        /\ \A q \in Places : At(ApplyAclItem(c, acls[i], f, filters), q) = AclStep(acls[i], f, filters, q, At(c, q))
    BY <2>1, AclOver
  <2> QED
    BY <2>1, <2>2 DEF c
<1>5. ASSUME NEW i \in 1 .. n, i - 1 \in S PROVE i \in S
  BY <1>4, <1>5
<1> HIDE DEF S
<1>6. \A i \in 0 .. n : i \in S
  BY <1>3, <1>5, StepByStep
<1>7. \A i \in 0 .. n : g[i] \in Documents(W)
  BY <1>6 DEF S
<1>8. \A i \in 0 .. n : IsDocument(g[i]) /\ Over(g[i], W)
  BY <1>7, DocumentsAre
<1>9. \A i \in 1 .. n : i - 1 \in 0 .. n
  OBVIOUS
<1>10. \A i \in 1 .. n : \A q \in Places : At(g[i], q) = AclStep(acls[i], f, filters, q, At(g[i - 1], q))
  BY <1>4, <1>7, <1>9
<1> QED
  BY <1>2, <1>8, <1>10 DEF AclRun

LEMMA AclsAreApplied ==
    ASSUME NEW W, NEW d \in Documents(W), NEW f, IsDocument(f), Over(f, W), NEW acls, Listed(acls), NEW filters,
           \A acl \in ToSet(acls) : IsAcl(acl)
    PROVE  AppliedOver(d, acls, f, filters, W)
<1> DEFINE n == Len(acls)
           g == CHOOSE h : AclsUpTo(d, acls, f, filters, n, h)
<1>1. n \in Nat /\ \A i \in 1 .. n : IsAcl(acls[i])
  BY ListIs
<1>2. ApplyAcl(d, acls, f, filters) = g[n]
  BY DEF ApplyAcl, AclsUpTo
<1> HIDE DEF n
<1>3. AclsUpTo(d, acls, f, filters, n, g)
  BY <1>1, AclsExist
<1> HIDE DEF g
<1>4. AclRun(d, acls, f, filters, n, W, g)
  BY <1>1, <1>3, AclsRun
<1> QED
  BY <1>2, <1>4 DEF AppliedOver, n

-----------------------------------------------------------------------------
(* The fragments of a file, one after another.                             *)
Makes(r, useAcl, safe, filters, d) ==
    ApplyJsonFragment(d, r.config, AclsOf(r, useAcl, safe), filters, r.delete_with_null)
IsFragment(r, useAcl, safe, W) ==
    /\ IsDocument(r.config) /\ Over(r.config, W)
    /\ Listed(AclsOf(r, useAcl, safe)) /\ \A acl \in ToSet(AclsOf(r, useAcl, safe)) : IsAcl(acl)

LEMMA MadeOver ==
    ASSUME NEW W, "null" \in W, NEW d \in Documents(W), NEW r, NEW useAcl, NEW safe, NEW filters,
           IsFragment(r, useAcl, safe, W)
    PROVE  Makes(r, useAcl, safe, filters, d) \in Documents(W)
<1> DEFINE f    == r.config
           acls == AclsOf(r, useAcl, safe)
           c    == ApplyAcl(d, acls, f, filters)
           new  == NullifyRemoved(d, c)
<1>1. IsDocument(f) /\ Over(f, W) /\ Listed(acls) /\ \A acl \in ToSet(acls) : IsAcl(acl)
  BY DEF IsFragment
<1>2. Makes(r, useAcl, safe, filters, d) = IF r.delete_with_null THEN new ELSE c
  BY DEF Makes, ApplyJsonFragment
<1> HIDE DEF f, acls, c
<1>3. IsDocument(c) /\ Over(c, W)
  <2>1. PICK g : AclRun(d, acls, f, filters, Len(acls), W, g) /\ g[Len(acls)] = c
    BY <1>1, AclsAreApplied DEF AppliedOver, c
  <2>2. Len(acls) \in 0 .. Len(acls)
    BY <1>1, ListIs
  <2> QED
    BY <2>1, <2>2 DEF AclRun
<1>4. IsDocument(d) /\ Over(d, W)
  BY DocumentsAre
<1>5. /\ IsDocument(new)
      /\ \A q \in Places : At(new, q) = IF At(c, q) = {} /\ Stands(c, q) THEN Nulled(At(d, q)) ELSE At(c, q)
  BY <1>3, <1>4, RemovedAreNulled
<1> HIDE DEF new
<1>6. Over(new, W)
  BY <1>3, <1>5 DEF Over, Nulled
<1>7. c \in Documents(W) /\ new \in Documents(W)
  BY <1>3, <1>5, <1>6, DocumentsAre
<1> QED
  BY <1>2, <1>7

FilesUpTo(old, results, useAcl, safe, filters, n, g) ==
    g = [i \in 0 .. n |-> IF i = 0 THEN [config |-> old, reload |-> 0, prio |-> -1]
                          ELSE AddFragment(g[i - 1], results[i], useAcl, safe, filters)]
FileRun(old, results, useAcl, safe, filters, n, W, h) ==
    /\ h[0] = old
    /\ \A i \in 0 .. n : h[i] \in Documents(W)
    /\ \A i \in 1 .. n : h[i] = Makes(results[i], useAcl, safe, filters, h[i - 1])
MadeFrom(old, results, useAcl, safe, filters, W) ==
    \E h : /\ FileRun(old, results, useAcl, safe, filters, Len(results), W, h)
           /\ h[Len(results)] = NewJsonFile(old, results, useAcl, safe, filters).config

LEMMA FragmentAdded ==
    ASSUME NEW W, "null" \in W, NEW R, NEW P, 0 \in P, NEW file \in [config : Documents(W), reload : R, prio : P],
           NEW r, r.name \in R, r.reload_prio \in P, NEW useAcl, NEW safe, NEW filters, IsFragment(r, useAcl, safe, W)
    PROVE  /\ AddFragment(file, r, useAcl, safe, filters) \in [config : Documents(W), reload : R, prio : P]
           /\ AddFragment(file, r, useAcl, safe, filters).config = Makes(r, useAcl, safe, filters, file.config)
<1> DEFINE config == Makes(r, useAcl, safe, filters, file.config)
           prio   == IF config = file.config THEN 0 ELSE r.reload_prio
<1>1. config \in Documents(W)
  BY MadeOver
<1>2. AddFragment(file, r, useAcl, safe, filters) =
          IF file.prio > prio THEN [file EXCEPT !.config = config]
          ELSE [config |-> config, reload |-> r.name, prio |-> prio]
  BY DEF AddFragment, TakeReload, Makes
<1> HIDE DEF config
<1>3. prio \in P
  OBVIOUS
<1> HIDE DEF prio
<1>4. /\ [file EXCEPT !.config = config] \in [config : Documents(W), reload : R, prio : P]
      /\ [file EXCEPT !.config = config].config = config
  BY <1>1
<1>5. /\ [config |-> config, reload |-> r.name, prio |-> prio] \in [config : Documents(W), reload : R, prio : P]
      /\ [config |-> config, reload |-> r.name, prio |-> prio].config = config
  BY <1>1, <1>3
<1>6. CASE file.prio > prio
  BY <1>2, <1>4, <1>6 DEF config
<1>7. CASE ~(file.prio > prio)
  BY <1>2, <1>5, <1>7 DEF config
<1> QED
  BY <1>6, <1>7

LEMMA FilesExist ==
    ASSUME NEW W, "null" \in W, NEW old \in Documents(W), NEW n \in Nat, NEW results, NEW useAcl, NEW safe, NEW filters,
           \A i \in 1 .. n : IsFragment(results[i], useAcl, safe, W)
    PROVE  \E g : FilesUpTo(old, results, useAcl, safe, filters, n, g)
<1> DEFINE R     == {0} \cup {results[i].name : i \in 1 .. n}
           P     == {-1, 0} \cup {results[i].reload_prio : i \in 1 .. n}
           D     == [config : Documents(W), reload : R, prio : P]
           first == [config |-> old, reload |-> 0, prio |-> -1]
           step  == [i \in 1 .. n |-> [file \in D |-> AddFragment(file, results[i], useAcl, safe, filters)]]
<1>1. first \in D
  OBVIOUS
<1>2. 0 \in P /\ \A i \in 1 .. n : results[i].name \in R /\ results[i].reload_prio \in P
  OBVIOUS
<1> HIDE DEF R, P, first
<1>3. ASSUME NEW i \in 1 .. n, NEW file \in D PROVE AddFragment(file, results[i], useAcl, safe, filters) \in D
  <2> DEFINE r == results[i]
  <2>1. r.name \in R /\ r.reload_prio \in P /\ IsFragment(r, useAcl, safe, W)
    BY <1>2
  <2> HIDE DEF r
  <2>2. AddFragment(file, r, useAcl, safe, filters) \in D
    BY <1>2, <2>1, FragmentAdded
  <2> QED
    BY <2>2 DEF r
<1> HIDE DEF D
<1>4. \A i \in 1 .. n : step[i] \in [D -> D]
  BY <1>3
<1> HIDE DEF step
<1>5. PICK g : Iterates(g, D, first, step, n)
  BY <1>1, <1>4, IterationExists DEF Iterated
<1>6. g \in [0 .. n -> D] /\ g[0] = first /\ \A i \in 1 .. n : g[i] = AddFragment(g[i - 1], results[i], useAcl, safe, filters)
  <2>1. g \in [0 .. n -> D] /\ g[0] = first /\ \A i \in 1 .. n : g[i] = step[i][g[i - 1]]
    BY <1>5 DEF Iterates
  <2>2. \A i \in 1 .. n : g[i - 1] \in D
    BY <2>1
  <2> QED
    BY <2>1, <2>2 DEF step
<1>7. \A i \in 0 .. n : g[i] = IF i = 0 THEN first ELSE AddFragment(g[i - 1], results[i], useAcl, safe, filters)
  BY <1>6
<1>8. g = [i \in 0 .. n |-> g[i]]
  BY <1>6
<1> QED
  BY <1>7, <1>8 DEF FilesUpTo, first

LEMMA FilesRun ==
    ASSUME NEW W, "null" \in W, NEW old \in Documents(W), NEW n \in Nat, NEW results, NEW useAcl, NEW safe, NEW filters,
           \A i \in 1 .. n : IsFragment(results[i], useAcl, safe, W),
           NEW g, FilesUpTo(old, results, useAcl, safe, filters, n, g)
    PROVE  FileRun(old, results, useAcl, safe, filters, n, W, [i \in 0 .. n |-> g[i].config])
<1> DEFINE R     == {0} \cup {results[i].name : i \in 1 .. n}
           P     == {-1, 0} \cup {results[i].reload_prio : i \in 1 .. n}
           D     == [config : Documents(W), reload : R, prio : P]
           S     == {i \in 0 .. n : g[i] \in D}
           first == [config |-> old, reload |-> 0, prio |-> -1]
           h     == [i \in 0 .. n |-> g[i].config]
<1>1. \A i \in 0 .. n : g[i] = IF i = 0 THEN first ELSE AddFragment(g[i - 1], results[i], useAcl, safe, filters)
  BY DEF FilesUpTo
<1>2. g[0] = first /\ \A i \in 1 .. n : g[i] = AddFragment(g[i - 1], results[i], useAcl, safe, filters)
  BY <1>1
<1>3. first \in D /\ first.config = old
  OBVIOUS
<1>4. 0 \in P /\ \A i \in 1 .. n : results[i].name \in R /\ results[i].reload_prio \in P
  OBVIOUS
<1> HIDE DEF R, P, first
<1>5. ASSUME NEW i \in 1 .. n, g[i - 1] \in D
      PROVE  g[i] \in D /\ g[i].config = Makes(results[i], useAcl, safe, filters, g[i - 1].config)
  <2> DEFINE r    == results[i]
             file == g[i - 1]
  <2>1. r.name \in R /\ r.reload_prio \in P /\ IsFragment(r, useAcl, safe, W) /\ file \in D
        /\ g[i] = AddFragment(file, r, useAcl, safe, filters)
    BY <1>2, <1>4, <1>5
  <2> HIDE DEF r, file
  <2>2. /\ AddFragment(file, r, useAcl, safe, filters) \in D
        /\ AddFragment(file, r, useAcl, safe, filters).config = Makes(r, useAcl, safe, filters, file.config)
    BY <1>4, <2>1, FragmentAdded
  <2> QED
    BY <2>1, <2>2 DEF r, file
<1> HIDE DEF D
<1>6. 0 \in S
  BY <1>2, <1>3
<1>7. ASSUME NEW i \in 1 .. n, i - 1 \in S PROVE i \in S
  BY <1>5, <1>7
<1> HIDE DEF S
<1>8. \A i \in 0 .. n : i \in S
  BY <1>6, <1>7, StepByStep
<1>9. \A i \in 0 .. n : g[i] \in D
  BY <1>8 DEF S
<1>10. h[0] = old
  BY <1>2, <1>3
<1>11. \A i \in 0 .. n : h[i] \in Documents(W)
  BY <1>9 DEF D
<1>12. \A i \in 1 .. n : h[i] = Makes(results[i], useAcl, safe, filters, h[i - 1])
  <2> SUFFICES ASSUME NEW i \in 1 .. n PROVE h[i] = Makes(results[i], useAcl, safe, filters, h[i - 1])
    OBVIOUS
  <2>1. i - 1 \in 0 .. n /\ i \in 0 .. n
    OBVIOUS
  <2>2. h[i] = g[i].config /\ h[i - 1] = g[i - 1].config
    BY <2>1
  <2> HIDE DEF h
  <2> QED
    BY <1>5, <1>9, <2>1, <2>2
<1> HIDE DEF h
<1>13. FileRun(old, results, useAcl, safe, filters, n, W, h)
  BY <1>10, <1>11, <1>12 DEF FileRun
<1> QED
  BY <1>13 DEF h

LEMMA FileIsMade ==
    ASSUME NEW W, "null" \in W, NEW old \in Documents(W), NEW results, Listed(results), NEW useAcl, NEW safe, NEW filters,
           \A r \in ToSet(results) : IsFragment(r, useAcl, safe, W)
    PROVE  MadeFrom(old, results, useAcl, safe, filters, W)
<1> DEFINE n == Len(results)
           g == CHOOSE f : FilesUpTo(old, results, useAcl, safe, filters, n, f)
           h == [i \in 0 .. n |-> g[i].config]
<1>1. n \in Nat /\ \A i \in 1 .. n : IsFragment(results[i], useAcl, safe, W)
  BY ListIs
<1>2. NewJsonFile(old, results, useAcl, safe, filters) = g[n]
  BY DEF NewJsonFile, FilesUpTo
<1> HIDE DEF n
<1>3. FilesUpTo(old, results, useAcl, safe, filters, n, g)
  BY <1>1, FilesExist
<1> HIDE DEF g
<1>4. FileRun(old, results, useAcl, safe, filters, n, W, h)
  BY <1>1, <1>3, FilesRun
<1>5. h[n] = g[n].config
  BY <1>1
<1> HIDE DEF h
<1> QED
  BY <1>2, <1>4, <1>5 DEF MadeFrom, n

-----------------------------------------------------------------------------
(* Two documents that the same is done to: each place becomes the same in  *)
(* both, or in both it stays, or in both it is nulled.                     *)
SameOrKept(d1, d2, c1, c2, q) ==
    At(c1, q) = At(c2, q) \/ (At(c1, q) = At(d1, q) /\ At(c2, q) = At(d2, q))
Alike(d1, d2, c1, c2) ==
    \A q \in Places : \/ SameOrKept(d1, d2, c1, c2, q)
                      \/ At(c1, q) = Nulled(At(d1, q)) /\ At(c2, q) = Nulled(At(d2, q))

LEMMA NulledOnce == \A S : Nulled(Nulled(S)) = Nulled(S) /\ Nulled({}) = {}
BY DEF Nulled

LEMMA AclsAlike ==
    ASSUME NEW W, NEW d1 \in Documents(W), NEW d2 \in Documents(W), NEW f, IsDocument(f), Over(f, W),
           NEW acls, Listed(acls), NEW filters, \A acl \in ToSet(acls) : IsAcl(acl)
    PROVE  \A q \in Places : SameOrKept(d1, d2, ApplyAcl(d1, acls, f, filters), ApplyAcl(d2, acls, f, filters), q)
<1> DEFINE n == Len(acls)
<1>1. n \in Nat
  BY ListIs
<1>2. AppliedOver(d1, acls, f, filters, W) /\ AppliedOver(d2, acls, f, filters, W)
  BY AclsAreApplied
<1>3. PICK g : AclRun(d1, acls, f, filters, n, W, g) /\ g[n] = ApplyAcl(d1, acls, f, filters)
  BY <1>2 DEF AppliedOver
<1>4. PICK h : AclRun(d2, acls, f, filters, n, W, h) /\ h[n] = ApplyAcl(d2, acls, f, filters)
  BY <1>2 DEF AppliedOver
<1> HIDE DEF n
<1> DEFINE S == {i \in 0 .. n : \A q \in Places : SameOrKept(d1, d2, g[i], h[i], q)}
<1>5. g[0] = d1 /\ \A i \in 1 .. n : \A q \in Places : At(g[i], q) = AclStep(acls[i], f, filters, q, At(g[i - 1], q))
  BY <1>3 DEF AclRun
<1>6. h[0] = d2 /\ \A i \in 1 .. n : \A q \in Places : At(h[i], q) = AclStep(acls[i], f, filters, q, At(h[i - 1], q))
  BY <1>4 DEF AclRun
<1>7. 0 \in S
  BY <1>1, <1>5, <1>6 DEF SameOrKept
<1>8. ASSUME NEW i \in 1 .. n, i - 1 \in S PROVE i \in S
  <2> SUFFICES ASSUME NEW q \in Places PROVE SameOrKept(d1, d2, g[i], h[i], q)
    OBVIOUS
  <2>1. SameOrKept(d1, d2, g[i - 1], h[i - 1], q)
    BY <1>8
  <2>2. /\ At(g[i], q) = AclStep(acls[i], f, filters, q, At(g[i - 1], q))
        /\ At(h[i], q) = AclStep(acls[i], f, filters, q, At(h[i - 1], q))
    BY <1>5, <1>6
  <2> QED
    BY <2>1, <2>2 DEF SameOrKept, AclStep
<1> HIDE DEF S
<1>9. \A i \in 0 .. n : i \in S
  BY <1>1, <1>7, <1>8, StepByStep
<1>10. n \in 0 .. n
  BY <1>1
<1>11. n \in S
  BY <1>9, <1>10
<1> QED
  BY <1>3, <1>4, <1>11 DEF S

LEMMA MadeAlike ==
    ASSUME NEW W, NEW d1 \in Documents(W), NEW d2 \in Documents(W), NEW r, NEW useAcl, NEW safe, NEW filters,
           IsFragment(r, useAcl, safe, W)
    PROVE  Alike(d1, d2, Makes(r, useAcl, safe, filters, d1), Makes(r, useAcl, safe, filters, d2))
<1> DEFINE f    == r.config
           acls == AclsOf(r, useAcl, safe)
           c1   == ApplyAcl(d1, acls, f, filters)
           c2   == ApplyAcl(d2, acls, f, filters)
           n1   == NullifyRemoved(d1, c1)
           n2   == NullifyRemoved(d2, c2)
<1>1. IsDocument(f) /\ Over(f, W) /\ Listed(acls) /\ \A acl \in ToSet(acls) : IsAcl(acl)
  BY DEF IsFragment
<1>2. /\ Makes(r, useAcl, safe, filters, d1) = IF r.delete_with_null THEN n1 ELSE c1
      /\ Makes(r, useAcl, safe, filters, d2) = IF r.delete_with_null THEN n2 ELSE c2
  BY DEF Makes, ApplyJsonFragment
<1> HIDE DEF f, acls
<1>3. \A q \in Places : SameOrKept(d1, d2, c1, c2, q)
  BY <1>1, AclsAlike
<1>4. IsDocument(c1) /\ IsDocument(c2)
  <2>1. AppliedOver(d1, acls, f, filters, W) /\ AppliedOver(d2, acls, f, filters, W)
    BY <1>1, AclsAreApplied
  <2>2. Len(acls) \in 0 .. Len(acls)
    BY <1>1, ListIs
  <2> QED
    BY <2>1, <2>2 DEF AppliedOver, AclRun
<1>5. IsDocument(d1) /\ IsDocument(d2)
  BY DocumentsAre
<1> HIDE DEF c1, c2
<1>6. /\ \A q \in Places : At(n1, q) = IF At(c1, q) = {} /\ Stands(c1, q) THEN Nulled(At(d1, q)) ELSE At(c1, q)
      /\ \A q \in Places : At(n2, q) = IF At(c2, q) = {} /\ Stands(c2, q) THEN Nulled(At(d2, q)) ELSE At(c2, q)
  BY <1>4, <1>5, RemovedAreNulled
<1> HIDE DEF n1, n2
<1>10. \A q \in Places : q \in Seq(Keys) /\ (Len(q) # 1 => Len(q) > 1)
  <2> TAKE q \in Places
  <2> DEFINE l == Len(q)
  <2>1. q \in Seq(Keys) /\ l # 0 /\ l \in Nat
    BY LenProperties DEF Places
  <2> HIDE DEF l
  <2>2. l # 1 => l > 1
    BY <2>1
  <2> QED
    BY <2>1, <2>2 DEF l
<1>7. \A q \in Places : /\ ~Stands(d1, q) => At(d1, q) = {}
                        /\ ~Stands(d2, q) => At(d2, q) = {}
  BY <1>5, <1>10 DEF Stands, At, IsDocument
<1>8. Alike(d1, d2, c1, c2)
  BY <1>3 DEF Alike
<1>9. Alike(d1, d2, n1, n2)
  <2> SUFFICES ASSUME NEW q \in Places
               PROVE  \/ SameOrKept(d1, d2, n1, n2, q)
                      \/ At(n1, q) = Nulled(At(d1, q)) /\ At(n2, q) = Nulled(At(d2, q))
    BY DEF Alike
  <2>1. CASE At(c1, q) = At(d1, q) /\ At(c2, q) = At(d2, q)
    <3>1. At(n1, q) = At(d1, q) /\ At(n2, q) = At(d2, q)
      BY <1>6, <2>1, NulledOnce
    <3> QED
      BY <3>1 DEF SameOrKept
  <2>2. CASE At(c1, q) = At(c2, q) /\ At(c1, q) # {}
    BY <1>6, <2>2 DEF SameOrKept
  <2>3. CASE At(c1, q) = {} /\ At(c2, q) = {}
    <3>1. (Stands(c1, q) <=> Stands(c2, q)) \/ ((Stands(c1, q) <=> Stands(d1, q)) /\ (Stands(c2, q) <=> Stands(d2, q)))
      <4>1. CASE Len(q) = 1
        BY <4>1 DEF Stands
      <4>2. CASE Len(q) # 1
        <5>1. Up(q) \in Places
          BY <1>10, <4>2, ParentIs
        <5>2. SameOrKept(d1, d2, c1, c2, Up(q))
          BY <1>3, <5>1
        <5> QED
          BY <4>2, <5>2 DEF SameOrKept, Stands
      <4> QED
        BY <4>1, <4>2
    <3>2. CASE Stands(c1, q) /\ Stands(c2, q)
      BY <1>6, <2>3, <3>2
    <3>3. CASE ~Stands(c1, q) /\ ~Stands(c2, q)
      BY <1>6, <2>3, <3>3 DEF SameOrKept
    <3>4. CASE (Stands(c1, q) <=> Stands(d1, q)) /\ (Stands(c2, q) <=> Stands(d2, q))
      <4>1. At(n1, q) = Nulled(At(d1, q))
        BY <1>6, <1>7, <2>3, <3>4, NulledOnce
      <4>2. At(n2, q) = Nulled(At(d2, q))
        BY <1>6, <1>7, <2>3, <3>4, NulledOnce
      <4> QED
        BY <4>1, <4>2
    <3> QED
      BY <3>1, <3>2, <3>3, <3>4
  <2> QED
    BY <1>3, <2>1, <2>2, <2>3 DEF SameOrKept
<1> QED
  BY <1>2, <1>8, <1>9

LEMMA AlikeTogether ==
    ASSUME NEW d1, NEW d2, NEW c1, NEW c2, NEW e1, NEW e2, Alike(d1, d2, c1, c2), Alike(c1, c2, e1, e2)
    PROVE  Alike(d1, d2, e1, e2)
<1> SUFFICES ASSUME NEW q \in Places
             PROVE  \/ SameOrKept(d1, d2, e1, e2, q)
                    \/ At(e1, q) = Nulled(At(d1, q)) /\ At(e2, q) = Nulled(At(d2, q))
  BY DEF Alike
<1>1. \/ SameOrKept(d1, d2, c1, c2, q)
      \/ At(c1, q) = Nulled(At(d1, q)) /\ At(c2, q) = Nulled(At(d2, q))
  BY DEF Alike
<1>2. \/ SameOrKept(c1, c2, e1, e2, q)
      \/ At(e1, q) = Nulled(At(c1, q)) /\ At(e2, q) = Nulled(At(c2, q))
  BY DEF Alike
<1> QED
  BY <1>1, <1>2, NulledOnce DEF SameOrKept

LEMMA RunsAlike ==
    ASSUME NEW W, NEW n \in Nat, NEW results, NEW useAcl, NEW safe, NEW filters,
           \A i \in 1 .. n : IsFragment(results[i], useAcl, safe, W), NEW d1, NEW d2, NEW g, NEW h,
           FileRun(d1, results, useAcl, safe, filters, n, W, g), FileRun(d2, results, useAcl, safe, filters, n, W, h)
    PROVE  Alike(d1, d2, g[n], h[n])
<1> DEFINE S == {i \in 0 .. n : Alike(d1, d2, g[i], h[i])}
<1>1. /\ g[0] = d1
      /\ \A i \in 0 .. n : g[i] \in Documents(W)
      /\ \A i \in 1 .. n : g[i] = Makes(results[i], useAcl, safe, filters, g[i - 1])
  BY DEF FileRun
<1>2. /\ h[0] = d2
      /\ \A i \in 0 .. n : h[i] \in Documents(W)
      /\ \A i \in 1 .. n : h[i] = Makes(results[i], useAcl, safe, filters, h[i - 1])
  BY DEF FileRun
<1>3. 0 \in S
  BY <1>1, <1>2 DEF Alike, SameOrKept
<1>4. ASSUME NEW i \in 1 .. n, i - 1 \in S PROVE i \in S
  <2> DEFINE c1 == g[i - 1]
             c2 == h[i - 1]
             r  == results[i]
  <2>1. i - 1 \in 0 .. n
    OBVIOUS
  <2>2. /\ c1 \in Documents(W) /\ c2 \in Documents(W) /\ Alike(d1, d2, c1, c2) /\ IsFragment(r, useAcl, safe, W)
        /\ g[i] = Makes(r, useAcl, safe, filters, c1) /\ h[i] = Makes(r, useAcl, safe, filters, c2)
    BY <1>1, <1>2, <1>4, <2>1
  <2> HIDE DEF c1, c2, r
  <2>3. Alike(c1, c2, g[i], h[i])
    BY <2>2, MadeAlike
  <2>4. Alike(d1, d2, g[i], h[i])
    BY <2>2, <2>3, AlikeTogether
  <2> QED
    BY <2>4
<1> HIDE DEF S
<1>5. \A i \in 0 .. n : i \in S
  BY <1>3, <1>4, StepByStep
<1>6. n \in S
  BY <1>5
<1> QED
  BY <1>6 DEF S

(* What is done to a file once more leaves it as it is.                    *)
LEMMA FileSettles ==
    ASSUME NEW W, "null" \in W, NEW old \in Documents(W), NEW results, Listed(results), NEW useAcl, NEW safe, NEW filters,
           \A r \in ToSet(results) : IsFragment(r, useAcl, safe, W)
    PROVE  LET new == NewJsonFile(old, results, useAcl, safe, filters).config
           IN NewJsonFile(new, results, useAcl, safe, filters).config = new
<1> DEFINE n     == Len(results)
           new   == NewJsonFile(old, results, useAcl, safe, filters).config
           newer == NewJsonFile(new, results, useAcl, safe, filters).config
<1>1. n \in Nat /\ \A i \in 1 .. n : IsFragment(results[i], useAcl, safe, W)
  BY ListIs
<1>2. PICK g : FileRun(old, results, useAcl, safe, filters, n, W, g) /\ g[n] = new
  BY FileIsMade DEF MadeFrom
<1> HIDE DEF n
<1>3. new \in Documents(W)
  BY <1>1, <1>2 DEF FileRun
<1> HIDE DEF new
<1>4. PICK h : FileRun(new, results, useAcl, safe, filters, n, W, h) /\ h[n] = newer
  BY <1>3, FileIsMade DEF MadeFrom, n
<1>5. newer \in Documents(W)
  BY <1>1, <1>4 DEF FileRun
<1> HIDE DEF newer
<1>6. Alike(old, new, g[n], h[n])
  BY <1>1, <1>2, <1>4, RunsAlike
<1>7. Alike(old, new, new, newer)
  BY <1>2, <1>4, <1>6
<1>8. \A q \in Places : At(newer, q) = At(new, q)
  BY <1>7, NulledOnce DEF Alike, SameOrKept
<1>9. IsDocument(new) /\ IsDocument(newer)
  BY <1>3, <1>5, DocumentsAre
<1>10. newer = new
  BY <1>8, <1>9, SameDocument
<1> QED
  BY <1>10 DEF new, newer

-----------------------------------------------------------------------------
(* What is set stays while no acl sets or takes it again.                  *)
Touched(acl, f, filters, q) == SetFor(acl, f, filters, q) \/ TakenFor(acl, f, filters, q)
LeftAlone(r, useAcl, safe, filters, q, a) ==
    \A b \in a + 1 .. Len(AclsOf(r, useAcl, safe)) : ~Touched(AclsOf(r, useAcl, safe)[b], r.config, filters, q)

LEMMA AclsKeep ==
    ASSUME NEW W, NEW d, NEW f, NEW acls, NEW filters, NEW n \in Nat, NEW g, AclRun(d, acls, f, filters, n, W, g),
           NEW q \in Places, NEW a \in 0 .. n, \A b \in a + 1 .. n : ~Touched(acls[b], f, filters, q)
    PROVE  At(g[n], q) = At(g[a], q)
<1> DEFINE S == {i \in 0 .. n : i >= a => At(g[i], q) = At(g[a], q)}
<1>1. 0 \in S
  <2>1. 0 >= a => a = 0
    OBVIOUS
  <2> QED
    BY <2>1
<1>2. ASSUME NEW i \in 1 .. n, i - 1 \in S PROVE i \in S
  <2>1. CASE i <= a
    <3>1. i >= a => i = a
      BY <2>1
    <3> QED
      BY <3>1
  <2>2. CASE i > a
    <3>1. i \in a + 1 .. n /\ i - 1 >= a
      BY <2>2
    <3>2. At(g[i], q) = AclStep(acls[i], f, filters, q, At(g[i - 1], q))
      BY DEF AclRun
    <3>3. At(g[i - 1], q) = At(g[a], q)
      BY <1>2, <3>1
    <3>4. ~Touched(acls[i], f, filters, q)
      BY <3>1
    <3> QED
      BY <3>2, <3>3, <3>4 DEF AclStep, Touched
  <2> QED
    BY <2>1, <2>2
<1> HIDE DEF S
<1>3. \A i \in 0 .. n : i \in S
  BY <1>1, <1>2, StepByStep
<1>4. n \in S /\ n >= a
  BY <1>3
<1> QED
  BY <1>4 DEF S

KeepsAt(r, useAcl, safe, filters, d, q) ==
    LeftAlone(r, useAcl, safe, filters, q, 0) /\ At(d, q) # {} => At(Makes(r, useAcl, safe, filters, d), q) = At(d, q)
HasAt(r, useAcl, safe, filters, d, q, a) ==
    LeftAlone(r, useAcl, safe, filters, q, a) /\ SetFor(AclsOf(r, useAcl, safe)[a], r.config, filters, q)
        /\ At(r.config, q) # {} => At(Makes(r, useAcl, safe, filters, d), q) = At(r.config, q)

LEMMA MadeKeeps ==
    ASSUME NEW W, NEW d \in Documents(W), NEW r, NEW useAcl, NEW safe, NEW filters, IsFragment(r, useAcl, safe, W),
           NEW q \in Places
    PROVE  /\ KeepsAt(r, useAcl, safe, filters, d, q)
           /\ \A a \in 1 .. Len(AclsOf(r, useAcl, safe)) : HasAt(r, useAcl, safe, filters, d, q, a)
<1> DEFINE f    == r.config
           acls == AclsOf(r, useAcl, safe)
           n    == Len(acls)
           c    == ApplyAcl(d, acls, f, filters)
           new  == Makes(r, useAcl, safe, filters, d)
<1>1. IsDocument(f) /\ Over(f, W) /\ Listed(acls) /\ \A acl \in ToSet(acls) : IsAcl(acl)
  BY DEF IsFragment
<1>2. new = IF r.delete_with_null THEN NullifyRemoved(d, c) ELSE c
  BY DEF Makes, ApplyJsonFragment
<1>3. \A a : LeftAlone(r, useAcl, safe, filters, q, a) <=> \A b \in a + 1 .. n : ~Touched(acls[b], f, filters, q)
  BY DEF LeftAlone
<1> HIDE DEF f, acls, new
<1>4. n \in Nat
  BY <1>1, ListIs
<1>5. PICK g : AclRun(d, acls, f, filters, n, W, g) /\ g[n] = c
  BY <1>1, AclsAreApplied DEF AppliedOver
<1> HIDE DEF n, c
<1>6. IsDocument(c) /\ IsDocument(d)
  BY <1>4, <1>5, DocumentsAre DEF AclRun
<1>7. At(c, q) # {} => At(new, q) = At(c, q)
  BY <1>2, <1>6, RemovedAreNulled
<1>8. ASSUME \A b \in 0 + 1 .. n : ~Touched(acls[b], f, filters, q), At(d, q) # {} PROVE At(new, q) = At(d, q)
  <2>1. 0 \in 0 .. n
    BY <1>4
  <2>2. At(g[n], q) = At(g[0], q)
    BY <1>4, <1>5, <1>8, <2>1, AclsKeep
  <2> QED
    BY <1>5, <1>7, <1>8, <2>2 DEF AclRun
<1>9. ASSUME NEW a \in 1 .. n, \A b \in a + 1 .. n : ~Touched(acls[b], f, filters, q),
             SetFor(acls[a], f, filters, q), At(f, q) # {}
      PROVE  At(new, q) = At(f, q)
  <2>1. a \in 0 .. n
    BY <1>4
  <2>2. \A b \in a + 1 .. n : ~Touched(acls[b], f, filters, q)
    BY <1>9
  <2>5. At(g[n], q) = At(g[a], q)
    BY <1>4, <1>5, <2>1, <2>2, AclsKeep
  <2>3. At(g[a], q) = AclStep(acls[a], f, filters, q, At(g[a - 1], q))
    BY <1>5 DEF AclRun
  <2>4. At(g[a], q) = At(f, q)
    BY <1>9, <2>3 DEF AclStep
  <2> QED
    BY <1>5, <1>7, <1>9, <2>4, <2>5
<1>10. LeftAlone(r, useAcl, safe, filters, q, 0) /\ At(d, q) # {} => At(new, q) = At(d, q)
  BY <1>3, <1>8
<1>11. \A a \in 1 .. n : LeftAlone(r, useAcl, safe, filters, q, a) /\ SetFor(acls[a], f, filters, q) /\ At(f, q) # {}
                          => At(new, q) = At(f, q)
  BY <1>3, <1>9
<1> QED
  BY <1>10, <1>11 DEF f, acls, n, new, KeepsAt, HasAt

(* A fragment is in the file unless a later acl touches the place.         *)
StandsFrom(results, useAcl, safe, filters, i, a, q) ==
    LET r == results[i]
    IN /\ a \in 1 .. Len(AclsOf(r, useAcl, safe)) /\ SetFor(AclsOf(r, useAcl, safe)[a], r.config, filters, q)
       /\ At(r.config, q) # {} /\ LeftAlone(r, useAcl, safe, filters, q, a)
       /\ \A j \in i + 1 .. Len(results) : LeftAlone(results[j], useAcl, safe, filters, q, 0)

LEMMA FragmentKept ==
    ASSUME NEW W, "null" \in W, NEW old \in Documents(W), NEW results, Listed(results), NEW useAcl, NEW safe, NEW filters,
           \A r \in ToSet(results) : IsFragment(r, useAcl, safe, W),
           NEW i \in 1 .. Len(results), NEW a, NEW q \in Places, StandsFrom(results, useAcl, safe, filters, i, a, q)
    PROVE  At(NewJsonFile(old, results, useAcl, safe, filters).config, q) = At(results[i].config, q)
<1> DEFINE n    == Len(results)
           here1 == At(results[i].config, q)
<1>1. n \in Nat /\ \A j \in 1 .. n : IsFragment(results[j], useAcl, safe, W)
  BY ListIs
<1>2. PICK h : FileRun(old, results, useAcl, safe, filters, n, W, h)
               /\ h[n] = NewJsonFile(old, results, useAcl, safe, filters).config
  BY FileIsMade DEF MadeFrom
<1>3. i \in 1 .. n /\ \A j \in i + 1 .. n : LeftAlone(results[j], useAcl, safe, filters, q, 0)
  BY DEF StandsFrom
<1>4. /\ \A j \in 0 .. n : h[j] \in Documents(W)
      /\ \A j \in 1 .. n : h[j] = Makes(results[j], useAcl, safe, filters, h[j - 1])
  BY <1>2 DEF FileRun
<1> HIDE DEF n
<1>5. At(h[i], q) = here1
  <2> DEFINE c == h[i - 1]
             r == results[i]
  <2>1. c \in Documents(W) /\ IsFragment(r, useAcl, safe, W) /\ h[i] = Makes(r, useAcl, safe, filters, c)
    <3>1. i - 1 \in 0 .. n
      BY <1>1, <1>3
    <3> QED
      BY <1>1, <1>3, <1>4, <3>1
  <2>2. a \in 1 .. Len(AclsOf(r, useAcl, safe)) /\ SetFor(AclsOf(r, useAcl, safe)[a], r.config, filters, q)
        /\ At(r.config, q) # {} /\ LeftAlone(r, useAcl, safe, filters, q, a)
    BY DEF StandsFrom
  <2> HIDE DEF c, r
  <2>3. HasAt(r, useAcl, safe, filters, c, q, a)
    BY <2>1, <2>2, MadeKeeps
  <2>4. At(Makes(r, useAcl, safe, filters, c), q) = At(r.config, q)
    BY <2>2, <2>3 DEF HasAt
  <2> QED
    BY <2>1, <2>4 DEF r
<1> HIDE DEF here1
<1>6. here1 # {}
  BY DEF here1, StandsFrom
<1> DEFINE S == {j \in 0 .. n : j >= i => At(h[j], q) = here1}
<1>7. 0 \in S
  BY <1>1, <1>3
<1>8. ASSUME NEW j \in 1 .. n, j - 1 \in S PROVE j \in S
  <2>1. CASE j < i
    BY <2>1
  <2>2. CASE j = i
    BY <1>5, <2>2
  <2>3. CASE j > i
    <3> DEFINE c == h[j - 1]
               r == results[j]
    <3>1. j \in i + 1 .. n /\ j - 1 >= i /\ j - 1 \in 0 .. n
      BY <1>1, <1>3, <2>3
    <3>2. /\ c \in Documents(W) /\ IsFragment(r, useAcl, safe, W) /\ LeftAlone(r, useAcl, safe, filters, q, 0)
          /\ h[j] = Makes(r, useAcl, safe, filters, c) /\ At(c, q) = here1
      BY <1>1, <1>3, <1>4, <1>8, <3>1
    <3> HIDE DEF c, r
    <3>3. KeepsAt(r, useAcl, safe, filters, c, q)
      BY <3>2, MadeKeeps
    <3> QED
      BY <1>6, <3>2, <3>3 DEF KeepsAt
  <2> QED
    BY <1>3, <2>1, <2>2, <2>3
<1> HIDE DEF S
<1>9. \A j \in 0 .. n : j \in S
  BY <1>1, <1>7, <1>8, StepByStep
<1>10. n \in 0 .. n /\ n >= i
  BY <1>1, <1>3
<1>11. At(h[n], q) = here1
  BY <1>9, <1>10 DEF S
<1> QED
  BY <1>2, <1>11 DEF here1
=============================================================================
