------------------------------- MODULE RplLists ------------------------------
(***************************************************************************)
(* The lists policies refer to, as the generators of annet.rpl_generators  *)
(* write them: community lists, prefix lists, as-path filters, rd filters. *)
(*                                                                         *)
(* A store is [comms, prefixes, aspaths, rds], sequences of what the user  *)
(* defines.  A list in the configuration has a kind (the command it is     *)
(* written with), a name (a sequence of words) and entries; an entry of a  *)
(* community list is the set of values a route must have, a value being    *)
(* <<type, word>>.                                                         *)
(***************************************************************************)
EXTENDS RplPolicy

CommunityFields == {"community", "large_community", "extcommunity_rt", "extcommunity_soo"}

Statements(policies) == UNION {ToSet(policies[i].statements) : i \in DOMAIN policies}
Conditions(policies) == UNION {ToSet(s.match) : s \in Statements(policies)}
Actions(policies)    == UNION {ToSet(s.then) : s \in Statements(policies)}

NamesOf(v)    == ToSet(v.set) \cup ToSet(v.added) \cup ToSet(v.removed)
Named(seq, n) == CHOOSE x \in ToSet(seq) : x.name = n
Knows(seq, n) == \E i \in DOMAIN seq : seq[i].name = n
Single(n)     == <<n>>

-----------------------------------------------------------------------------
(* Community lists: those in use, by themselves and united for HAS_ANY.    *)
ActionNames(policies, fields) ==
    UNION {NamesOf(a.v) : a \in {x \in Actions(policies) : x.field \in fields}}

CommunityConditions(policies) == {c \in Conditions(policies) : c.field \in CommunityFields}

UsedCommunities(policies) ==
    (UNION {ToSet(c.names) : c \in CommunityConditions(policies)})
        \cup ActionNames(policies, CommunityFields \cup {"extcommunity"})

UnitedCommunities(policies) ==
    {c.names : c \in {d \in CommunityConditions(policies) : d.op = "has_any" /\ Len(d.names) > 1}}
        \cup {Single(n) : n \in UNION {ToSet(c.names) :
                  c \in {d \in CommunityConditions(policies) : ~(d.op = "has_any" /\ Len(d.names) > 1)}}}
        \cup {Single(n) : n \in ActionNames(policies, CommunityFields)}

DuplicateNames(comms) == Cardinality({comms[i].name : i \in DOMAIN comms}) < Len(comms)
ManyRegexes(c)        == c.regex /\ Len(c.members) > 1

(* mangle_united_community_list_name: the names joined by "_OR_", so one   *)
(* name keeps its own.  No two sequences of names give one name, unless a  *)
(* name contains "_OR_"; such names are left out.                          *)
Mangle(names) == names

(* Where each vendor keeps the lists of a type.                            *)
KindOf(vendor, type) ==
    CASE vendor = "juniper" -> "community"
      [] vendor \in {"arista", "cumulus"} /\ type \in {"RT", "SOO"} -> "EXT"
      [] OTHER -> type

Uniteds(vendor) == vendor \in {"arista", "cumulus"}

(* What stops a community list generator.  Arista's writes large lists,    *)
(* but its acl has no row for them, and that is an error with acls in use. *)
CommunityListsRaise(vendor, store, policies) ==
    LET united == UnitedCommunities(policies)
        used   == IF Uniteds(vendor) THEN UNION {ToSet(u) : u \in united} ELSE UsedCommunities(policies)
        lists  == {Named(store.comms, n) : n \in used}
    IN \/ DuplicateNames(store.comms)
       \/ \E n \in used : ~Knows(store.comms, n)
       \/ \E c \in lists : c.type = "COST"
       \/ vendor \in {"huawei", "arista"} /\ \E c \in lists : ManyRegexes(c)
       \/ vendor = "cumulus" /\ \E c \in lists : ManyRegexes(c) /\ c.logic = "AND"
       \/ vendor \in {"iosxr", "arista"} /\ \E c \in lists : c.type = "LARGE"
       \/ vendor = "juniper" /\ \E c \in lists : Len(c.members) > 1 /\ c.logic = "OR"
       \/ Uniteds(vendor) /\ \E u \in united : \E i, j \in DOMAIN u :
             LET a == Named(store.comms, u[i])  b == Named(store.comms, u[j])
             IN a.type # b.type \/ a.regex # b.regex

Values(c) == {<<c.type, m>> : m \in ToSet(c.members)}

(* AND: one entry with all the members; OR: an entry for each.  A set of   *)
(* IOS XR says nothing of logic: the policy that refers to it does.        *)
Entries(vendor, c) ==
    IF c.logic = "AND" /\ vendor # "iosxr" THEN {Values(c)} ELSE {{x} : x \in Values(c)}

ListOf(vendor, store, names) ==
    LET lists == {Named(store.comms, n) : n \in ToSet(names)}
    IN [kind    |-> KindOf(vendor, (CHOOSE c \in lists : TRUE).type),
        name    |-> Mangle(names),
        entries |-> UNION {Entries(vendor, c) : c \in lists}]

CommunityLists(vendor, store, policies) ==
    {ListOf(vendor, store, names) :
        names \in IF Uniteds(vendor) THEN UnitedCommunities(policies)
                  ELSE {Single(n) : n \in UsedCommunities(policies)}}

-----------------------------------------------------------------------------
(* Prefix lists: a member is [net, len, ge, le].  A condition with         *)
(* or_longer takes the list under a name of its own, with its lengths in   *)
(* place of the members'.                                                  *)
Overrides(c) == ~(c.lo = Unset /\ c.hi = Unset)

GetPrefix(store, name, c) ==
    LET orig == Named(store.prefixes, name)
    IN [name    |-> IF Overrides(c) THEN <<name, c.lo, c.hi>> ELSE <<name>>,
        members |-> IF Overrides(c)
                    THEN [i \in DOMAIN orig.members |-> [orig.members[i] EXCEPT !.ge = c.lo, !.le = c.hi]]
                    ELSE orig.members]

Plain(c) == [c EXCEPT !.lo = Unset, !.hi = Unset]

(* Juniper: prefix lists without lengths or down to the longest keep their *)
(* name; others become route filters.                                      *)
Flavour(members, max) ==
    LET custom  == \E i \in DOMAIN members : LET m == members[i] IN
                       \/ m.ge # Unset /\ m.ge # m.len
                       \/ m.le # Unset /\ m.le # max
        longer  == \E i \in DOMAIN members : members[i].ge # Unset \/ members[i].le # Unset
    IN IF custom THEN "custom" ELSE IF longer THEN "orlonger" ELSE "simple"

FlavourOf(store, name, c) == Flavour(GetPrefix(store, name, c).members, MaxLen(c.field))

JuniperPrefix(store, name, c) ==
    [GetPrefix(store, name, c) EXCEPT !.name = IF FlavourOf(store, name, c) = "custom" THEN @ ELSE <<name>>]

JuniperType(store, name, c) ==
    IF "custom" \in {FlavourOf(store, name, c), FlavourOf(store, name, Plain(c))}
    THEN "route-filter" ELSE "prefix-list"

PrefixKind(vendor, store, name, c) ==
    CASE vendor = "iosxr"   -> "prefix-set"
      [] vendor = "juniper" -> JuniperType(store, name, c)
      [] OTHER              -> c.field

PrefixName(vendor, store, name, c) ==
    IF vendor = "juniper" THEN JuniperPrefix(store, name, c).name ELSE GetPrefix(store, name, c).name

(* The lengths written for a member: a prefix list of Juniper has none, a  *)
(* route filter writes both or "exact".                                    *)
Written(vendor, store, name, c, m) ==
    IF vendor # "juniper" THEN m
    ELSE IF JuniperType(store, name, c) = "prefix-list" THEN [m EXCEPT !.ge = Unset, !.le = Unset]
    ELSE IF m.ge = Unset /\ m.le = Unset THEN m
    ELSE [m EXCEPT !.ge = IF @ = Unset THEN m.len ELSE @, !.le = IF @ = Unset THEN MaxLen(c.field) ELSE @]

PrefixList(vendor, store, name, c) ==
    [kind    |-> PrefixKind(vendor, store, name, c),
     name    |-> PrefixName(vendor, store, name, c),
     members |-> {Written(vendor, store, name, c, m) : m \in ToSet(GetPrefix(store, name, c).members)}]

(* The uses in the order the generators meet them: of a statement first    *)
(* its IPv4 conditions.                                                    *)
UsesIn(s) ==
    LET of(field) == FlattenSeq([i \in DOMAIN s.match |->
                        IF s.match[i].field = field
                        THEN [j \in DOMAIN s.match[i].names |-> [name |-> s.match[i].names[j], c |-> s.match[i]]]
                        ELSE <<>>])
    IN of("ip_prefix") \o of("ipv6_prefix")

PrefixUses(policies) ==
    FlattenSeq([i \in DOMAIN policies |->
        FlattenSeq([j \in DOMAIN policies[i].statements |-> UsesIn(policies[i].statements[j])])])

PrefixListsRaise(store, policies) ==
    \E i \in DOMAIN PrefixUses(policies) : ~Knows(store.prefixes, PrefixUses(policies)[i].name)

(* A mutant of PrefixLists: processed_names keeps the user's names.        *)
PrefixListsByUserName(vendor, store, policies) ==
    LET uses == PrefixUses(policies)
    IN {PrefixList(vendor, store, uses[i].name, uses[i].c) :
            i \in {j \in DOMAIN uses : \A n \in 1 .. j - 1 : uses[n].name # uses[j].name}}

(* processed_names: a name is written once.                                *)
PrefixLists(vendor, store, policies) ==
    LET uses    == PrefixUses(policies)
        Name1(i) == PrefixName(vendor, store, uses[i].name, uses[i].c)
    IN {PrefixList(vendor, store, uses[i].name, uses[i].c) :
            i \in {j \in DOMAIN uses : \A n \in 1 .. j - 1 : Name1(n) # Name1(j)}}

-----------------------------------------------------------------------------
(* As-path filters and rd filters.                                         *)
UsedIn(policies, field) == UNION {ToSet(c.names) : c \in {d \in Conditions(policies) : d.field = field}}

AsPathsRaise(vendor, store, policies) ==
    \E n \in UsedIn(policies, "as_path_filter") :
        \/ ~Knows(store.aspaths, n)
        \/ vendor = "juniper" /\ Len(Named(store.aspaths, n).filters) > 1

AsPathFilters(store, policies) ==
    {[kind |-> "as-path", name |-> Single(n), items |-> Named(store.aspaths, n).filters] :
        n \in UsedIn(policies, "as_path_filter")}

RdsRaise(store, policies) == \E n \in UsedIn(policies, "rd") : ~Knows(store.rds, n)

(* On Huawei the number is the name; Arista and Cumulus have no generator. *)
RdName(vendor, store, n) == IF vendor = "huawei" THEN Named(store.rds, n).number ELSE n

RdFilters(vendor, store, policies) ==
    IF vendor \in {"arista", "cumulus"} THEN {}
    ELSE {[kind |-> "rd", name |-> Single(RdName(vendor, store, n)), items |-> Named(store.rds, n).members] :
             n \in UsedIn(policies, "rd")}

-----------------------------------------------------------------------------
(* All of a device's lists, and what stops their generators.               *)
ListsRaise(vendor, store, policies) ==
    \/ CommunityListsRaise(vendor, store, policies)
    \/ PrefixListsRaise(store, policies)
    \/ AsPathsRaise(vendor, store, policies)
    \/ vendor \notin {"arista", "cumulus"} /\ RdsRaise(store, policies)

AllLists(vendor, store, policies) ==
    [comms    |-> CommunityLists(vendor, store, policies),
     prefixes |-> PrefixLists(vendor, store, policies),
     others   |-> AsPathFilters(store, policies) \cup RdFilters(vendor, store, policies)]
=============================================================================
