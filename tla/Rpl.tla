--------------------------------- MODULE Rpl ---------------------------------
(***************************************************************************)
(* Routing policies, from the handlers of a RouteMap to the configuration  *)
(* of a device: RouteMap.apply runs the handlers, each makes statements,   *)
(* the generators of the device's vendor write lists and policies.         *)
(***************************************************************************)
EXTENDS RplDevice

CONSTANTS
    Subjects,       \* what the user wrote: the lists of a device, and what its handlers may do
    MaxParts,       \* conditions and calls of all statements
    Vendors

ASSUME RplAssumption ==
    /\ MaxParts \in Nat
    /\ Vendors \subseteq DOMAIN MatchMap
    /\ \A x \in DOMAIN Subjects :
          /\ \A c \in Subjects[x].conds : IsCondition(c)
          /\ \A c \in Subjects[x].calls : IsCall(c)

(* What the meaning of policies is stated for: conditions are those of the *)
(* factories and name a list, lengths and preferences are numbers, an AND  *)
(* list has members, each rd filter its own number, and an IPv4 list no    *)
(* IPv6 networks.                                                          *)
IsMade(c) ==
    /\ c.lo \in Int /\ c.hi \in Int
    /\ CASE c.field \in {"local_pref", "as_path_length", "metric"} ->
               c.names = <<>> /\ c.op \in {"eq", "lt", "le", "gt", "ge", "between"}
         [] c.field \in CommunityFields \cup {"rd"} -> c.op \in {"has", "has_any"} /\ c.names # <<>>
         [] OfPrefix(c)                            -> c.op = "custom" /\ c.names # <<>>
         [] OTHER                                  -> c.op = "eq" /\ Len(c.names) <= 1
IsRoute(r) ==
    /\ r.path \in Seq(ToSet(r.path)) /\ r.pref \in Int /\ r.metric \in Int
    /\ r.len \in Int /\ r.len <= Longest(r)
IsMember(m) == DOMAIN m = {"net", "len", "ge", "le"} /\ m.len \in Nat /\ m.ge \in Int /\ m.le \in Int
IsStore(store) ==
    /\ \A i \in DOMAIN store.comms :
          IsList(store.comms[i].members) /\ (store.comms[i].logic = "AND" => store.comms[i].members # <<>>)
    /\ \A i \in DOMAIN store.prefixes :
          IsList(store.prefixes[i].members) /\ \A m \in ToSet(store.prefixes[i].members) : IsMember(m)
    /\ \A i, j \in DOMAIN store.rds : store.rds[i].number = store.rds[j].number => store.rds[i].name = store.rds[j].name

ASSUME MeaningAssumption ==
    \A x \in DOMAIN Subjects : LET s == Subjects[x] IN
        /\ IsStore(s.store)
        /\ s.numbers \subseteq Int
        /\ \A r \in s.routes : IsRoute(r)
        /\ \A c \in s.conds :
              /\ IsMade(c)
              /\ \A r \in s.routes, n \in ToSet(c.names) : c.field = "ip_prefix" /\ r.v6 =>
                    \A i \in DOMAIN s.store.prefixes : s.store.prefixes[i].name = n =>
                        \A m \in ToSet(s.store.prefixes[i].members) : m.net # r.net

VARIABLES
    subject,        \* which of the subjects
    rules,          \* the names RouteMap.apply is asked for, or NoRules
    turn,           \* the handler that runs
    policies,       \* made so far
    statements,     \* of the route of this handler
    open,           \* the statement of the with block the handler is in
    parts,
    pc,             \* handler, with, applied, written, raised
    out             \* the configuration, when written

vars == <<subject, rules, turn, policies, statements, open, parts, pc, out>>

it       == Subjects[subject]
handlers == Handlers(it.maps, rules)
Closed   == NewStatement("", Unset, <<>>)
NoOutput == [vendor |-> "", raises |-> FALSE, lists |-> [comms |-> {}, prefixes |-> {}, others |-> {}], policies |-> <<>>]

Init ==
    /\ subject \in DOMAIN Subjects
    /\ rules \in it.rules
    /\ turn = 1 /\ policies = <<>> /\ statements = <<>> /\ open = Closed /\ parts = 0
    /\ pc = IF handlers = <<>> THEN "applied" ELSE "handler"
    /\ out = NoOutput

(* Route.__call__ with its conditions, a name and a number.                *)
CallRoute(conds, name, number) ==
    /\ pc = "handler" /\ Len(statements) < it.max
    /\ parts' = parts + Len(conds)
    /\ IF Taken(statements, name, number) \/ CannotMatch(conds)
       THEN pc' = "raised" /\ UNCHANGED open
       ELSE pc' = "with" /\ open' = NewStatement(name, number, conds)
    /\ UNCHANGED <<subject, rules, turn, policies, statements, out>>

(* A method of the statement builder, or of one of its action builders.    *)
CallBuilder(c) ==
    /\ pc = "with"
    /\ parts' = parts + 1
    /\ open' = Call(open, c)
    /\ UNCHANGED <<subject, rules, turn, policies, statements, pc, out>>

(* allow, deny, next or next_policy as the last call, and __exit__.        *)
Leave(result) ==
    /\ pc = "with"
    /\ statements' = Append(statements, LeaveWith(open, result))
    /\ open' = Closed /\ pc' = "handler"
    /\ UNCHANGED <<subject, rules, turn, policies, parts, out>>

EndHandler ==
    /\ pc = "handler"
    /\ policies' = Append(policies, [name |-> handlers[turn], statements |-> statements])
    /\ statements' = <<>>
    /\ turn' = turn + 1
    /\ pc' = IF turn = Len(handlers) THEN "applied" ELSE "handler"
    /\ UNCHANGED <<subject, rules, open, parts, out>>

(* The generators of a vendor: one exception and the device has nothing.   *)
Generate(vendor) ==
    LET raises == ListsRaise(vendor, it.store, policies) \/ PoliciesRaise(vendor, it.store, policies)
    IN /\ pc = "applied"
       /\ pc' = "written"
       /\ out' = IF raises THEN [NoOutput EXCEPT !.vendor = vendor, !.raises = TRUE]
                 ELSE [vendor |-> vendor, raises |-> FALSE,
                       lists |-> AllLists(vendor, it.store, policies),
                       policies |-> Policies(vendor, it.store, policies)]
       /\ UNCHANGED <<subject, rules, turn, policies, statements, open, parts>>

Next ==
    \/ \E conds \in BoundedSeq(it.conds, MaxParts - parts), name \in it.names, number \in it.numbers :
            CallRoute(conds, name, number)
    \/ \E c \in it.calls : parts < MaxParts /\ CallBuilder(c)
    \/ \E result \in it.results : Leave(result)
    \/ EndHandler
    \/ \E vendor \in Vendors : Generate(vendor)

Spec == Init /\ [][Next]_vars

-----------------------------------------------------------------------------
(* What a routing policy promises once it is written for a device.         *)
Written1   == pc = "written" /\ ~out.raises
TermsOf(i) == out.policies[i].terms
AllRows(Rows1(_)) ==
    UNION {UNION {ToSet(Rows1(TermsOf(i)[j])) : j \in DOMAIN TermsOf(i)} : i \in DOMAIN out.policies}
PolicyConds == {c \in Conditions(policies) : OfPrefix(c)}

-----------------------------------------------------------------------------
(* One name, two families: the second list is taken for written.           *)
OneFamily ==
    \A c, d \in PolicyConds : c.field # d.field => ToSet(c.names) \cap ToSet(d.names) = {}

(* Conditions and actions on communities of a type name lists of the type. *)
WellTyped ==
    /\ \A c \in CommunityConditions(policies) : \A n \in ToSet(c.names) :
          Named(it.store.comms, n).type = TypeOf[c.field]
    /\ \A a \in Actions(policies) : a.field \in CommunityFields =>
          \A n \in NamesOf(a.v) : Named(it.store.comms, n).type = TypeOf[a.field]

(* Every list a policy refers to is written, with the command the          *)
(* reference asks for, while no prefix list serves two address families    *)
(* and no community list what is of another type: the policy generator     *)
(* and four list generators name lists alike.                              *)
ListsDefined ==
    Written1 /\ OneFamily /\ WellTyped =>
        /\ \A row \in AllRows(LAMBDA t : t.match) : \A i \in DOMAIN row.names :
              row.kind \in CommunityKinds \cup PrefixKinds \cup OtherKinds =>
                  Of(out.lists.comms \cup out.lists.prefixes \cup out.lists.others, row.kind, row.names[i]) # {}
        /\ \A row \in AllRows(LAMBDA t : t.body) : \A i \in DOMAIN row.names :
              Of(out.lists.comms, row.kind, row.names[i]) # {}

-----------------------------------------------------------------------------
(* The policies whose text means on every vendor what it says.  Numbers    *)
(* rise; no two terms have one header; Juniper: communities of one type,   *)
(* and a route filter not under the name of another.                       *)
Rising(ss)        == \A i, j \in DOMAIN ss : i < j => ss[i].number < ss[j].number
SameHeader(v, ss) ==
    \E i, j \in DOMAIN ss :
        /\ i < j
        /\ CASE v = "iosxr"   -> MatchRows(v, it.store, ss[i].match) = MatchRows(v, it.store, ss[j].match)
             [] v = "juniper" -> IF ss[i].name # "" THEN ss[i].name = ss[j].name
                                 ELSE ss[j].name = "" /\ TermNumbers(ss)[i] = TermNumbers(ss)[j]
             [] OTHER         -> FALSE
TwoTypes(ss) ==
    \E s \in ToSet(ss) : \E i, j \in DOMAIN s.match : i # j /\ IsCommunity(s.match[i]) /\ IsCommunity(s.match[j])
SharesFilterName(v) ==
    /\ v = "juniper"
    /\ \E c, d \in PolicyConds : \E n \in ToSet(c.names) \cap ToSet(d.names) :
          /\ PrefixName(v, it.store, n, c) = PrefixName(v, it.store, n, d)
          /\ PrefixList(v, it.store, n, c) # PrefixList(v, it.store, n, d)
(* A prefix list of Juniper has no lengths: where some of its members are  *)
(* exact and some are not, the policy takes them all for not.              *)
MixesLengths(v) ==
    /\ v = "juniper"
    /\ \E c \in PolicyConds : \E n \in ToSet(c.names) :
          /\ FlavourOf(it.store, n, c) = "orlonger"
          /\ \E m \in ToSet(GetPrefix(it.store, n, c).members) : m.ge = Unset /\ m.le = Unset
Sound(v, ss) ==
    /\ v \in Numbered => Rising(ss)
    /\ ~SameHeader(v, ss)
    /\ v = "juniper" => ~TwoTypes(ss)

(* A policy decides about every route as its statements say, one after     *)
(* another, on each vendor that takes it: conditions survive merging, the  *)
(* lists hold what the conditions mean, terms stay apart and in order.     *)
VerdictsMeant ==
    Written1 /\ OneFamily /\ WellTyped /\ ~SharesFilterName(out.vendor) /\ ~MixesLengths(out.vendor) =>
        \A i \in DOMAIN policies :
            Sound(out.vendor, policies[i].statements) =>
                \A r \in it.routes :
                    Verdict(out.vendor, out, TermsOf(i), r) = VerdictMeant(it.store, policies[i].statements, r)

-----------------------------------------------------------------------------
(* Calls that no order of rows can tell apart from others: a value both    *)
(* added and removed, set after which something is removed, a number added *)
(* twice, two calls that replace each other's words.                       *)
Once == {"prepend", "delete", "last", "add_metric"}
Clear(s) ==
    \A i, j \in DOMAIN s.calls : LET c == s.calls[i]  d == s.calls[j] IN
        /\ i # j /\ c.m \in Once => c.m # d.m
        /\ c.m = "set_field" /\ d.m = "add_metric" => i < j
        /\ c.field = "as_path" /\ d.field = "as_path" => i = j
        /\ {c.field, d.field} \subseteq CommunityActions =>
              /\ c.field = d.field
              /\ c.m = "remove" /\ d.m \in {"add", "set"} =>
                     OwnTypes(it.store, c.names) \cap OwnTypes(it.store, d.names) = {}

(* What the generators get wrong: Arista reads what extcommunity_rt and    *)
(* extcommunity_soo add from what they remove; Huawei adds soo as rt;      *)
(* Cumulus adds the name of a list; IOS XR resets rt alone; IOS XR and     *)
(* Cumulus prepend item by item, and IOS XR keeps one of two equal rows.   *)
KnownWrong(v, c) ==
    \/ v = "arista" /\ c.m = "add" /\ c.field \in {"extcommunity_rt", "extcommunity_soo"}
    \/ v = "huawei" /\ c.field = "extcommunity_soo"
    \/ v = "cumulus" /\ c.m = "add" /\ c.field # "community"
    \/ v = "iosxr" /\ c.m = "set" /\ c.field = "extcommunity" /\ c.names = <<>>
    \/ v \in {"iosxr", "cumulus"} /\ c.field = "as_path" /\ Len(c.names) > 1

(* Types of extended communities a set does not name: some vendors keep    *)
(* them, some do not.                                                      *)
SetTypes(s) ==
    UNION {TypesOf(it.store, a.v.set) : a \in {x \in ToSet(s.then) : x.field = "extcommunity"}}
Observed(s, r) ==
    IF SetTypes(s) = {} THEN r ELSE [r EXCEPT !.comms = OfScope(SetTypes(s), @)]

(* A statement does to every route what its builder was told, in the order *)
(* it was told, on each vendor that takes it, but for what is known to be  *)
(* wrong: replacing forgets what was added before, not what comes after.   *)
ActionsMeant ==
    Written1 =>
        \A i \in DOMAIN policies : \A s \in ToSet(policies[i].statements) :
            /\ Len(policies[i].statements) = 1
            /\ Clear(s)
            /\ \A j \in DOMAIN s.calls : ~KnownWrong(out.vendor, s.calls[j])
            => \A r \in it.routes :
                  Observed(s, FoldLeft(LAMBDA x, t : DoTerm(out, t, x), r, TermsOf(i)))
                      = Observed(s, CallsMeant(it.store, s, r))
=============================================================================
