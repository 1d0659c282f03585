------------------------------ MODULE RplDevice ------------------------------
(***************************************************************************)
(* What a router does with the policies written for it, as far as the      *)
(* generators rely on it, and what the user meant by them.                 *)
(*                                                                         *)
(* A route is [comms, net, len, rds, paths, path, pref, metric, protocol]: *)
(* comms its community values, rds and paths the words of rd filters and   *)
(* the as-path filters it satisfies, path its as-path.                     *)
(***************************************************************************)
EXTENDS RplActions

Compared(op, n, lo, hi) ==
    CASE op = "eq" -> n = lo    [] op = "ge" -> n >= lo   [] op = "le" -> n <= lo
      [] op = "gt" -> n > lo    [] op = "lt" -> n < lo    [] op = "between" -> n >= lo /\ n <= hi

Attribute(r, field) ==
    CASE field = "as_path_length" -> Len(r.path)
      [] field = "local_pref"     -> r.pref
      [] field = "metric"         -> r.metric

(* A prefix is in a member: of its length, or within its bounds.           *)
InMember(m, max, r) ==
    /\ r.net = m.net
    /\ IF m.ge = Unset /\ m.le = Unset THEN r.len = m.len
       ELSE /\ r.len >= IF m.ge = Unset THEN m.len ELSE m.ge
            /\ r.len <= IF m.le = Unset THEN max ELSE m.le
Longest(r) == IF r.v6 THEN 6 ELSE 4

-----------------------------------------------------------------------------
(* The router.                                                             *)
Of(set, kind, name) == {l \in set : l.kind = kind /\ l.name = name}

CommunityHolds(cfg, row, name, r) ==
    \E l \in Of(cfg.lists.comms, row.kind, name) :
        /\ l.entries # {}
        /\ IF name \in row.every THEN \A e \in l.entries : e \subseteq r.comms
                                 ELSE \E e \in l.entries : e \subseteq r.comms

PrefixHolds(cfg, row, name, r) ==
    \E l \in Of(cfg.lists.prefixes, row.kind, name) : \E m \in l.members :
        InMember(IF row.op = "orlonger" THEN [m EXCEPT !.le = Longest(r)] ELSE m, Longest(r), r)

OtherHolds(cfg, row, name, r) ==
    \E l \in Of(cfg.lists.others, row.kind, name) :
        IF row.kind = "rd" THEN ToSet(l.items) \cap r.rds # {} ELSE l.items \in r.paths

CommunityKinds == {"BASIC", "LARGE", "RT", "SOO", "EXT", "community"}
PrefixKinds    == {"ip_prefix", "ipv6_prefix", "prefix-set", "prefix-list", "route-filter"}
OtherKinds     == {"rd", "as-path"}

NameHolds(cfg, row, name, r) ==
    CASE row.kind \in CommunityKinds -> CommunityHolds(cfg, row, name, r)
      [] row.kind \in PrefixKinds    -> PrefixHolds(cfg, row, name, r)
      [] row.kind \in OtherKinds     -> OtherHolds(cfg, row, name, r)
      [] OTHER                       -> r.protocol = name[1]

RowHolds(cfg, row, r) ==
    CASE row.names = <<>>  -> Compared(row.op, Attribute(r, row.kind), row.lo, row.hi)
      [] row.names # <<>> /\ row.join = "and" -> \A i \in DOMAIN row.names : NameHolds(cfg, row, row.names[i], r)
      [] OTHER             -> \E i \in DOMAIN row.names : NameHolds(cfg, row, row.names[i], r)

(* Rows of one kind of which any may match: where the generators write one *)
(* per name of a condition that means any of them.                         *)
Alternatives(vendor) ==
    CASE vendor = "huawei"  -> {"BASIC", "RT", "ip_prefix", "ipv6_prefix"}
      [] vendor = "juniper" -> {"prefix-list", "route-filter"}
      [] vendor = "iosxr"   -> {}
      [] OTHER              -> {"ip_prefix", "ipv6_prefix"}

SameKind(vendor, a, b) == a.kind = b.kind \/ (vendor = "juniper" /\ {a.kind, b.kind} \subseteq PrefixKinds)

TermMatches(vendor, cfg, t, r) ==
    \A i \in DOMAIN t.match :
        IF t.match[i].kind \in Alternatives(vendor)
        THEN \E j \in DOMAIN t.match : SameKind(vendor, t.match[i], t.match[j]) /\ RowHolds(cfg, t.match[j], r)
        ELSE RowHolds(cfg, t.match[i], r)

RowValues(cfg, row) ==
    row.vals \cup UNION {UNION l.entries : l \in {m \in cfg.lists.comms :
                                m.kind = row.kind /\ m.name \in ToSet(row.names)}}

OfScope(scope, comms) == {x \in comms : x[1] \in scope}

DoRow(cfg, r, row) ==
    CASE row.what = "comm" ->
             [r EXCEPT !.comms = CASE row.how = "set" -> (@ \ OfScope(row.scope, @)) \cup RowValues(cfg, row)
                                   [] row.how = "add" -> @ \cup RowValues(cfg, row)
                                   [] row.how = "del" -> @ \ RowValues(cfg, row)]
      [] row.what = "metric"     -> [r EXCEPT !.metric = IF row.how = "add" THEN @ + row.num ELSE row.num]
      [] row.what = "local_pref" -> [r EXCEPT !.pref = row.num]
      [] row.what = "as_path"    ->
             [r EXCEPT !.path = CASE row.how = "set"    -> row.items
                                  [] row.how = "delete" -> SelectSeq(@, LAMBDA x : x # row.items[1])
                                  [] OTHER              -> row.items \o @]
      [] OTHER -> r

DoTerm(cfg, t, r) == FoldLeft(LAMBDA x, row : DoRow(cfg, x, row), r, t.body)

(* The verdict of a term: that of the first row that gives one.            *)
TermResult(t) ==
    LET says == {i \in DOMAIN t.body : t.body[i].what = "result" /\ t.body[i].how # "next"}
    IN IF says = {} THEN "next" ELSE t.body[Min(says)].how

(* Route maps go by number, IOS XR and Juniper by place.                   *)
InOrder(vendor, terms) ==
    IF vendor \in Numbered THEN SortedBy(terms, LAMBDA t : t.number) ELSE terms

Verdict(vendor, cfg, terms, r) ==
    LET ordered  == InOrder(vendor, terms)
        deciding == {i \in DOMAIN ordered : TermMatches(vendor, cfg, ordered[i], r) /\ TermResult(ordered[i]) # "next"}
    IN IF deciding = {} THEN "end" ELSE TermResult(ordered[Min(deciding)])

-----------------------------------------------------------------------------
(* What the user means.                                                    *)
ListHolds(c, r) == IF c.logic = "AND" THEN Values(c) \subseteq r.comms ELSE Values(c) \cap r.comms # {}

NameMeant(store, c, name, r) ==
    CASE IsCommunity(c) -> ListHolds(Named(store.comms, name), r)
      [] c.field = "rd" -> ToSet(Named(store.rds, name).members) \cap r.rds # {}
      [] c.field = "as_path_filter" -> Named(store.aspaths, name).filters \in r.paths
      [] OfPrefix(c)    -> \E m \in ToSet(Named(store.prefixes, name).members) :
                               InMember(IF Overrides(c) THEN [m EXCEPT !.ge = c.lo, !.le = c.hi] ELSE m,
                                        MaxLen(c.field), r)
      [] OTHER          -> r.protocol = name

Meant(store, c, r) ==
    CASE c.names = <<>> -> Compared(c.op, Attribute(r, c.field), c.lo, c.hi)
      [] c.names # <<>> /\ c.op = "has" -> \A i \in DOMAIN c.names : NameMeant(store, c, c.names[i], r)
      [] OTHER          -> \E i \in DOMAIN c.names : NameMeant(store, c, c.names[i], r)

StatementMeant(store, s, r) == \A i \in DOMAIN s.conds : Meant(store, s.conds[i], r)

VerdictMeant(store, statements, r) ==
    LET deciding == {i \in DOMAIN statements : StatementMeant(store, statements[i], r) /\ statements[i].result # "next"}
    IN IF deciding = {} THEN "end" ELSE statements[Min(deciding)].result

(* A call of the builder, done to the route.                               *)
CallMeant(store, r, c) ==
    CASE c.field \in CommunityActions ->
             LET vals  == OwnTypes(store, c.names)
                 scope == IF c.field = "extcommunity" THEN {"RT", "SOO"} ELSE {TypeOf[c.field]}
             IN [r EXCEPT !.comms = CASE c.m = "set"    -> (@ \ OfScope(scope, @)) \cup vals
                                      [] c.m = "add"    -> @ \cup vals
                                      [] c.m = "remove" -> @ \ vals]
      [] c.field = "metric"     -> [r EXCEPT !.metric = IF c.m = "add_metric" THEN @ + c.num ELSE c.num]
      [] c.field = "local_pref" -> [r EXCEPT !.pref = c.num]
      [] c.field = "as_path"    ->
             [r EXCEPT !.path = CASE c.m = "set"    -> c.names
                                  [] c.m = "delete" -> SelectSeq(@, LAMBDA x : x \notin ToSet(c.names))
                                  [] OTHER          -> c.names \o @]
      [] OTHER -> r

CallsMeant(store, s, r) == FoldLeft(LAMBDA x, c : CallMeant(store, x, c), r, s.calls)
=============================================================================
