------------------------------ MODULE RplPolicy ------------------------------
(***************************************************************************)
(* Routing policies as annet.rpl builds them: conditions and how they      *)
(* merge, the statement builder, the statements of a route.                *)
(*                                                                         *)
(* A condition is [field, op, names, lo, hi]: names are the lists it       *)
(* refers to (or its value, when that is a word), lo and hi its numbers.   *)
(* An action is [field, type, v], v a custom value or the number v.num.    *)
(***************************************************************************)
EXTENDS Lists

Unset == -1

-----------------------------------------------------------------------------
(* Conditions.                                                             *)
MaxLen(field) == IF field = "ipv6_prefix" THEN 6 ELSE 4

Has(field, names)          == [field |-> field, op |-> "has", names |-> names, lo |-> 0, hi |-> 0]
HasAny(field, names)       == [field |-> field, op |-> "has_any", names |-> names, lo |-> 0, hi |-> 0]
Compare(field, op, n)      == [field |-> field, op |-> op, names |-> <<>>, lo |-> n, hi |-> 0]
EqualTo(field, name)       == [field |-> field, op |-> "eq", names |-> <<name>>, lo |-> 0, hi |-> 0]
MatchPrefix(field, names, ge, le) ==
    [field |-> field, op |-> "custom", names |-> names, lo |-> ge, hi |-> le]
MatchOrLonger(field, names) == MatchPrefix(field, names, Unset, MaxLen(field))

(* The operators a field's factory offers.                                 *)
Supported(c) ==
    CASE c.field = "local_pref"     -> c.op \in {"lt", "eq", "ge", "le", "between"}
      [] c.field = "as_path_length" -> c.op \in {"eq", "ge", "le", "between"}
      [] c.field \in {"interface", "protocol", "metric", "family"} -> c.op = "eq"
      [] OTHER -> TRUE

(* What the factories make, but for has_any() of no communities at all,    *)
(* for which Arista and Cumulus would refer to a list without a name.      *)
IsCondition(c) ==
    /\ DOMAIN c = {"field", "op", "names", "lo", "hi"}
    /\ IsList(c.names)
    /\ c.field = "as_path_filter" => Len(c.names) = 1
    /\ c.op = "has_any" => c.names # <<>>

Fails(c) == [c EXCEPT !.op = "error"]

(* A mutant of Merge: the wider of two bounds.                             *)
MergeWidens(a, b) ==
    CASE a.op = "le" /\ b.op = "ge" -> [a EXCEPT !.op = "between", !.lo = b.lo, !.hi = a.lo]
      [] a.op = "ge" /\ b.op = "le" -> [a EXCEPT !.op = "between", !.lo = a.lo, !.hi = b.lo]
      [] a.op = b.op /\ a.op \in {"le", "lt"} -> [a EXCEPT !.lo = Max({a.lo, b.lo})]
      [] a.op = b.op /\ a.op \in {"ge", "gt"} -> [a EXCEPT !.lo = Min({a.lo, b.lo})]
      [] OTHER -> Fails(a)

(* Two conditions on one field.                                            *)
Merge(a, b) ==
    CASE a.op = "le" /\ b.op = "ge" -> [a EXCEPT !.op = "between", !.lo = b.lo, !.hi = a.lo]
      [] a.op = "ge" /\ b.op = "le" -> [a EXCEPT !.op = "between", !.lo = a.lo, !.hi = b.lo]
      [] a.op = b.op /\ a.op \in {"le", "lt"} -> [a EXCEPT !.lo = Min({a.lo, b.lo})]
      [] a.op = b.op /\ a.op \in {"ge", "gt"} -> [a EXCEPT !.lo = Max({a.lo, b.lo})]
      [] OTHER -> Fails(a)

AddCondition(merged, c) ==
    IF \E i \in DOMAIN merged : merged[i].field = c.field
    THEN [i \in DOMAIN merged |-> IF merged[i].field = c.field THEN Merge(merged[i], c) ELSE merged[i]]
    ELSE Append(merged, c)

MergeConditions(conds) ==
    LET merged[n \in 0 .. Len(conds)] == IF n = 0 THEN <<>> ELSE AddCondition(merged[n - 1], conds[n])
    IN merged[Len(conds)]

-----------------------------------------------------------------------------
(* The builder of one statement: what it will say, and the custom values   *)
(* that leaving the with block turns into actions.                         *)
NoValue == [replaced |-> FALSE, set |-> <<>>, added |-> <<>>, removed |-> <<>>,
            expand |-> <<>>, last |-> <<>>, num |-> 0]

CustomFields == <<"community", "large_community", "extcommunity", "extcommunity_rt",
                  "extcommunity_soo", "as_path", "next_hop">>

(* conds and calls remember what was asked for, for the properties.        *)
NewStatement(name, number, conds) ==
    [name |-> name, number |-> number, conds |-> conds, match |-> MergeConditions(conds),
     then |-> <<>>, result |-> "next",
     custom |-> [f \in ToSet(CustomFields) |-> NoValue], calls |-> <<>>]

(* A mutant of Amend: set forgets to drop what was added before.           *)
AmendSetKeeps(v, c) ==
    CASE c.m = "add"     -> [v EXCEPT !.added = @ \o c.names]
      [] c.m = "remove"  -> [v EXCEPT !.removed = @ \o c.names]
      [] c.m = "set"     -> [v EXCEPT !.replaced = TRUE, !.set = c.names]
      [] c.m = "prepend" -> [v EXCEPT !.added = c.names]
      [] OTHER           -> v

(* A call is [m, field, names, num]: the method, of which builder.         *)
Amend(v, c) ==
    CASE c.m = "add"     -> [v EXCEPT !.added = @ \o c.names]
      [] c.m = "remove"  -> [v EXCEPT !.removed = @ \o c.names]
      [] c.m = "set"     -> [NoValue EXCEPT !.replaced = TRUE, !.set = c.names]
      [] c.m = "prepend" -> [v EXCEPT !.added = c.names]
      [] c.m = "delete"  -> [v EXCEPT !.removed = c.names]
      [] c.m = "expand"  -> [v EXCEPT !.expand = c.names]
      [] c.m = "last"    -> [v EXCEPT !.last = c.names]
      [] c.m = "target"  -> [v EXCEPT !.set = c.names]

IsCall(c) ==
    /\ IsList(c.names)
    /\ c.field \in ToSet(CustomFields) =>
           c.m \in {"add", "remove", "set", "prepend", "delete", "expand", "last", "target"}

FieldAction(field, type, num) ==
    [field |-> field, type |-> type, v |-> [NoValue EXCEPT !.num = num]]
Mentions(then, field) == \E i \in DOMAIN then : then[i].field = field
OnField(then, field, Op(_)) ==
    [i \in DOMAIN then |-> IF then[i].field = field THEN Op(then[i]) ELSE then[i]]

(* _set: the field's action becomes this one.                              *)
SetField(then, field, num) ==
    IF Mentions(then, field)
    THEN OnField(then, field, LAMBDA a : FieldAction(field, "set", num))
    ELSE Append(then, FieldAction(field, "set", num))

(* add_metric: on top of a number that is set, in place of one added.      *)
AddMetric(then, num) ==
    IF Mentions(then, "metric")
    THEN OnField(then, "metric", LAMBDA a : [a EXCEPT !.v.num = IF a.type = "set" THEN @ + num ELSE num])
    ELSE Append(then, FieldAction("metric", "add", num))

(* One call on the builder.                                                *)
Call(s, c) ==
    [s EXCEPT !.calls  = Append(@, c),
              !.custom = IF c.field \in DOMAIN @ THEN [@ EXCEPT ![c.field] = Amend(s.custom[c.field], c)] ELSE @,
              !.then   = CASE c.m = "set_field"  -> SetField(@, c.field, c.num)
                           [] c.m = "add_metric" -> AddMetric(@, c.num)
                           [] OTHER -> @]

(* __exit__: the custom values that ask for anything.                      *)
Asks(v) == v # NoValue
Leaving(s) == Those(CustomFields, LAMBDA f : Asks(s.custom[f]))
LeaveWith(s, result) ==
    [name |-> s.name, number |-> s.number, conds |-> s.conds, match |-> s.match, calls |-> s.calls,
     then |-> s.then \o [i \in DOMAIN Leaving(s) |-> [field |-> Leaving(s)[i], type |-> "custom",
                                                    v |-> s.custom[Leaving(s)[i]]]],
     result |-> result]

-----------------------------------------------------------------------------
(* Route.__call__: a statement is refused when its number or its name is   *)
(* taken, and when its conditions do not merge.                            *)
Taken(statements, name, number) ==
    \E i \in DOMAIN statements :
        \/ number # Unset /\ statements[i].number = number
        \/ name # "" /\ statements[i].name = name

CannotMatch(conds) ==
    \/ \E i \in DOMAIN conds : ~Supported(conds[i])
    \/ \E i \in DOMAIN MergeConditions(conds) : MergeConditions(conds)[i].op = "error"

(* RouteMap.apply: the handlers of the map, then those of its submaps; the *)
(* names in rules, or all when none are given.                             *)
NoRules == {"*"}
Handlers(maps, rules) ==
    SelectSeq(FlattenSeq(maps), LAMBDA h : rules = NoRules \/ h \in rules)
=============================================================================
