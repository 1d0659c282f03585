------------------------------- MODULE OldNew -------------------------------
(***************************************************************************)
(* The old and the new configuration of each device: old_new of gen.py,    *)
(* with the runs of generators (generators/__init__.py), their results     *)
(* (generators/result.py) and the references among them (reference.py).    *)
(*                                                                         *)
(* Configurations have one level: a set of rows.  What the storage, the    *)
(* fetcher, the files and the generators have in store for a device is its *)
(* source.  A partial generator is [name, disabled, does, rows, acl, safe, *)
(* ref, defs]; does is what running it comes to, ref the words a reference *)
(* generator looks for, defs[w] the rows it has for word w.                *)
(***************************************************************************)
EXTENDS Acl, JsonFragment

CONSTANTS
    Devices,     \* the devices of the run, in order
    Store,       \* bound: for each device by name, what may be in store for it
    ArgsSet      \* bound: the arguments

ASSUME DevicesAssumption ==
    Len(Devices) \in Nat \ {0} /\ DOMAIN Devices = 1..Len(Devices)

(* Names are numbers, in the order of the names.  Rules have one owner as  *)
(* they are written; a pattern says what it matches, and how closely.      *)
IsGenerator(g) ==
    /\ DOMAIN g = {"name", "disabled", "does", "rows", "acl", "safe", "ref", "defs"}
    /\ g.name \in Int /\ IsList(g.acl) /\ \A r \in ToSet(g.acl) : IsRule(r)
    /\ g.ref \subseteq DOMAIN g.defs
    /\ \A row \in g.rows \cup UNION {g.defs[w] : w \in DOMAIN g.defs} : IsRow(row)
GeneratorsOf(s) == ToSet(s.partial) \cup ToSet(s.refs)
RulesOf(s)      == UNION {ToSet(g.acl) : g \in GeneratorsOf(s)}

(* File generators; the pointers of an acl are lists, of lists of globs.   *)
IsEntire(g) == g.type = "entire" /\ g.name \in Int /\ g.prio \in Int
IsJson(g)   ==
    /\ g.type = "json" /\ g.name \in Int /\ IsDocument(g.config)
    /\ IsList(g.acl) /\ \A acl \in ToSet(g.acl) : IsList(acl.pointer)
ASSUME StoreAssumption ==
    \A d \in DOMAIN Devices : \A x \in DOMAIN Store[d] : LET s == Store[d][x] IN
        /\ IsList(s.partial) /\ IsList(s.refs) /\ \A g \in GeneratorsOf(s) : IsGenerator(g)
        /\ \A r, q \in RulesOf(s) : r.pat = q.pat => r.words = q.words /\ r.sim = q.sim
        /\ IsList(s.entire) /\ \A g \in ToSet(s.entire) : IsEntire(g)
        /\ IsList(s.jsonGens) /\ \A g \in ToSet(s.jsonGens) : IsJson(g)
        /\ \A p \in DOMAIN s.oldJson : IsDocument(s.oldJson[p])

VARIABLES
    args,        \* GenOptions, and config, no_new, do_files_download
    at,          \* the device old_new is at
    src,         \* the name of its source
    pc,          \* where _old_new_per_device is
    gens,        \* the generators being iterated over
    k,           \* how many of them have run
    results,     \* RunGeneratorResult: the partial, entire or json results
    refs,        \* ref_track: [from, to]
    cfg,         \* old, new, safeOld, safeNew
    made,        \* the results of the file generators so far
    files,       \* the files of the device, once made, by path
    verdict      \* what each device ended with

here == Store[at][src]
vars == <<args, at, src, pc, gens, k, results, refs, cfg, made, files, verdict>>

NoConfigs == [old |-> {}, new |-> {}, safeOld |-> {}, safeNew |-> {}]
NoneMade  == [entire |-> <<>>, json |-> <<>>]
NoFiles   == [entire |-> <<>>, safeEntire |-> <<>>, json |-> EmptyDoc, safeJson |-> EmptyDoc]

Paths(rs) == {r.path : r \in ToSet(rs)}

Init ==
    /\ args \in ArgsSet
    /\ at = 1
    /\ src \in DOMAIN Store[1]
    /\ pc = "read"
    /\ gens = <<>> /\ k = 0 /\ results = <<>> /\ refs = {}
    /\ cfg = NoConfigs /\ made = NoneMade /\ files = NoFiles
    /\ verdict = [d \in DOMAIN Devices |-> "none"]

-----------------------------------------------------------------------------
(* select_generators and build_generators: the classes are sorted by name, *)
(* entire generators then by prio.  validate_genselect: unknown names end  *)
(* the program.                                                            *)
Selected(g) ==
    /\ IF args.allowed # {} THEN g.name \in args.allowed
       ELSE g.disabled => g.name \in args.forced
    /\ g.name \notin args.excluded

BuildGenerators(classes) ==
    SortedBy(Those(classes, Selected), LAMBDA g : g.name)

BuildEntire(classes) ==
    SortedBy(BuildGenerators(classes), LAMBDA g : -g.prio)

(* GeneratorPartialResult is stored by the name of the class, in the place *)
(* of an earlier result of that class.                                     *)
AddByName(rs, r) ==
    IF \E i \in DOMAIN rs : rs[i].name = r.name
    THEN [i \in DOMAIN rs |-> IF rs[i].name = r.name THEN r ELSE rs[i]]
    ELSE Append(rs, r)

(* add_entire: of the results for one path the one of the highest prio.    *)
AddEntire(rs, r) ==
    IF \E i \in DOMAIN rs : rs[i].path = r.path
    THEN [i \in DOMAIN rs |-> IF rs[i].path = r.path /\ r.prio > rs[i].prio THEN r ELSE rs[i]]
    ELSE Append(rs, r)

-----------------------------------------------------------------------------
(* The end of a device, and of the loop when it raises.                    *)
(* Mutant: an error leaves no result behind.                               *)
FinishSilently(v) ==
    /\ verdict' = [verdict EXCEPT ![at] = IF v = "error" THEN "none" ELSE v]
    /\ pc' = "yield"

Finish(v) ==
    /\ verdict' = [verdict EXCEPT ![at] = v]
    /\ pc' = "yield"

Raise ==
    /\ verdict' = [verdict EXCEPT ![at] = "raised"]
    /\ pc' = "raised"

(* On to the file generators, unless nothing is to be generated.  The      *)
(* check of required packages looks the device up by its fqdn in a map     *)
(* keyed by devices: a KeyError.                                           *)
StartFiles ==
    /\ k' = 0
    /\ gens' = IF args.noNew THEN <<>> ELSE BuildEntire(here.entire) \o BuildGenerators(here.jsonGens)
    /\ IF ~args.noNew /\ here.packages /\ args.requiredPackages
       THEN Raise ELSE pc' = "files" /\ UNCHANGED verdict

(* _old_new_get_config_cli.  config "empty" reads nothing; a device of     *)
(* several whose file cannot be read has none.                             *)
ReadFails ==
    \/ args.config # "empty" /\ here.read = "failed"
    \/ args.failOnEmpty /\ (args.config = "empty" \/ here.text = {})

(* A device without a configuration has the one of InitialConfig.          *)
ReadConfig ==
    /\ pc = "read" /\ ~here.pc
    /\ IF ReadFails
       THEN Finish("error") /\ UNCHANGED <<gens, cfg>>
       ELSE /\ cfg' = [cfg EXCEPT !.old =
                        IF args.config = "empty" \/ here.text = {} THEN here.initial ELSE here.text]
            /\ gens' = BuildGenerators(here.partial)
            /\ pc' = "partial"
            /\ UNCHANGED verdict
    /\ UNCHANGED <<args, at, src, k, results, refs, made, files>>

-----------------------------------------------------------------------------
(* What apply_acl makes of one level.                                      *)
Applied(rows, acl)   == {row \in rows : Passes(row, acl)}
NotAllowed(rows, acl) == \E row \in rows : ~MatchRowToAcl(row, acl).matched
Clashes(rows, acl)   == \E row \in rows : MatchRowToAcl(row, acl).clash

(* _combine_acl_text: each rule is marked with its generator.              *)
Named(rules, gen) ==
    [i \in DOMAIN rules |-> [rules[i] EXCEPT !.owners = <<[gen |-> gen, keep |-> @[1].keep]>>]]
AclOf(rs)     == MergeToplevel(FlattenSeq([i \in DOMAIN rs |-> Named(rs[i].acl, rs[i].name)]))
SafeAclOf(rs) == MergeToplevel(FlattenSeq([i \in DOMAIN rs |-> Named(rs[i].safe, rs[i].name)]))

(* Mutant: a reference is given one of its groups only.                    *)
RefMatchFirst(config) ==
    LET Words(r) == {row.word : row \in config} \cap r.ref
    IN Collect(here.refs, LAMBDA r :
            IF Words(r) = {} THEN <<>> ELSE <<[r EXCEPT !.rows = @ \cup r.defs[CHOOSE w \in r.ref : TRUE]]>>)

(* RefMatcher: which reference generators a configuration refers to, with  *)
(* the groups they are given.                                              *)
RefMatch(config) ==
    LET Words(r) == {row.word : row \in config} \cap r.ref
    IN Collect(here.refs, LAMBDA r :
            IF Words(r) = {} THEN <<>> ELSE <<[r EXCEPT !.rows = @ \cup UNION {r.defs[w] : w \in Words(r)}]>>)

(* Mutant: the generator's own acl is not enforced.                        *)
PartialResultAny(g) ==
    LET rows == IF args.noNew THEN {} ELSE g.rows
    IN [ok |-> TRUE, name |-> g.name, acl |-> g.acl, safe |-> g.safe, config |-> rows, safeConfig |-> {}]

(* _run_partial_generator, unless it raises.                               *)
PartialResult(g) ==
    LET rows   == IF args.noNew THEN {} ELSE g.rows
        config == IF args.noAcl THEN rows ELSE Applied(rows, MergeToplevel(g.acl))
        safe   == IF args.noAcl \/ ~args.aclSafe THEN {} ELSE Applied(config, MergeToplevel(g.safe))
    IN [ok |-> args.noAcl \/ ~NotAllowed(rows, MergeToplevel(g.acl)),
        name |-> g.name, acl |-> g.acl, safe |-> g.safe, config |-> config, safeConfig |-> safe]

(* One turn of the loop of run_partial_generators.  Reference generators   *)
(* the result refers to join the list that is being iterated over.         *)
Skipped(g) == g.does = "unsupported" \/ (g.does = "not_supported" /\ ~args.noNew)
Broken(g)  == g.does = "fails" /\ ~args.noNew

RunPartial ==
    /\ pc = "partial" /\ k < Len(gens)
    /\ LET g == gens[k + 1]
           r == PartialResult(g)
       IN IF Skipped(g) THEN UNCHANGED <<gens, results, refs, verdict, pc>>
          ELSE IF Broken(g) \/ ~r.ok THEN Raise /\ UNCHANGED <<gens, results, refs>>
          ELSE /\ gens' = gens \o RefMatch(r.config)
               /\ refs' = refs \cup {[from |-> g.name, to |-> m.name] : m \in ToSet(RefMatch(r.config))}
               /\ results' = AddByName(results, r)
               /\ UNCHANGED <<verdict, pc>>
    /\ k' = k + 1
    /\ UNCHANGED <<args, at, src, cfg, made, files>>
-----------------------------------------------------------------------------
(* implicit.config: default rows for which nothing is written.             *)
WithImplicit(rows) ==
    LET missing == {i \in here.implicit : ~i.ignore /\ ~\E row \in rows : row.word \in i.words}
    IN IF args.addImplicit THEN rows \cup {i.row : i \in missing} ELSE rows

Tree(rs, safe) == UNION {IF safe THEN r.safeConfig ELSE r.config : r \in ToSet(rs)}

(* Mutant: all of the old configuration.                                   *)
SafeOldAll(old, safeAcl) == Applied(WithImplicit(cfg.old), safeAcl)

(* What of the old configuration, the part the acls let through, is safe.  *)
SafeOld(old, safeAcl) == Applied(old, safeAcl)

(* The generated configuration, the implicit rows, the acls of those that  *)
(* ran and the filter, in this order.  The safe side knows no filter.      *)
Merge ==
    LET acl   == AclOf(results)
        safe  == SafeAclOf(results)
        useSafe == ~args.noAcl /\ args.aclSafe
        new0  == WithImplicit(IF args.noNew THEN {} ELSE Tree(results, FALSE))
        safe0 == WithImplicit(IF args.noNew THEN {} ELSE Tree(results, TRUE))
        old1  == LET old == WithImplicit(cfg.old) IN IF args.noAcl THEN old ELSE Applied(old, acl)
        new1  == IF args.noAcl THEN new0 ELSE Applied(new0, acl)
        Filtered(rows) == IF args.filter = <<>> THEN rows ELSE Applied(rows, args.filter)
        Excluded(rows) == args.filter # <<>> /\
            \E row \in rows : ~MatchRowToAcl(row, args.filter).matched /\ row.word \in here.ordered
    IN /\ pc = "partial" /\ k = Len(gens)
       /\ IF \/ ~args.noAcl /\ ~args.noAclExclusive
                /\ (Clashes(new0, acl) \/ (args.aclSafe /\ Clashes(safe0, safe)))
             \/ Excluded(old1) \/ Excluded(new1)
          THEN Raise /\ UNCHANGED <<cfg, gens, k>>
          ELSE /\ cfg' = [old     |-> Filtered(old1),
                          new     |-> Filtered(new1),
                          safeOld |-> IF useSafe THEN SafeOld(old1, safe) ELSE {},
                          safeNew |-> IF useSafe THEN Applied(safe0, safe) ELSE safe0]
               /\ StartFiles
       /\ UNCHANGED <<args, at, src, results, refs, made, files>>

-----------------------------------------------------------------------------
(* _old_new_get_config_files and the check of failed_*.                    *)
ReadFiles ==
    /\ pc = "read" /\ here.pc
    /\ IF here.read = "failed" THEN Finish("error") /\ UNCHANGED <<gens, k>>
       ELSE StartFiles
    /\ UNCHANGED <<args, at, src, results, refs, cfg, made, files>>

(* One turn of the loop of run_file_generators.                            *)
RunFile ==
    /\ pc = "files" /\ k < Len(gens)
    /\ LET g == gens[k + 1]
       IN CASE g.does \in {"unsupported", "not_supported"} -> UNCHANGED <<made, verdict, pc>>
            [] g.does = "fails" -> Raise /\ UNCHANGED made
            [] OTHER -> /\ made' = IF g.type = "entire"
                                    THEN [made EXCEPT !.entire = AddEntire(@, g)]
                                    ELSE [made EXCEPT !.json = AddByName(@, g)]
                        /\ UNCHANGED <<verdict, pc>>
    /\ k' = k + 1
    /\ UNCHANGED <<args, at, src, gens, results, refs, cfg, files>>

(* The fragments for one path, in the order of their generators.           *)
JsonFile(path, safe) ==
    NewJsonFile(IF path \in DOMAIN here.oldJson THEN here.oldJson[path] ELSE EmptyDoc,
                Those(made.json, LAMBDA r : r.path = path), ~args.noAcl, safe, args.fileFilters)

MakeFiles ==
    /\ pc = "files" /\ k = Len(gens)
    /\ files' = [entire     |-> made.entire,
                 safeEntire |-> IF args.aclSafe THEN Those(made.entire, LAMBDA r : r.is_safe) ELSE <<>>,
                 json       |-> [p \in Paths(made.json) |-> JsonFile(p, FALSE)],
                 safeJson   |-> IF args.aclSafe THEN [p \in Paths(made.json) |-> JsonFile(p, TRUE)]
                                ELSE EmptyDoc]
    /\ Finish("result")
    /\ UNCHANGED <<args, at, src, gens, k, results, refs, cfg, made>>

-----------------------------------------------------------------------------
(* old_new goes to the next device, whatever became of this one.           *)
NextDevice ==
    /\ pc = "yield" /\ at < Len(Devices)
    /\ at' = at + 1
    /\ src' \in DOMAIN Store[at + 1]
    /\ pc' = "read"
    /\ gens' = <<>> /\ k' = 0 /\ results' = <<>> /\ refs' = {}
    /\ cfg' = NoConfigs /\ made' = NoneMade /\ files' = NoFiles
    /\ UNCHANGED <<args, verdict>>

(* The loop is over, or an exception left it.                              *)
Ended ==
    /\ pc = "raised" \/ (pc = "yield" /\ at = Len(Devices))
    /\ UNCHANGED vars

Next ==
    \/ ReadConfig \/ RunPartial \/ Merge
    \/ ReadFiles \/ RunFile \/ MakeFiles
    \/ NextDevice \/ Ended

Spec == Init /\ [][Next]_vars
=============================================================================
