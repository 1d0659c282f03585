----------------------------- MODULE OldNewProps ----------------------------
(* What the generation of a device's configuration and files promises.     *)
EXTENDS OldNew

Generated == pc \in {"files", "yield"} /\ results # <<>> /\ ~args.noNew
Finished  == pc = "yield" /\ verdict[at] = "result" /\ ~args.noNew
Unfiltered == args.filter = <<>>

(* Types, and how far the loop is: the devices before this one have their  *)
(* verdicts, this one has its own when it is done with.                    *)
TypeOK ==
    /\ args \in ArgsSet /\ src \in DOMAIN Store[at]
    /\ at \in DOMAIN Devices
    /\ pc \in {"read", "partial", "files", "yield", "raised"}
    /\ k \in Nat
    /\ verdict \in [DOMAIN Devices -> {"none", "result", "error", "raised"}]
    /\ \A d \in DOMAIN Devices :
          /\ d < at => verdict[d] \in {"result", "error"}
          /\ d > at => verdict[d] = "none"
    /\ verdict[at] \in CASE pc = "yield"  -> {"result", "error"}
                         [] pc = "raised" -> {"raised"}
                         [] OTHER         -> {"none"}

(* Ignores are for filters: "ignore acl only works in filter-acl", says    *)
(* _find_acl_matches, as they would break the acls merged.                 *)
NoIgnores == \A d \in DOMAIN Devices : \A x \in DOMAIN Store[d] : \A r \in RulesOf(Store[d][x]) : ~r.ignore

(* A row that passed its generator's acl is in the new configuration,      *)
(* whatever the others' acls say: only what removes a command that another *)
(* generator forbids to delete is dropped (apply_acl runs again on the     *)
(* merged tree with the merged acls).                                      *)
Forbids(r, row) == \E i \in DOMAIN r.acl : r.acl[i].owners[1].keep /\ RowMatches(r.acl[i], row, TRUE)

GeneratedStays ==
    Generated /\ Unfiltered =>
        \A r \in ToSet(results) : \A row \in r.config \ cfg.new :
            \E s \in ToSet(results) : s.name # r.name /\ Forbids(s, row)

(* --acl-safe does not do more than the full run.  What it deletes the     *)
(* full run deletes, unless another generator yields the row outside of    *)
(* its own safe acl.                                                       *)
SafeDeletes ==
    \A row \in (cfg.safeOld \ cfg.safeNew) \ (cfg.old \ cfg.new) :
        \E r \in ToSet(results) : row \in r.config \ r.safeConfig

(* What it adds the full run adds, but for what a generator forbids, and   *)
(* for defaults that the acls do not let through, only the safe ones do,   *)
(* or that are overridden outside of the safe acls.                        *)
SafeAdds ==
    \A row \in (cfg.safeNew \ cfg.safeOld) \ (cfg.new \ cfg.old) :
        \/ \E r \in ToSet(results) : Forbids(r, row)
        \/ \E i \in here.implicit :
              /\ i.row = row
              /\ \/ ~Passes(row, AclOf(results))
                 \/ \E r \in ToSet(results) : \E x \in r.config \ r.safeConfig : x.word \in i.words

SafeWithin ==
    Generated /\ Unfiltered => SafeDeletes /\ (args.aclSafe /\ ~args.noAcl => SafeAdds)

(* Reference generators as RefTracker takes them: one of each class, which *)
(* yields what it is asked for and does not forbid it in its own acl.      *)
RefsSound ==
    \A d \in DOMAIN Devices : \A x \in DOMAIN Store[d] : \A g \in ToSet(Store[d][x].refs) :
        /\ g.does \in {"runs", "fails"}
        /\ \A h \in ToSet(Store[d][x].refs) : h.name = g.name => h = g
        /\ \A row \in UNION {g.defs[w] : w \in g.ref} :
              LET m == MatchRowToAcl(row, MergeToplevel(g.acl)) IN ~(m.reverse /\ m.keep)

(* What a result refers to is generated, for all the words it refers with, *)
(* while no other result refers to the same reference generator: the last  *)
(* of two results of one class replaces the other.                         *)
ReferencesDefined ==
    Generated =>
        \A r \in ToSet(results), g \in ToSet(here.refs) :
            (\A e \in refs : e.to = g.name => e.from = r.name) =>
                \A row \in r.config :
                    row.word \in g.ref =>
                        \E s \in ToSet(results) : s.name = g.name /\ g.defs[row.word] \subseteq s.config

-----------------------------------------------------------------------------
(* The fragments of one file, in the order applied.                        *)
Fragments(path)  == Those(made.json, LAMBDA r : r.path = path)

(* An acl of a fragment sets q, its parents or what is below it.           *)
Sets(acl, fragment, q) == \E p \in Resolve(acl.pointer, fragment) : Under(p, q) \/ Under(q, p)

(* The acl owns a level of q that its fragment does not have.  Filters may *)
(* select what is below that level, for it to be protected or not.         *)
Removes(acl, fragment, q) ==
    \E n \in 1 .. Len(acl.pointer), m \in DOMAIN q :
        LET glob == SubSeq(acl.pointer, 1, n)
            p    == SubSeq(q, 1, m)
        IN /\ Globs(glob, p) /\ p \notin DOMAIN fragment /\ glob \notin acl.cant_delete
           /\ \E l \in (IF args.fileFilters = {} THEN {m} ELSE m .. Len(q)) :
                  ~Protected(SubSeq(q, 1, l), acl.cant_delete)

(* A fragment is in the file, unless a later acl of its own or of a later  *)
(* generator sets the same place or owns a level above it that its         *)
(* fragment has not.                                                       *)
FragmentsStay ==
    Finished /\ ~args.noAcl =>
        \A path \in DOMAIN files.json :
            LET rs  == Fragments(path)
                doc == files.json[path].config
            IN \A i \in DOMAIN rs : \A a \in DOMAIN rs[i].acl :
                 \A p \in OwnedLevel(rs[i].acl[a].pointer, TRUE, args.fileFilters, rs[i].config),
                    q \in DOMAIN rs[i].config :
                      Under(p, q) =>
                          \/ q \in DOMAIN doc /\ doc[q] = rs[i].config[q]
                          \/ \E j \in i .. Len(rs) : \E b \in DOMAIN rs[j].acl :
                                /\ j = i => b > a
                                /\ Sets(rs[j].acl[b], rs[j].config, q) \/ Removes(rs[j].acl[b], rs[j].config, q)

(* The new file is what a second run makes of it: once deployed, nothing   *)
(* is left to change, nulls included.                                      *)
FilesSettle ==
    Finished =>
        \A path \in DOMAIN files.json :
            NewJsonFile(files.json[path].config, Fragments(path),
                        ~args.noAcl, FALSE, args.fileFilters).config = files.json[path].config

(* A file is what its generators say, and stays so.                        *)
FilesHold == FragmentsStay /\ FilesSettle

(* The loop keeps its promise: no device is skipped, decided twice, or     *)
(* decided after an exception.                                             *)
Promise == INSTANCE LoopPromise
KeepsPromise == Promise!Spec
=============================================================================
