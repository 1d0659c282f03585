---------------------------- MODULE JsonFragment ----------------------------
(***************************************************************************)
(* Json files made of the fragments of several generators:                 *)
(* annlib/jsontools.py and RunGeneratorResult.new_json_fragment_files of   *)
(* generators/result.py.                                                   *)
(*                                                                         *)
(* A document is a function from paths to values: an object, null or a     *)
(* scalar.  A path is a sequence of keys, the parent of a path is an       *)
(* object.  Lists are scalars.  A glob is a sequence of sets of keys.      *)
(***************************************************************************)
EXTENDS Integers, SequencesExt, FiniteSets

CONSTANT Keys    \* the keys of the documents

EmptyDoc     == [p \in {} |-> "object"]
Everything   == [pointer |-> <<Keys>>, cant_delete |-> {}]
Up(p)        == SubSeq(p, 1, Len(p) - 1)
Under(p, q)  == IsPrefix(p, q)          \* q is p or below it

Keep(doc, paths)    == [p \in paths |-> doc[p]]
Globs(glob, p)      == Len(glob) = Len(p) /\ \A i \in DOMAIN p : p[i] \in glob[i]
Resolve(glob, doc)  == {p \in DOMAIN doc : Globs(glob, p)}
Protected(p, globs) == \E g \in globs : Globs(g, p)

(* Finite, with every parent of what is in it, and those are objects.      *)
IsDocument(doc) ==
    /\ IsFiniteSet(DOMAIN doc) /\ DOMAIN doc \subseteq Seq(Keys)
    /\ doc = [p \in DOMAIN doc |-> doc[p]]
    /\ \A p \in DOMAIN doc : Len(p) # 0 /\ (Len(p) > 1 => Up(p) \in DOMAIN doc /\ doc[Up(p)] = "object")

(* Pointers some filter matches: a deeper filter selects below a pointer,  *)
(* a shorter one the pointer.                                              *)
Filter(pointers, filters, doc) ==
    LET Common(p, f)  == \A i \in DOMAIN p \cap DOMAIN f : p[i] \in f[i]
        Chosen(p, f)  == IF Len(f) > Len(p) THEN {q \in Resolve(f, doc) : Under(p, q)} ELSE {p}
    IN UNION {UNION {Chosen(p, f) : f \in {g \in filters : Common(p, g)}} : p \in pointers}

(* Everything at p becomes what fragment has there; missing parents and    *)
(* null ones become objects.  Bound: a scalar parent, for which the code   *)
(* raises, is replaced too.                                                *)
PointerSet(doc, p, fragment) ==
    LET value   == {q \in DOMAIN fragment : Under(p, q)}
        others  == {q \in DOMAIN doc : ~Under(p, q)}
        parents == {SubSeq(p, 1, n) : n \in 1..(Len(p) - 1)}
    IN [q \in value \cup others \cup parents |->
            IF q \in value THEN fragment[q] ELSE IF q \in parents THEN "object" ELSE doc[q]]

(* The pointers of one level of an acl; filters count at the deepest only. *)
OwnedLevel(glob, deepest, filters, doc) ==
    IF deepest /\ filters # {} THEN Filter(Resolve(glob, doc), filters, doc) ELSE Resolve(glob, doc)

(* Mutant: cant_delete is not looked at.                                   *)
RemoveLevelAnyway(doc, acl, depth, fragment, filters) ==
    LET glob    == SubSeq(acl.pointer, 1, depth)
        deepest == depth = Len(acl.pointer)
        gone    == OwnedLevel(glob, deepest, filters, doc) \ OwnedLevel(glob, deepest, filters, fragment)
    IN Keep(doc, {q \in DOMAIN doc : \A p \in gone : ~Under(p, q)})

(* An acl owns every level of its pointer: what old has there and the      *)
(* fragment has not is removed with all that is below it.                  *)
RemoveLevel(doc, acl, depth, fragment, filters) ==
    LET glob    == SubSeq(acl.pointer, 1, depth)
        deepest == depth = Len(acl.pointer)
        gone    == {p \in OwnedLevel(glob, deepest, filters, doc)
                            \ OwnedLevel(glob, deepest, filters, fragment) :
                        ~Protected(p, acl.cant_delete)}
    IN IF glob \in acl.cant_delete THEN doc
       ELSE Keep(doc, {q \in DOMAIN doc : \A p \in gone : ~Under(p, q)})

(* What the fragment has at the pointers, one after another.               *)
SetPointers(doc, pointers, fragment) ==
    LET new[n \in 0 .. Len(pointers)] == IF n = 0 THEN doc ELSE PointerSet(new[n - 1], pointers[n], fragment)
    IN new[Len(pointers)]

RemoveLevels(doc, acl, fragment, filters) ==
    LET new[n \in 0 .. Len(acl.pointer)] == IF n = 0 THEN doc ELSE RemoveLevel(new[n - 1], acl, n, fragment, filters)
    IN new[Len(acl.pointer)]

ApplyAclItem(doc, acl, fragment, filters) ==
    RemoveLevels(SetPointers(doc, SetToSeq(OwnedLevel(acl.pointer, TRUE, filters, fragment)), fragment),
                 acl, fragment, filters)

ApplyAcl(doc, acls, fragment, filters) ==
    LET new[n \in 0 .. Len(acls)] == IF n = 0 THEN doc ELSE ApplyAclItem(new[n - 1], acls[n], fragment, filters)
    IN new[Len(acls)]

(* Mutant: a null of the document is dropped.                              *)
NullifyRemovedDrops(old, new) ==
    LET nulls == {p \in DOMAIN old \ DOMAIN new :
                    /\ old[p] = "object"
                    /\ Len(p) = 1 \/ (Up(p) \in DOMAIN new /\ new[Up(p)] = "object")}
    IN [p \in DOMAIN new \cup nulls |-> IF p \in nulls THEN "null" ELSE new[p]]

(* Objects that are gone, and nulls of an earlier run, are written as null.*)
NullifyRemoved(old, new) ==
    LET nulls == {p \in DOMAIN old \ DOMAIN new :
                    /\ old[p] \in {"object", "null"}
                    /\ Len(p) = 1 \/ (Up(p) \in DOMAIN new /\ new[Up(p)] = "object")}
    IN [p \in DOMAIN new \cup nulls |-> IF p \in nulls THEN "null" ELSE new[p]]

ApplyJsonFragment(old, fragment, acls, filters, deleteWithNull) ==
    LET new == ApplyAcl(old, acls, fragment, filters)
    IN IF deleteWithNull THEN NullifyRemoved(old, new) ELSE new

-----------------------------------------------------------------------------
(* The command of the highest reload_prio; generators that change nothing  *)
(* count as 0, the later of equals wins.                                   *)
TakeReload(file, result, config) ==
    LET prio == IF config = file.config THEN 0 ELSE result.reload_prio
    IN IF file.prio > prio THEN [file EXCEPT !.config = config]
       ELSE [config |-> config, reload |-> result.name, prio |-> prio]

(* One file: old and then every generator's fragment in turn.  reload 0    *)
(* and prio -1 stand for "no generator yet".                               *)
AclsOf(r, useAcl, safe) == IF ~useAcl THEN <<Everything>> ELSE IF safe THEN r.acl_safe ELSE r.acl
AddFragment(file, r, useAcl, safe, filters) ==
    TakeReload(file, r, ApplyJsonFragment(file.config, r.config, AclsOf(r, useAcl, safe), filters, r.delete_with_null))

NewJsonFile(old, results, useAcl, safe, filters) ==
    LET file[n \in 0 .. Len(results)] ==
            IF n = 0 THEN [config |-> old, reload |-> 0, prio |-> -1]
            ELSE AddFragment(file[n - 1], results[n], useAcl, safe, filters)
    IN file[Len(results)]
=============================================================================
