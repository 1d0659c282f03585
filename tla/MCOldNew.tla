------------------------------ MODULE MCOldNew ------------------------------
(* Small devices and arguments for the generation.                         *)
EXTENDS OldNewProps, TLC

TwoInARow == <<"d1", "d2">>

Row(w)  == [word |-> w, undo |-> FALSE]
Undo(w) == [word |-> w, undo |-> TRUE]
Rule(p, ws, keep) ==
    [pat |-> p, words |-> ws, undo |-> FALSE, sim |-> IF Cardinality(ws) = 1 THEN 2 ELSE 1, prio |-> 0,
     global |-> FALSE, ignore |-> FALSE, owners |-> <<[gen |-> 0, keep |-> keep]>>, kids |-> <<>>]
RuleA == Rule("a", {"a"}, FALSE)
RuleB == Rule("b", {"b"}, FALSE)
Wild  == Rule("*", {"a", "b"}, FALSE)

Plain ==
    [allowed |-> {}, forced |-> {}, excluded |-> {}, failOnEmpty |-> FALSE, config |-> "running",
     noAcl |-> FALSE, aclSafe |-> TRUE, noAclExclusive |-> FALSE, filter |-> <<>>, noNew |-> FALSE,
     addImplicit |-> TRUE, requiredPackages |-> FALSE, fileFilters |-> {}]
T == <<{"t"}>>
SomeArgs ==
    {Plain,
     [Plain EXCEPT !.noAclExclusive = TRUE, !.requiredPackages = TRUE, !.forced = {4}],
     [Plain EXCEPT !.filter = <<RuleA, [Wild EXCEPT !.ignore = TRUE]>>, !.aclSafe = FALSE,
                   !.fileFilters = {<<{"t"}, {"x"}>>}, !.excluded = {3}],
     [Plain EXCEPT !.noAcl = TRUE, !.config = "empty", !.addImplicit = FALSE, !.fileFilters = {T}],
     [Plain EXCEPT !.noNew = TRUE, !.failOnEmpty = TRUE, !.allowed = {1, 2}]}

-----------------------------------------------------------------------------
(* Two partial generators, their rows, acls and safe acls: who may delete  *)
(* what, wild cards beside exact rules, global and ranked ones, and rules  *)
(* for the removal form.                                                   *)
RowSets == <<{}, {Row("a")}, {Undo("b")}, {Row("a"), Row("b")}>>
Acls ==
    <<<<RuleA>>, <<Wild, [RuleA EXCEPT !.owners[1].keep = TRUE]>>, <<[RuleB EXCEPT !.undo = TRUE], RuleA>>,
      <<[RuleB EXCEPT !.owners[1].keep = TRUE], [RuleA EXCEPT !.undo = TRUE, !.owners[1].keep = TRUE]>>,
      <<[Wild EXCEPT !.prio = 1], [RuleB EXCEPT !.global = TRUE]>>, <<>>>>

PartialGen(name, rows, acl, safe) ==
    [name |-> name, disabled |-> FALSE, does |-> "runs", rows |-> rows, acl |-> acl, safe |-> safe,
     ref |-> {}, defs |-> [w \in {} |-> {}]]
Source(partial) ==
    [pc |-> FALSE, read |-> "ok", text |-> {Row("a"), Row("b"), Row("c")}, initial |-> {}, partial |-> partial,
     refs |-> <<>>, implicit |-> {}, ordered |-> {}, entire |-> <<>>, jsonGens |-> <<>>, oldJson |-> EmptyDoc,
     packages |-> FALSE]

AclIds == {1} \X (1..4) \X (1..5) \X {1, 2, 6} \X (2..4) \X (1..5)
AclSource(i) ==
        Source(<<PartialGen(2, RowSets[i[5]], Acls[i[6]], <<>>),
                 PartialGen(1, RowSets[i[2]], Acls[i[3]], Acls[i[4]])>>)

(* Generators that fail or do not run, references, defaults, and devices   *)
(* that cannot be read or have no configuration yet.                       *)
OneWord(w, keep) == Rule(w, {w}, keep)
Refs == <<[PartialGen(9, {}, <<OneWord("r1", FALSE), OneWord("r2", FALSE)>>, <<>>) EXCEPT
              !.ref = {"a", "b"}, !.defs = ("a" :> {Row("r1")}) @@ ("b" :> {Row("r2")})]>>
Doers(does, rows) ==
    <<PartialGen(1, {Row("c")}, <<OneWord("c", FALSE)>>, <<RuleA, RuleB>>),
      [PartialGen(3, rows, <<Wild>>, <<>>) EXCEPT !.does = does],
      [PartialGen(4, {Row("b")}, <<RuleB>>, <<>>) EXCEPT !.disabled = TRUE]>>
RunIds == {2} \X (1..4) \X (1..4) \X (1..3)
RunSource(i) ==
        [Source(Doers(<<"runs", "fails", "unsupported", "not_supported">>[i[2]], RowSets[i[3]]))
            EXCEPT !.refs     = Refs,
                   !.implicit = {[ignore |-> FALSE, row |-> Row("b"), words |-> {"a", "b"}]},
                   !.read     = IF i[4] = 3 THEN "failed" ELSE "ok",
                   !.text     = IF i[4] = 2 THEN {} ELSE @,
                   !.initial  = {Row("a")},
                   !.ordered  = IF i[4] = 2 THEN {"b"} ELSE {}]

-----------------------------------------------------------------------------
(* Documents of tables t and v, acls that overlap, own their parents or    *)
(* leave them alone, and nulls of an earlier run.                          *)
Doc(leaves) ==
    [p \in (DOMAIN leaves) \cup {SubSeq(q, 1, 1) : q \in DOMAIN leaves} |->
        IF p \in DOMAIN leaves THEN leaves[p] ELSE "object"]
TX == <<"t", "x">>
TY == <<"t", "y">>
AllKeys == {"t", "v", "x", "y"}
Docs ==
    <<EmptyDoc, Doc((TX :> "1") @@ (TY :> "2")), Doc((TX :> "2") @@ (<<"v">> :> "object")),
      Doc((<<"t">> :> "null") @@ (<<"v">> :> "1")), Doc(TY :> "object")>>
Pointer(globs, keep) == [pointer |-> globs, cant_delete |-> keep]
JsonAcls ==
    <<<<Pointer(<<{"t"}, {"x"}>>, {})>>, <<Pointer(<<{"t"}, AllKeys>>, {<<{"t"}>>}), Pointer(<<{"v"}>>, {})>>,
      <<Pointer(T, {})>>, <<Pointer(<<{"t"}, {"y"}>>, {T})>>, <<Pointer(<<AllKeys>>, {T})>>>>
JsonGen(name, config, acl, null, prio) ==
    [name |-> name, disabled |-> FALSE, does |-> "runs", type |-> "json", path |-> "f", config |-> config,
     acl |-> acl, acl_safe |-> <<>>, delete_with_null |-> null, reload_prio |-> prio]
FilesOf(old, gs) == [Source(<<>>) EXCEPT !.pc = TRUE, !.oldJson = "f" :> old, !.jsonGens = gs]
JsonIds == {3} \X (1..5) \X (1..3) \X (1..4) \X {1, 2, 5} \X (1..5)
JsonSource(i) ==
        FilesOf(Docs[i[2]], <<JsonGen(1, Docs[i[3]], JsonAcls[i[4]], TRUE, 2),
                                 JsonGen(2, Docs[i[5]], JsonAcls[i[6]], FALSE, 1)>>)

(* Two generators for one file, one of them failing in one way or another. *)
EntireGen(name, does, prio) ==
    [name |-> name, disabled |-> FALSE, does |-> does, type |-> "entire", path |-> "e", prio |-> prio,
     is_safe |-> prio = 2]
EntireIds == {4} \X (1..3) \X (1..3)
EntireSource(i) ==
        [FilesOf(EmptyDoc, <<>>) EXCEPT
            !.entire   = <<EntireGen(1, <<"runs", "fails", "not_supported">>[i[2]], 1), EntireGen(2, "runs", 2)>>,
            !.read     = IF i[3] = 1 THEN "failed" ELSE "ok",
            !.packages = i[3] = 2]

(* All of these for the first device, a few for the second.                *)
SourceOf(i) ==
    CASE i[1] = 1 -> AclSource(i) [] i[1] = 2 -> RunSource(i)
      [] i[1] = 3 -> JsonSource(i) [] i[1] = 4 -> EntireSource(i)
SmallStore ==
    <<[i \in AclIds \cup RunIds \cup JsonIds \cup EntireIds |-> SourceOf(i)],
      [i \in {<<2, 1, 2, 1>>, <<2, 2, 2, 1>>, <<2, 1, 2, 3>>} |-> SourceOf(i)]>>
ASSUME NoIgnores /\ RefsSound
=============================================================================
