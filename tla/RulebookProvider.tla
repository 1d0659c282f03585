--------------------------- MODULE RulebookProvider ---------------------------
(***************************************************************************)
(* DefaultRulebookProvider: the rulebook of a device, from the text named  *)
(* after its vendor and the texts that one inherits from.                  *)
(*                                                                         *)
(* A text is rendered for the hardware, so a path has a text for each.     *)
(* Rendered texts are kept by path and hardware, rulebooks by hardware,    *)
(* and compiled texts by text alone (lru_cache): devices whose texts are   *)
(* equal share the compiled tree, which merging changes.                   *)
(*                                                                         *)
(* A behaviour is one process reading rulebooks of one extension.  Bounds: *)
(* the texts of Cases; a load that raises is the last.                     *)
(***************************************************************************)
EXTENDS OrderRules

Patch  == INSTANCE PatchRules
Deploy == INSTANCE DeployRules

CONSTANTS Hardware, Cases, NoPath, Vendor

VARIABLES files,        (* [extension, path -> hardware -> [inherits, rules]] *)
          texts,        (* _rulebook_text_cache                              *)
          compiled,     (* the lru_cache of compile_*_text                   *)
          loaded,       (* _rulebook_cache                                   *)
          raised
vars == <<files, texts, compiled, loaded, raised>>

-----------------------------------------------------------------------------
Compile(rules) == CASE files.extension = "rul"    -> Patch!CompilePatch(rules)
                    [] files.extension = "order"  -> CompileOrder(rules)
                    [] files.extension = "deploy" -> Deploy!CompileDeploy(rules)
CompileRaises(rules) == files.extension = "rul" /\ Patch!CompilePatchRaises(rules)

Merge(parent, child) == CASE files.extension = "rul"    -> Patch!MergePatch(parent, child)
                          [] files.extension = "order"  -> MergeOrder(parent, child, NoScope)
                          [] files.extension = "deploy" -> Deploy!MergeDeploy(parent, child, {})

(* A mutant of TextKey: a text is rendered once for all hardware.          *)
TextKeyOfPath(path, hw) == <<path>>
TextKey(path, hw) == <<path, hw>>

Kept(cache, key, value) == IF key \in DOMAIN cache THEN cache[key] ELSE value

Result(outcome, tree, caches) == [outcome |-> outcome, tree |-> tree, caches |-> caches]

(* The text of a path and its tree, from the caches or added to them.      *)
Read(path, hw, caches) ==
    LET text == Kept(caches.texts, TextKey(path, hw), files.of[path][hw])
        tree == Kept(caches.compiled, text.rules, Compile(text.rules))
    IN [text |-> text, tree |-> tree,
        caches |-> [texts |-> (TextKey(path, hw) :> text) @@ caches.texts, compiled |-> (text.rules :> tree) @@ caches.compiled]]

(* What merging gives, and the child's tree as it leaves it in the cache.  *)
Extended(both, above, text) ==
    IF both.raises THEN Result("raises", <<>>, above.caches)
    ELSE Result("ok", both.tree, [above.caches EXCEPT !.compiled = (text.rules :> both.child) @@ @])

Extend(above, own) ==
    IF above.outcome # "ok" THEN above
    ELSE Extended(Merge(above.tree, Kept(above.caches.compiled, own.text.rules, own.tree)), above, own.text)

(* _get_rulebook_by_extension: the text, its tree, then the parent's, then *)
(* both merged.                                                            *)
RECURSIVE ByExtension(_, _, _)
ByExtension(path, hw, caches) ==
    LET own == Read(path, hw, caches)
    IN IF path \notin DOMAIN files.of THEN Result("missing", <<>>, caches)
       ELSE IF CompileRaises(own.text.rules) THEN Result("raises", <<>>, caches)
       ELSE IF own.text.inherits = NoPath THEN Result("ok", own.tree, own.caches)
       ELSE Extend(ByExtension(own.text.inherits, hw, own.caches), own)

-----------------------------------------------------------------------------
Init == /\ files \in Cases
        /\ texts = <<>> /\ compiled = <<>> /\ loaded = <<>>
        /\ raised = FALSE

(* get_rulebook: an ordering or deploying rulebook that is not found is    *)
(* empty, a patching one is an error.                                      *)
Load(hw) ==
    /\ hw \notin DOMAIN loaded /\ ~raised
    /\ LET got   == ByExtension(Vendor, hw, [texts |-> texts, compiled |-> compiled])
           fails == got.outcome = "raises" \/ (got.outcome = "missing" /\ files.extension = "rul")
       IN /\ texts' = got.caches.texts
          /\ compiled' = got.caches.compiled
          /\ loaded' = IF fails THEN loaded ELSE (hw :> got.tree) @@ loaded
          /\ raised' = fails
    /\ UNCHANGED files

Next == \E hw \in Hardware : Load(hw)
Spec == Init /\ [][Next]_vars
=============================================================================
