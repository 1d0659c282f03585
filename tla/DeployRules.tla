------------------------------ MODULE DeployRules ------------------------------
(***************************************************************************)
(* Deploying rulebooks: inheriting, the rule of a command, and the list of *)
(* commands sent to a device (annet.rulebook.deploying, annet.deploy).     *)
(*                                                                         *)
(* A rule has the context it asks for (a set of values, {} for any) and    *)
(* dialogs, each a message with an answer; attrs.apply names the commands  *)
(* its logic puts before and after.  Merging gives [raises, tree, child].  *)
(***************************************************************************)
EXTENDS RuleTexts

DeployDefaults == [timeout |-> 30, apply |-> "apply", suppress_errors |-> FALSE]

RECURSIVE CompileDeploy(_)
CompileDeploy(text) ==
    LET rules == SelectSeq(text, LAMBDA t : t.type = "normal")
    IN [i \in DOMAIN rules |->
           [row |-> rules[i].row, ifcontext |-> rules[i].scope, given |-> rules[i].values,
            attrs |-> WithDefaults(rules[i].values, DeployDefaults), dialogs |-> rules[i].dialogs,
            children |-> CompileDeploy(rules[i].children)]]

-----------------------------------------------------------------------------
(* A mutant of DeployKey: the same row in two contexts is one rule.        *)
DeployKeyOfRow(rule) == rule.row
DeployKey(rule)    == <<rule.row, rule.ifcontext>>
DialogKey(dialog)  == dialog.msg
Narrowed(own, outer) == IF own # {} THEN own ELSE outer

(* A rule may ask for no context that a rule above it excludes.            *)
Widens(own, outer) == own # {} /\ outer # {} /\ ~(own \subseteq outer)
RECURSIVE ContextRaises(_, _)
ContextRaises(rules, outer) ==
    \E r \in ToSet(rules) : \/ Widens(r.ifcontext, outer)
                            \/ ContextRaises(r.children, Narrowed(r.ifcontext, outer))

StripDialogs(dialogs) == SelectSeq(dialogs, LAMBDA d : ~d.not_inherit)
RECURSIVE StripDeploy(_)
StripDeploy(rules) ==
    LET kept == SelectSeq(rules, LAMBDA r : ~NotInherit(r) \/ r.children # <<>> \/ r.dialogs # <<>>)
    IN [i \in DOMAIN kept |->
           [Written(kept[i], DeployDefaults) EXCEPT !.children = StripDeploy(@), !.dialogs = StripDialogs(@)]]

Vanishes(rule) == NotInherit(rule) /\ rule.children = <<>> /\ rule.dialogs = <<>>
AddedRule(rule) == [rule EXCEPT !.children = StripDeploy(@), !.dialogs = StripDialogs(@)]

(* merge_dialogs: the child answers; whether to send a newline is the      *)
(* parent's unless the child says so.                                      *)
MergedDialog(parent, child) == [parent EXCEPT !.answer = child.answer, !.nl = IF child.nl = "" THEN @ ELSE child.nl]
MergeDialogs(parent, child) ==
    LET theirs == [i \in DOMAIN parent |-> DialogKey(parent[i])]
        mine   == [i \in DOMAIN child |-> DialogKey(child[i])]
        keys   == Uniq(theirs, mine)
        Of(p, c) == IF c = Absent THEN <<p>>
                    ELSE IF c.not_inherit THEN <<>>
                    ELSE IF p = Absent THEN <<c>>
                    ELSE <<MergedDialog(p, c)>>
    IN FlattenSeq([i \in DOMAIN keys |-> Of(Found(parent, theirs, keys[i]), Found(child, mine, keys[i]))])

AddChild(rule) ==
    IF Vanishes(rule) THEN Outcome(FALSE, <<>>, rule)
    ELSE Outcome(FALSE, <<Written(AddedRule(rule), DeployDefaults)>>, AddedRule(rule))

(* A rule of both, with the merge of their children.                       *)
MergedRule(p, c, inner) ==
    Outcome(inner.raises,
            <<[p EXCEPT !.attrs = MergedAttrs(p, c, DOMAIN DeployDefaults), !.given = Clean(c.given @@ p.given, DeployDefaults),
                        !.dialogs = MergeDialogs(p.dialogs, c.dialogs), !.children = inner.tree]>>,
            [c EXCEPT !.children = inner.child])

InContext(merged, outer) == [merged EXCEPT !.raises = @ \/ ContextRaises(merged.tree, outer)]

RECURSIVE MergeDeploy(_, _, _)
MergeDeploy(parent, child, outer) ==
    LET theirs == [i \in DOMAIN parent |-> DeployKey(parent[i])]
        mine   == [i \in DOMAIN child |-> DeployKey(child[i])]
        rows   == Uniq(theirs, mine)
        Of(p, c) == IF c = Absent THEN Outcome(FALSE, <<Written(p, DeployDefaults)>>, c)
                    ELSE IF p = Absent \/ NotInherit(c) THEN AddChild(c)
                    ELSE MergedRule(p, c, MergeDeploy(p.children, c.children, Narrowed(p.ifcontext, outer)))
    IN InContext(Joined(child, mine, rows, [i \in DOMAIN rows |-> Of(Found(parent, theirs, rows[i]), Found(child, mine, rows[i]))]),
                 outer)

-----------------------------------------------------------------------------
(* match_deploy_rule: at each level the nearest rule, the first of equals; *)
(* when the rules do not reach the end of the path, the search starts from *)
(* the top again one command further down.                                 *)
DefaultRule == [row |-> Row("~"), ifcontext |-> {}, given |-> <<>>, attrs |-> WithDefaults(<<>>, DeployDefaults),
                dialogs |-> <<>>, children |-> <<>>]
NoMatch == [row |-> Row("none")]

RECURSIVE MatchFrom(_, _, _)
MatchFrom(rules, path, context) ==
    LET x   == Head(path)
        hit == {i \in DOMAIN rules : Fits(rules[i].row, x) /\ (rules[i].ifcontext = {} \/ context \in rules[i].ifcontext)}
        Near(i, j) == \/ Similarity(rules[i].row, x) > Similarity(rules[j].row, x)
                      \/ Similarity(rules[i].row, x) = Similarity(rules[j].row, x) /\ i <= j
        best == rules[CHOOSE i \in hit : \A j \in hit : Near(i, j)]
    IN IF hit = {} THEN NoMatch ELSE IF Len(path) = 1 THEN best ELSE MatchFrom(best.children, Tail(path), context)

MatchDeployRule(rules, path, context) ==
    LET found == {d \in DOMAIN path : MatchFrom(rules, SubSeq(path, d, Len(path)), context) # NoMatch}
    IN IF found = {} THEN DefaultRule
       ELSE MatchFrom(rules, SubSeq(path, CHOOSE d \in found : \A e \in found : d <= e, Len(path)), context)

-----------------------------------------------------------------------------
(* apply_deploy_rulebook: neighbours that ask for the same commands before *)
(* and after share them.  Apply[logic] is [before, after].  A command sent *)
(* is [cmd, level, timeout, questions, suppress].                          *)
Params(rule, x, level) == [cmd |-> x, level |-> level, timeout |-> rule.attrs.timeout, questions |-> rule.dialogs,
                           suppress |-> rule.attrs.suppress_errors]
FilledParams(rules, x) == Params(MatchDeployRule(rules, <<x>>, "none"), x, 0)

Wrapped(rules, cmd, Apply) ==
    LET rule == MatchDeployRule(rules, cmd.path, cmd.context)
    IN [cmd |-> Params(rule, Last(cmd.path), Len(cmd.path) - 1), wrap |-> Apply[rule.attrs.apply]]
(* A mutant of Opens: commands before are sent once.                       *)
OpensOnce(all, i) == \A j \in 1 .. i - 1 : all[j].wrap # all[i].wrap
Opens(all, i)  == i = 1 \/ all[i - 1].wrap # all[i].wrap
Closes(all, i) == i = Len(all) \/ all[i + 1].wrap # all[i].wrap

ApplyDeployRulebook(rules, cmds, Apply) ==
    LET all == [i \in DOMAIN cmds |-> Wrapped(rules, cmds[i], Apply)]
        Around(xs) == [j \in DOMAIN xs |-> FilledParams(rules, xs[j])]
    IN FlattenSeq([i \in DOMAIN all |->
           (IF Opens(all, i) THEN Around(all[i].wrap.before) ELSE <<>>) \o <<all[i].cmd>>
           \o (IF Closes(all, i) THEN Around(all[i].wrap.after) ELSE <<>>)])
=============================================================================
