# TLA+ models of annet

annet generates the configuration of network devices, compares it with what
the devices run, turns the difference into commands and deploys them. This
directory holds TLA+ models of the parts of annet whose correctness does not
show in a unit test, the TLC runs that check them on small instances, and
theorems about them checked by TLAPS. All paths are relative to the
repository's root.

## 1. The system

### Components

| Component | Code | State | Operations | Modelled by |
|---|---|---|---|---|
| Worker pool | `annet/parallel.py` | task and done queue, pool dictionary, two result dictionaries | `irun`, `run`, `_check_children`, `_pool_worker`, `invoke_retry` | `ParallelPool` (multi-process path) |
| Diff of configurations | `annet/annlib/patching.py`, `annet/annlib/rulebook/common.py` | none: functions on trees | `make_diff`, `apply_diff_rb`, `call_diff_logic`, `base_diff`, `rewrite_diff`, `multiline_diff`, `apply_acl_diff`, `mark_unchanged` | `ConfigDiff` (common logics) |
| Patch construction and ordering | the same, `annet/vendors/tabparser.py` | none | `make_pre`, the patch logics, `sort_patch_rows`, `make_patch`, `cmd_paths` | `ConfigPatch` (common logics) |
| Deployment | `annet/api/__init__.py`, `annet/deploy.py`, `annet/diff.py` | commands, failed configurations, results, exit code | `adeploy`, `parse_result`, `ask_deploy`, `check_diff`, `add_results` | `DeployFlow` (CLI devices) |
| Generation of old and new | `annet/gen.py`, `annet/implicit.py` | per-device results and errors | `old_new`, `_old_new_per_device`, `get_current_state` | `OldNew` |
| Acl matching | `annet/annlib/patching.py`, `annet/annlib/rbparser/acl.py` | none | `match_row_to_acl`, `apply_acl`, `AclNotExclusiveError` | `Acl` |
| Generator runs | `annet/generators/` | `RunGeneratorResult` | select, run, merge partial, entire and json fragment generators | `OldNew` |
| JSON fragments | `annet/annlib/jsontools.py` | none | acls on pointers, apply a fragment | `JsonFragment` |
| Reference tracker | `annet/reference.py` | definitions, references, graph | `add`, `configs`, `walk`, `RefMatcher` | `OrderRules`, `OldNew` |
| Rulebooks | `annet/rulebook/`, `annet/annlib/rbparser/` | caches of texts, compiled texts, rulebooks | load, inherit, merge | `RulebookProvider`, `RuleTexts`, `PatchRules` |
| Ordering rulebooks | `annet/annlib/rbparser/ordering.py`, `patching.py` | none | compile, inherit, `get_order`, `ref_insert` | `OrderRules` |
| Deploying rulebooks | `annet/rulebook/deploying.py`, `annet/deploy.py` | none | inherit, `match_deploy_rule`, `apply_deploy_rulebook` | `DeployRules` |
| Progress bars and pager | `annet/deploy_ui.py` | tiles, curses screen, cursor, keys | `AskConfirm.loop`, tiles, refresher, `wait_for_exit` | `AskConfirm`, `ProgressBars`, `DeployUi` |
| Mesh | `annet/mesh/`, `annet/bgp_models.py` | peers, merged options, the storage's interfaces | match pairs, run handlers, merge, make interfaces, `extract_policies` | `MeshModels`, `Mesh` |
| Routing policies | `annet/rpl/`, `annet/rpl_generators/` | statements being built | conditions, builder, lists and policies of five vendors | `RplPolicy`, `RplLists`, `RplVendors`, `RplActions`, `Rpl` |
| Text to tree, filter acl, vendor logics, storage, hardware, command line, output, tracing | see `PROJECT.json` | | | not modelled, section 5 |

### How they interact

`annet gen`, `diff` and `patch` hand the devices' ids to the **worker pool**.
Each worker runs `old_new` for one device: it takes the running configuration,
runs the **generators**, merges them under their **acls** and gives an old and
a new tree or an error. Among the generators, those of BGP take their peers
from the **mesh**, and those of **routing policies** turn the policies the
peers name into each vendor's terms. `diff` compares the trees under the
**patching rulebook**; `patch` turns the diff into commands and orders them by
the **ordering rulebook** and the **references** between generators. `deploy`
runs `old_new` in its own process, collects the commands of all devices, asks
the user in the **pager**, wraps the commands by the **deploying rulebook**,
gives them to the deploy driver (a plug-in outside of the repository) under
**progress bars**, may roll back, and then runs `diff` again, in the pool, on
the devices that took their commands.

### What is hard

- *The pool*: messages sit in feeder threads and pipes; workers retire, fail
  and are killed while tasks, STOP marks and locks are shared; the parent reaps
  in the same loop in which it reads.
- *Diff and patch*: eight passes over a tree, each of which looks at the rows'
  neighbours. Whether the commands do what the diff says shows only when a
  device executes them in order.
- *Generation*: acls of many generators are merged and used several times, per
  generator, for all, for the safe subset; files are made of fragments that
  remove what others wrote; one device's error must stay with it.
- *Rulebooks*: three kinds of rules are inherited with different merges, and
  compiled texts are cached and changed in place.
- *Mesh*: each end of a session is computed by itself, from the other side of
  the same rules, on interfaces that earlier executions made.
- *Routing policies*: one builder, five vendors, and names of lists computed
  in several places that must agree.
- *Deployment*: each device fails for itself, at any of four points, and all
  that ends in one exit code and one report.
- *The user interface*: driver, refresher and `wait_for_exit` are coroutines
  that share tiles and the keyboard; curses raises on what is off the screen.

What would make each part incorrect at which line is listed under "hazards" in
`PROJECT.json`, with the properties that look for it.

## 2. The modules

| Module | What it is |
|---|---|
| `ParallelPool` | the pool: parent, workers, queues |
| `DeviceRun` | what `Parallel.run` promises, abstractly |
| `ParallelPoolProps`, `MCParallelPool` | properties and refinement mapping to `DeviceRun`; device lists |
| `ParallelPoolProofs` | theorems, among them that the pool implements `DeviceRun` and loses nothing |
| `ConfigDiff`, `ConfigPatch`, `ConfigDeploy` (each extends the one before) | `make_diff`; from the diff to commands; one device executing them, with its properties |
| `MCConfigDeploy` | rulebooks and configurations |
| `Lists` | comprehensions, filters and `sorted`, as operators |
| `Acl`, `JsonFragment` | operators: which rule answers for a row; fragments of json files |
| `GenerationFacts` | lemmas about both, for the proofs: merged acls, and what fragments make of a document |
| `OldNew` (extends both) | the generation, device by device |
| `LoopPromise` | what `old_new` promises, abstractly |
| `OldNewProps`, `MCOldNew`, `OldNewProofs` | properties and the mapping to `LoopPromise`; devices; theorems |
| `DeployFlow`, `DeployFlowProofs` | `annet deploy` for many devices, with its properties; theorems |
| `AskConfirm`, `ProgressBars` | the pager; the tiles, the refresher and the keyboard |
| `DeployUi` (extends both) | the pager, then the driver under the bars, then `wait_for_exit`; properties |
| `MCDeployUi`, `DeployUiProofs` | texts; theorems about the pager and the tiles |
| `RuleTexts` | rows that match commands, params and defaults: what the three kinds of rules share |
| `OrderRules`, `PatchRules`, `DeployRules` | ordering rules with references; patching rules; deploying rules |
| `RulebookProvider` | `get_rulebook` with its caches, over all three |
| `RulebookProps`, `MCRulebook` | properties; rulebook texts |
| `MeshModels`, `Mesh` | which rules apply, what handlers fill and how it merges; `execute_for` |
| `MeshProps`, `MCMesh`, `MeshProofs` | properties; devices and rules; theorems |
| `RplPolicy`, `RplLists`, `RplVendors`, `RplActions` | builders; lists; conditions and actions per vendor |
| `RplDevice` | what a router does with policies, and what the user meant (external) |
| `Rpl`, `MCRpl`, `RplProofs` | from handlers to a device's configuration, with its properties; what a user may write; theorems about lists and verdicts |
| `SequenceFacts` | lemmas about numbers and sequences, for the proofs |

Operators called *mutant* in a comment are wrong variants of the definition
that follows them: each shows that some property notices the bug.

### ParallelPool

The parent's loop is cut where it reads or writes something shared:
`StartWorker`, then rounds of `GetMessage` or `GetEmpty` and `CheckChild` for
each worker of the pool (`_check_children`), and `Deliver` or `Raise`, which
act on what the round has seen. A worker takes the read lock of the task queue
(`Acquire`), receives with the lock held, calls the function (`InvokeReturns`,
`InvokeRaises`, one more attempt of `invoke_retry` after a net error), puts its
message into its own buffer, and takes the next task or leaves with exit code
0, or 9 after `MaxTasks` tasks. `Feed` is the feeder thread of
`multiprocessing.Queue`: it moves one message from the buffer of a worker to
the pipe; `Exit` waits for it. `Crash` is a kill at any point, with the loss of
the buffer and of a held lock; `Interrupt` is what `catch_ctrl_c` makes of a
keyboard interrupt. `ClockExpires` stands for `task_timeout` seconds without a
message.

### ConfigDiff, ConfigPatch, ConfigDeploy

A configuration is a sequence of nodes, a row with its block. A row is
`[rule, key, val]`: the rule that matches it, what its placeholders capture and
the rest of its text, so matching by regular expression is already done. Rule
`-r` is the removal form of rule `r`: a rulebook that has `-r` as well
describes a switch whose configuration shows `undo x`.

The trees go through the code's passes in the code's order: rows no rule
matches are dropped (`Matched`), the diff logic of each row compares its level
(`CallDiffLogic`), the acl filters (`AclDiff`), what did not change is marked
(`MarkUnchanged`), `MakePre` groups by rule and key, the rule's logic makes of
each group what it yields (`Logic`), `PatchRows` gives one path per leaf,
`SortPatchRows` sorts the paths and `MakePatch` joins neighbours in one tree.
In `ConfigDeploy` the commands of that tree are executed one by one. The
`tree.sort()` at the end of `make_patch` changes nothing after
`sort_patch_rows`; `NotUniquePatch` keeps equal paths apart, as `CmdPaths` does.

How a device executes a command is outside of the repository. The model takes
what the rulebooks assume: a row replaces the row of its rule and key, its
removal form removes it with its block, unless the configuration shows the
removal form; a block of `FreshBlocks` (whose rows are all rewritten) starts
empty.

### Acl, JsonFragment, OldNew

A device's *source* is what the storage, the fetcher, its files and its
generators have in store; `Store` gives each device some, and a behaviour takes
one of each. For every device in turn `ReadConfig` reads the old configuration,
`RunPartial` is one turn of the loop of `run_partial_generators` (reference
generators join the list that is being iterated over), `Merge` merges the
results, adds implicit rows and applies acls, safe acls and the filter,
`ReadFiles`, `RunFile` and `MakeFiles` do the same for files, and `NextDevice`
yields the result or the error. `Raise` is an exception that leaves the loop.
Configurations have one level here (a set of rows); trees are the business of
`ConfigDiff`. A json document is a function from paths to values; fragments are
applied in the order of the generators' names, and each removes the levels its
acl owns and it does not yield (`ApplyJsonFragment`). `PointerSet` puts what
the fragment has at one pointer, `RemoveLevel` takes what old has at one level
of an acl and the fragment has not, filters choose among the pointers of the
deepest level (`OwnedLevel`), and `NullifyRemoved` turns objects that are gone
into nulls. A scalar in the place of a parent, for which the code raises, is
replaced.

### DeployFlow

The devices run `"old"`, `"part"` of the change or what is wanted, `"new"`.
`Generate`, `GenerateFails` and `GenerateAborts` are the loop over `old_new`
with `parse_result`; `NothingToDeploy`, `Accept` and `Decline` the user's
answer; `DeployDevice` and `DriverRaises` the external `bulk_deploy`, which may
end each device with success, an error or an unfinished change and may return
commands that restore it; `RollBack`, `UndoDevice` and `Undone` the rollback;
`CheckDiff` the diff afterwards, with every answer the worker of `diff` can
give, and `Report` adds the failed configurations and computes the exit code.
Exit codes are sets of bits. Two conditions of `check_diff` change nothing and
are not in the model: a query is an object, so `not diff_args.query` (714) is
never true, and a device of an empty diff (720) has no commands and so no result
to look at.

### AskConfirm, ProgressBars, DeployUi

The pager's text is a sequence of lines, each its length and the places where
the searched pattern matches. `Scroll`, `Jump` (next and previous match),
`Search`, `Toggle` (the key `a` shows the other text), `Debug` (`d`) and
`Answer` are the keys; `Move` computes cursor and scroll position as
`_do_commands` does. The pad has the lines of the text (`Rows`), but scrolling
is bounded by `len(self.lines)`, which lacks the empty lines the lexer drops at
both ends (`NumLines`). curses raises when a pad is drawn from beyond its end or
the prompt does not fit on its line (`Unshown`), and then the answer is `Died`,
which declines. A tile's window is a place of lines on the screen, its contents
a number. What the driver says (`Say`, `SetProgress`, ...) changes what is to
be drawn, `Refresh` draws it, turns tiles by keys, and the terminal shows what
curses was told to update. `Type` puts a key in the keyboard, which `Refresh`
and `Waiting` both read. A step is what a coroutine does between two awaits.

### RuleTexts, OrderRules, PatchRules, DeployRules, RulebookProvider

A text is a tree of rules with the params written for each, `CompileOrder` and
its like give the params their defaults, and the three `Merge...` operators
inherit. They return the child's rules as well, as merging leaves them: some
are changed in place. `RulebookProvider` loads the rulebooks of a process's
devices one after another, with texts cached by path and hardware, rulebooks by
hardware, and compiled texts by text alone: this is how what one merge changes
is found by the next. `GetOrder` is the Orderer's walk along the path of a
command; `RefInsert` puts what the reference tracker knows in front of the
ordering rules (`Bfs`, `Configs`). `ApplyDeployRulebook` finds the rule of each
command and puts commands before and after.

### MeshModels, Mesh

A host name is a record of parts, a mask tells which values of a part it
matches; `Normalize` shortens names for a registry with short names. `Mesh`
goes through `execute_for`: one action per rule run and per pair of ends, in
the code's order (global, direct, virtual, indirect), then the merge, the
interfaces made on the device, `ToBgpGlobalOptions` and the policies. A *plan*
executes for one device, for its neighbour, and for the first again with the
rules in the other order; the interfaces stay, as Netbox objects do. A field of
a handler's object is the set of values given to it: two different values where
merging forbids it raise. `UsedPolicies` looks for policies place by place, as
`extract_policies` does, and `PoliciesMade` asks for those named anywhere the
models have a field for one (`IsPolicyPath`).

### RplPolicy, RplLists, RplVendors, RplActions, RplDevice, Rpl

A policy is built by the calls a user writes (`Condition`, `StatementBuilder`),
then `Rpl` writes it with each vendor's generator: lists (community, prefix,
as-path, rd) and terms of match rows and then rows. A row says what its command
means, with the lists it names, so that it can be executed: `RplDevice` runs a
route through the terms of a device (`Verdict`, `DoTerm`), and apart from that
says what the user asked for (`VerdictMeant`, `CallsMeant`). That part is not
in the repository and is modelled from what the generators rely on.

## 3. The runs

| Run | Question | Bounds |
|---|---|---|
| `pool_tolerant` | types, nothing vanishes, no orphans, `DeviceRun` implemented | 3 devices, 2 workers, retirement after 2 tasks, 1 crash anywhere |
| `pool_failfast` | deaths and failures make `irun` raise, nothing else does, `irun` ends, and undisturbed it returns | 3 devices, 2 workers, retirement after each task, 1 net retry, failing callbacks, 1 crash, functions that hang |
| `pool_strict_lost` | finding: messages left in the done queue | 2 devices, no crash |
| `patch` | executing the patch gives what is wanted and harms nothing on the way | at most 2 plain rows per level out of 8 (new) or 13 (old), 2 levels; at most 3 of 6 ordered nodes, or pairs with the 8 rewritten and multiline ones, 3 levels |
| `patch_order_keys` | finding: wrong order after deploy | 2 rules |
| `deploy_flow` | exit code, report, devices left alone, termination | 3 devices, all arguments |
| `generate` | acls, safe acls, references, json files, one verdict per device | 2 devices, the first of about 1,850 kinds, 5 sets of arguments |
| `mesh` | both ends see one session, sessions stand on interfaces, a second execution adds nothing, policies are made | 3 devices, 2 rules, 2 links, 3 executions, or one of each end |
| `rpl` | lists are defined, verdicts and actions are what was meant | at most 2 conditions, calls or statements per subject, 5 subjects, 5 vendors |
| `rulebook` | inheritance, order of references, wrapped commands, no device's load changes another's | 2 hardware models, parents of at most 3 rules, children of at most 2 rules, 3 extensions, chains of 3 texts |
| `inherit_stale` | finding: `%not_inherit` below the top level is spent by the first load | the ordering cases of `rulebook` |
| `ui` | what is shown follows the cursor, answers, tiles, what was said is shown, `q` ends the waiting | 8 pairs of texts on a screen of 4 x 5, screens of 3, 5 and 6 lines, 1 or 3 devices, 2 messages, 2 keys |

Why these bounds are enough to be interesting. With two workers and three
devices one worker retires while the other works, and one takes a second task;
one crash can hit a worker in every state, and in `pool_failfast` while it
holds the lock. In `MCConfigDeploy` the nodes are chosen so that each diff
logic meets an addition, a removal, a change of value, a change in the block
alone and a change of place, beside rows that stay; two rows are enough for a
move, three for a move around an addition. Three devices let one fail to
generate, one fail to deploy and one be checked in the same deployment. In
`MCOldNew` two generators' acls overlap in every way two rules can (equal,
wider, global, ranked, for the removal form, cant_delete). In `MCMesh` two
rules are enough for a merge, two links for ports together and one by one. In
`MCRulebook` two rules of a child are an anchor and a new rule. In `MCDeployUi`
texts are shorter, longer, narrower and wider than the screen, with empty lines
at both ends and too long for curses, and tiles fit, just fit and do not fit.

What the configurations leave out, on purpose:

- `NoVainCommand` does not ask for vain removals in ordered and rewritten
  blocks: a block written anew gets removals of rows it no longer has, which
  the FIXME at `common.py:78` admits.
- `patch` gives ordered rows keys or ordering rules of their own: without that
  `patch_order_keys` shows. Two ordered rules whose ordering rules contradict
  the order wanted are excluded: no patch can be right for them.
- Rows of a multiline block are compared as a whole; a multiline block with no
  rows is never generated. Rules are compared by number where the code compares
  their texts.
- `VerdictsMeant` and `ActionsMeant` except by name what is known to be wrong
  or to mean nothing in common (`Sound`, `Clear`, `KnownWrong`, below).
- The first half of `SessionsMirror`, `Mirrors`, asks for handlers that set the
  vrf for both ends, give both an AS number or neither, and make an address
  depend on a port only where ports come one by one (`Agreed`), and for ports
  connected to one port at most (`Cabled`). Its second half, `NoTwins`, excepts
  sessions whose addresses differ in their masks only,
  a lag or svi numbered 0, and two sessions of which one makes the interface
  the other names (`MadeAlike`).
- The acls of generators have no ignore rules (`NoIgnores`): with them a row
  that passes the acl of its generator may be dropped by the merged one, as the
  comment at `patching.py:1045` says, and `GeneratedStays` does not hold.
- `SafeWithin` does not count a deletion of a row that another generator yields
  outside of its safe acl, nor an addition of a row some generator forbids to
  delete (`Forbids`: its removal form), of a default that the acls do not let
  through but the safe ones do, or of a default that is overridden outside of
  the safe acls.
- Reference generators are as `RefTracker` takes them (`RefsSound`): one of each
  class, which yields what it is asked for and whose acl does not forbid that.
- Generators that refer to each other in a cycle: the loop does not end.

### Fairness

`pool_failfast` (`FairSpec`) assumes of every behaviour only that the operating
system runs the parent. `EventuallyEnds` adds that time passes (`FairClock`):
workers may hang for ever or be killed with the lock, and `irun` still compares
the time in every round. `EventuallyDone` adds instead that workers and feeder
threads are scheduled and functions return (`FairWorkers`), that nobody is
killed or fails and that the clock does not strike.
`deploy_flow` assumes that the coroutine goes on: the user answers and the
deploy driver returns or raises.
`ui` assumes weak fairness of the refresher and of `wait_for_exit`: each awaits
a sleep in its loop, and the event loop wakes it up. Nothing is assumed of the
driver and the user.

### Findings

1. `pool_strict_lost`: `irun` takes one message per round but reaps all
   finished workers, and ends when no worker is left. Messages of the last
   workers are lost with the done queue; a failed device then does not change
   the exit code under `--strict-exit-code` (`parallel.py:441`).
2. `patch_order_keys`: `sort_patch_rows` groups by keys without their rules, so
   a row of an unrelated rule pulls an ordered row forward (`patching.py:880`),
   contrary to README.md:13, "the diff will be empty".
3. `inherit_stale`: merging for one device takes `%not_inherit` out of compiled
   rules that the `lru_cache` gives to the next device
   (`annlib/rbparser/ordering.py:232`), contrary to
   docs/usage/rulebooks.rst:801.

Other deviations met while modelling, which have no run of their own.

- *Patch*: a removed child of a moved block without an ordering rule sorts the
  block before its neighbours (`patching.py:911`). At equal places additions
  precede removals, contrary to the docstring of `call_diff_logic`.
- *Deployment*: the diff after a deploy takes an error result, which has empty
  trees, for no difference (`diff.py:87`): such a device is `unseen` in
  `DeployFlow`, and `ZeroMeansDone` excepts it.
- *Generation*: overlapping acls of one device raise and end the generation of
  all devices after it (`gen.py:442`; `LoopPromise` has "raised" for it). The
  check of required packages looks a device up by name in a map keyed by
  devices. A json fragment is removed by a later generator whose acl owns its
  parent, unlike the comment at `jsontools.py:112`.
- *Rulebooks*: generators a, b, c that refer to each other in a chain are
  ordered b, c, a; an `%insert_to_end_group` rule without an anchor goes to the
  very end; `%parent` is lost when inherited; `%ignore_case` of a child changes
  the params but not the expression; a chain of parents that is a cycle is not
  detected.
- *Mesh*: the key by which sessions are merged has the neighbour's address and
  this device's interface, so two rules may be merged on one end and stay two
  on the other; an AS number that one of them gives to one end only is then on
  both sessions of one device and on one of the other (`Numbered`). The last
  vrf set on a shared interface wins, and a lag keeps the ports of its first
  session (`OneVrf`, `OnePorts`). In that key a lag or svi numbered 0 counts as
  none, and `ifname` has no place, so sessions of one neighbour on two named
  interfaces are one (`mesh/executor.py`, `PeerKey`).
- *Routing policies*: Arista reads what rt and soo add from what they remove;
  Huawei writes soo as rt and rejects every next hop; Cumulus adds the name of
  a list; IOS XR resets only rt, and it and Cumulus prepend item by item; IOS
  XR and Juniper merge terms with equal headers; numbers out of order are kept
  by Juniper and sorted by the others; one prefix list used for v4 and v6, or
  with two ranges under one name, is written once; a prefix list some of whose
  members are exact and some are not is `prefix-list-filter ... orlonger` on
  Juniper, so the exact ones match longer prefixes too (`entities.py:160`,
  `MixesLengths`); `has_any()` without a name is taken, and Arista and Cumulus
  then refer to a list without one; Arista writes large community lists but has
  no acl row for them, so with acls in use its generator fails
  (`CommunityListsRaise`). Names are words that stay apart: `_OR_` in a name, or
  a name like `A_8_24` beside a list `A` used with that range, would make two
  lists one, and no such name is in the model.
- *User interface*: a text that begins or ends with empty lines lets the cursor
  go as many lines below the screen, since scrolling stops at the lines the
  lexer kept (`deploy_ui.py:306`), and the cursor can be two columns right of
  what is shown (`:308` scrolls by the screen's width, `:160` shows two columns
  fewer); `CursorFollowed` bounds both. A screen no wider than the prompt ends
  the pager at once, and one no wider than the debug line when `d` is pressed;
  both decline (`Readable` excepts them). Switching texts with `a` keeps the scroll position and
  the matches, so a much shorter text ends the pager and declines (`Alike`
  excepts it), and a rollback's other text is empty; turning tiles raises when
  there are as many devices as lines (`TabsAreHarmless`); an empty match at the
  end of the widest line raises.

## 4. The proofs

| Theorem | Says | For |
|---|---|---|
| `ParallelPoolProofs!TypeCorrect` | `Spec => []TypeOK` | any devices, workers, retries, crashes |
| `ParallelPoolProofs!NoOrphansEver` | `Spec => []NoOrphans` | the same |
| `ParallelPoolProofs!DeathsAreReported` | `Spec => []DeathIsNotSilent` | the same |
| `ParallelPoolProofs!VerdictsOnce` | `Spec => RunPromise`, that is `Run!Spec` of `DeviceRun` | the same |
| `ParallelPoolProofs!NothingIsLost` | `Spec => []NothingVanishes` | the same |
| `ParallelPoolProofs!RaisesAreJust` | `Spec => []RaiseIsJustified` | the same |
| `DeployFlowProofs!TypeCorrect` | `Spec => []TypeOK` | any devices and arguments |
| `DeployFlowProofs!FailedAreLeftAlone` | `Spec => []FailedLeftAlone` | the same |
| `DeployFlowProofs!ZeroIsHonest` | `Spec => []ZeroMeansDone` | the same |
| `DeployFlowProofs!ExitCodeIsRight` | `Spec => []ExitCodeIsJust` | the same |
| `DeployFlowProofs!ReportIsWhole` | `Spec => []ReportIsComplete` | the same |
| `DeployFlowProofs!DeployErrorsStay` | `Spec => DeployErrorStays` | the same |
| `OldNewProofs!TypeCorrect` | `Spec => []TypeOK` | any list of devices, sources and arguments |
| `OldNewProofs!PromiseKept` | `Spec => KeepsPromise`, that is `Promise!Spec` | the same |
| `OldNewProofs!SafeRunDeletes` | what the safe run deletes the full run deletes (`SafeDeletes`) | any generators, acls, configurations and arguments |
| `OldNewProofs!RowsStay` | `Spec => []GeneratedStays` | any generators without ignore rules (`NoIgnores`), configurations and arguments |
| `OldNewProofs!SafeRunWithin` | `Spec => []SafeWithin` | the same |
| `OldNewProofs!ReferencesAreDefined` | `Spec => []ReferencesDefined` | any generators, with reference generators that are `RefsSound` |
| `OldNewProofs!FilesDoHold` | `Spec => []FilesHold` | any documents, fragments, acls, filters and arguments |
| `GenerationFacts!AnswerOfMerged` | what a merged acl answers for a row, in terms of the rules as written | any acls without ignore rules |
| `DeployUiProofs!CursorIsFollowed` | `Spec => []CursorFollowed` | any texts, any screen on which a search's margin fits |
| `DeployUiProofs!OnlyTheUserAnswers` | `Spec => []UserAnswers` | the same |
| `DeployUiProofs!TilesAlwaysStand` | `Spec => []TilesStand` | any screens, devices, messages and keys |
| `MeshProofs!PoliciesAreMade` | `Spec => []PoliciesMade` | any names, rules, handlers and plans |
| `MeshProofs!SessionsDoStand` | `Spec => []SessionsStand` | any names, connections, rules, handlers and plans |
| `MeshProofs!NoTwinsAreMade` | `Spec => []NoTwins`, the second half of `SessionsMirror` | any names, connections, rules, handlers and plans |
| `MeshProofs!WorkInvHolds` | the sessions of a device are those of all its jobs, merged by key | the same |
| `MeshProofs!SessionsDoMirror` | `Spec => []SessionsMirror` | the same |
| `MeshProofs!AgainIsTheSame` | `Spec => []AgainTheSame` | the same |
| `RplProofs!ListsAreDefined` | `Spec => []ListsDefined` | any lists, conditions, calls, handlers, and all five vendors |
| `RplProofs!VerdictsAreMeant` | `Spec => []VerdictsMeant` | the same, and any routes |
| `RplProofs!MergingMeans` | conditions merged by `merge_conditions` hold together of a route exactly when those they were made of do | any conditions of the factories |
| `RplProofs!TermMeans` | the match rows of a term match exactly the routes of which its statement's conditions hold | each vendor, any lists |

**Pool.** The only assumption is `PoolAssumption`: at least two workers, no
more than devices, a list without duplicates. `TypeOK` alone is not inductive:
a worker that is busy must have a device for a task and the scan must point at
a worker (`TypeInv`). `NoOrphans` needs `ReapInv`: who is not in the pool
dictionary is not alive, and the workers not yet born are those not yet
started; so when the dictionary is empty all are dead. `DeathIsNotSilent`
needs `DeathInv`: a worker has an exit code only when it leaves; those counted
as retired in this round really retired; and without `tolerate_fails` a crash
so far is either still to be reaped or counted in `failed` of this very round,
which must raise. `EndInv` is the conjunction that is inductive.

That a device has one verdict and is never lost is proved with one invariant,
`VerdictInv`: there is a map from devices to places (the task queue, a worker,
a worker's buffer, the done queue, the parent's hand, the dictionaries, lost)
such that a device is at a place exactly if the map says so, and each queue
holds a device once. Every action moves one device or the devices of a dying
worker (`OneMoves`, `SomeMove`) or none (`NoneMoves`). For the refinement of
`DeviceRun` it is enough that what the parent has in hand is not filed yet.
`NothingVanishes` needs `LastInv` too: a worker ends normally only after a STOP,
and the STOPs are behind all devices, so devices left in the task queue mean
that every worker has a failure code, and each failure code cost a death.
`BlameInv` goes the other way: a failed result or a failed worker, wherever it
is on its way to the parent, has a failed task or a death behind it.

**Deployment.** No assumption: the set of devices may be empty or infinite.
The inductive invariant `IInv` says of each phase what the later ones rely on:
`ResultsInv` (a device with commands has not failed to generate, an error of
the driver excludes a failed configuration), `GenerateInv` (nothing is touched
yet and every device passed over is settled: as wanted, with commands or
failed), `DeployInv` (the devices not yet done have no result, the others have
one) and `EndInv` (after the check every device is as wanted, unseen or in the
report). `ZeroMeansDone` is not inductive alone because the exit code is
computed from `failedConfigs` and `results`, which the earlier phases filled.
`BitsInv` goes on from it: before the report only bit 3 can be set, and it is
set exactly when a generation failed, which no later phase overwrites.

**Generation.** `DevicesAssumption`: a list of at least one device. `TypeOK` is
inductive: it says how far the loop is (the devices before `at` have their
verdicts, those after it none), and that is what the refinement needs.
`StepsOfLoop` reduces every action, whatever it computes, to one of: go on with
this device, decide it, go to the next.

**Pager.** Assumptions: the screen has a line and a column (`PagerAssumption`)
and texts are lines with matches (`TextsAssumption`). The inductive invariant
`AskInv` joins `TextsInv` (matches remembered are places), `CursorInv` (while
the pager asks, the cursor is on the pad and the scroll position within what
curses allows) and `ScrollInv` (cursor and scroll position together: what
`CursorFollowed` says: at most `RowsBelow` lines below and two columns right of
what is shown). `MoveStep` shows that any move preserves it, and every
key is a move, a change of text or an answer. For `UserAnswers` the invariant
adds that among texts that are `Alike` nothing the user does leaves the pad.

`TilesStand` needs `BarsInv`: what is known of the tiles in each phase of the
driver and of the refresher, between two awaits of either.

**Acls.** `MatchRowToAcl` merges rules of one text, sorts local before global,
matches in two directions, sorts by a metric, and aggregates flags over the
best. `AnswerOfMerged` says without any sequence what comes of it: `Ruling` is a
rule as it is written that speaks of the row and is beaten by none, where a
rule counts with the highest %prio of all rules of its text (`TextPrio`);
`Backs` its direction, `Peers` those that are as good in that direction, and
the row must stay when each of them has %cant_delete (`Keeps`). `RanksNoLower`:
with more generators a rule can only rank higher. `PassesTogether` joins both: a
row that passes the acl of its generator passes those of all generators, but
for a row that is a removal form in the best match and that another generator
forbids.

**Generated rows.** `StoreAssumption` says what generators are made of: rules
have one owner as they are written, and a pattern says what it matches and how
closely. `GenInv` follows the loop: each generator that is iterated over, those
that joined by reference included, has the acl of one of the source (`RunsFor`),
and each result came of one by its own acl (`CameFrom`); no two results have one
name. With `PassesTogether` that gives `RowsStay`. For the safe runs `SafeInv`
says that the safe part of each result is within the result (`Within`), and
that `cfg` is still what `Merge` made of these results (`MergedFrom`), through
the file generators. What is deleted follows from that alone; what is added
needs `GeneratedStays` too, which is why it is proved first.

**References.** `RefInv` is about the loop while it runs: for every result that
refers to a reference generator which no other result refers to, the list has
the generator with all that is asked of it (`Awaited`), nothing of that class
comes after it, and when the loop has passed it its result is there, not
replaced by another. A turn adds a result and the generators it refers to at
once, so that it is invariant (`AwaitedThen`, `AwaitedBeyond`). In the end the
result has every row asked for, since the acl of the generator lets all pass:
otherwise the turn had raised.

**Files.** `StoreAssumption` says of file generators that names and prios are
numbers, pointers are lists, and documents have the parents of what is in them,
which are objects (`IsDocument`). `FilesInv` follows the loop: the results of
fragments came of the device's generators, and in the end each file is what
`NewJsonFile` makes of them. The rest is about that operator. What an acl makes
of a place depends on its fragment and on that place alone: it is removed, has
the fragment's value, becomes an object on the way to one, or stays as it was
(`PointersAreSet`, `LevelsAreRemoved`, `AclIsApplied`). For `FragmentsStay` a
value that is set therefore stays until an acl sets or removes that very place
(`AclsKeep`, `MadeKeeps`, `FragmentKept`). For `FilesSettle` two documents, the
old one and the file made of it, go through the same fragments side by side and
stay `Alike` (`AclsAlike`, `MadeAlike`): at each place both have the same, or
each has what it started with, or each has what nullifying leaves of that
(`Nulled`). As what the second run starts with is the end of the first, each of
the three makes the second run end as it began (`FileSettles`). Proving it showed that
`FragmentsStay` as first stated is false with file filters: a filter may select
what is below a level that `cant_delete` protects. `Removes` says so now, and
`generate` has an acl for it.

**Mesh.** `WorldsAssumption`: rules, plans and ports are lists, names of
interfaces are sequences, what a direct handler fills are the fields of a peer
(`DirectPeer` is a class), policies are set where the models have a field for
them (`IsPolicyPath`; `AllPlaces` then says that `extract_policies` looks at all
such places), no port is called "lag", and there are finitely many devices. `PoliciesInv` says that at each stage of `execute_for` the
globals, the peers and the sessions name the same policies as the handlers that
have run; `MergedNames` follows the values through merging and conversion, and
`RulesAlike` says that the order of the rules does not matter. For the
sessions, `StandInv` says what every job and pair still to be applied is good
for (the ports are those connected to the neighbour, the vrf and the lag have
one value), and that the sessions made so far stand where they should on the
interfaces as they are. It is the order of steps that makes it hard: each
session applied changes interfaces that others stand on, so `Grown` and `Sets`
say what one change leaves alone, and that a lag is made from ports no other
lag has is a condition on all sessions of the device (`OnePorts`). A device
executed again finds the interfaces of the first time and sets their vrfs once
more, one session after the other, and a lag that is there is not filled. So
`LastInv` speaks of what can be made rather than of what has been: a lag that
any direct pair of the device can ask for (`DirectPair`, by `WorkInv`), and
about whose ports all of these agree (`AgreedPorts`), has its ports from when it
exists; and the vrf that the sessions of a result agree on is on the interface
from then on, because the same sessions are made again (`HeadWasMade`) and set
the vrf that is there (`VrfStays`).

That sessions have no twins rests on `TwinInv`. A pair keeps the key it was
found by, whatever is merged into it (`MergedKey`: a merge that does not raise
leaves one value of each field, and where the key has a default the default is
what both had); the pairs of a stage have different keys (`Apart`), and the
sessions already made in it have keys no pair left has (`NewKeys`), because
sessions are made only when all handlers of the stage have run. So sessions of
one stage with one key are one. On the other side, sessions in one place have
one key (`OnePlaceOneKey`): the interface tells the svi, the lag or the port,
and the subinterface. The port is the step that needs the ports themselves. The
key is made of those the handler ran for, the interface of those still
connected; that these are the same when there is one holds because a handler
runs for all ports, for one or for none (`Whole`, `OnePort`).

That both ends of a session mirror each other compares two executions, which
differ in everything that has an order: the rules, the jobs, which of two
sessions of one key was merged into the other. `WorkInv` takes the order out.
It says of each stage which sessions there are, in terms of the jobs the device
has (`IsJob`, from the rules and the cables alone): each session is one job, or
all jobs of one key that fill something merged (`From`), and each such job has
its session (`InMade`); while a stage runs the same holds of the jobs run so
far and of the pairs. It needs `TwinInv`, as two pairs of one key would share
jobs. Then the comparison is one of jobs: a job of one end, seen from the other
end, is a job there with the handler's sides exchanged (`Flip`, `JobsBack`,
`ActiveBack`), because a mask matches two names whichever is left and a cable
has two ends (`CablesBack`). Merging by key may put jobs together on one end
that are apart on the other; as a merge that does not raise leaves one value of
each field, a session that comes of a job has the job's addresses and vrf, and
its AS numbers when the job has any (`MergedHas`), and that is enough for
`Meet`. It was here that the proof failed first: a job without an AS number
merged with one that has one gets it on this end only. `Numbered` says what
`Mirrors` needs, and `mesh` has handlers for it (`OwnNumbers`).

`AgainTheSame` rests on `WorkInv` too: what an execution comes to is a function
of the jobs, and those are the same with the rules the other way round
(`SameFound`), so peers, globals and policies are the same sets. `AgainInv`
adds that a device once executed without an error raises nowhere again (a clash
in a pair that is half made would be one in the sessions already there), and
that since then its interfaces have changed in nothing but their vrf (`Rest`),
what other devices' executions did included: every interface a session wants is
there, the lags with their ports and each address in place (`KeptChange`).

**Lists of policies.** `RplAssumption` says what the factories of conditions
and the builders can be called with: names are lists of names, an as-path filter
is one name, and `has_any()` of nothing is left out (section 3). `BuildInv`
follows the handlers: the conditions of a statement stay conditions of those
fields through `merge_conditions`, and its actions are each of a known kind.
`WrittenInv` says that what is written is what the vendor's generators make of
the policies, none of them having raised. The rest is about one state, and
`ListsDefined` itself names the two hypotheses: `OneFamily` and `WellTyped`
exclude policies for which the code does write one list for two. The community
generators take their lists from the policies in two ways (`Wanted`): what is
united for `has_any` has the name the policy generator mangles. A prefix list is
written once per name, so it has to be shown that two uses with one written
name are of one kind (`OneUserName`, `OneJuniperType`). Then each row of each
vendor is backed by a list (`MatchesBacked`, `ActionsBacked`), and making terms,
uniting those of one header and reading the rows back adds no row.

**Verdicts of policies.** `MeaningAssumption` adds what the meaning rests on:
conditions have the operators their factories have and name lists, lengths and
numbers are numbers, an AND list has members, two rd filters have two numbers,
and an IPv4 prefix list holds no IPv6 networks. `AskedInv` says of every
statement that its conditions are the user's and did merge. The argument then
has three parts. Merging: `MergingMeans` follows `merge_conditions` one
condition at a time. Matching: for every vendor and kind of condition the rows
written match what the condition means (`RowsMean`, `ConditionMeans`), because
each name a row refers to holds exactly of the routes its list was given for
(`CommunityNameHolds`, `PlainPrefixHolds`, `JuniperPrefixHolds`, `RdHolds`,
`AsPathHolds`); rows of which any may match are of one condition, so a term is
the conjunction of its statement's conditions (`TermMeans`). Order: each term
has an owner, the statement it was made of, owners rise from term to term
(`Owners`), the terms of one header have one owner (`HeadersApart`), so uniting
them when the text is read back leaves that so (`ReadBackSpeaks`), and sorting
by number moves nothing (`SpokenInOrder`); the first term that decides is then
owned by the first statement that does (`FirstDecides`). The proof failed first
where Juniper takes an exact member for a longer one (section 3); the property
now excepts it (`MixesLengths`), and `MCRpl` has such a list.

Sequences built by `FlattenSeq` and sets put in order by `SetToSeq` are met in
most of these proofs. `SequenceFacts` has what they contain; where that needs
induction it goes by the least counterexample (`LeastNatural`).

Only model-checked:

- liveness (`EventuallyDone`, `EventuallyEnds`, `Ends`, `EverythingShown`,
  `QuitEnds`), which the provers cannot do under fairness;
- everything of `ConfigDeploy` (`EmptyAfterDeploy`, `NoFlapping` and the rest)
  and of `RulebookProvider`: trees are recursive, and the provers take no
  `RECURSIVE` operator;
- `ActionsMeant`: what a term does to a route is a fold over its rows, and has to
  be compared with another fold, of the builder's calls in another order.

Every safety property of the runs of the pool, of `deploy_flow`, of `generate`,
of `ui` and of `mesh` is a theorem.

## 5. Not modelled

- *Text to tree* (`vendors/tabparser.py`), *output*, *command line*, *tracing*:
  text and I/O; the models start from trees.
- *Vendor logics* (`rulebook/<vendor>/`): special cases of single commands,
  called through the logics that are modelled by the common ones.
- *Storage*, *connectors*, *hardware*: clients of services and data files.
- Of the pool: `irun` with one process, callbacks that filter or multiply
  results, a worker dying in the middle of a write to the done queue's pipe.
- Of the patch: case-insensitive rules, comments, contexts, `force_commit`,
  `parent`. `%global`, `%split` and `%order_reverse` are in `OrderRules`, apart
  from the patch.
- Of the generation: downloading files, configurations of several levels,
  arrays in json documents, patches of files.
- Of a deployment: the names of hosts (`fqdn`, `hostname`) and file devices.
- Of the user interface: colours, wrapping of lines, resizing.
- Of routing policies: the layout of lines, and fields that behave like others.

## 6. Plan

1. `irun` with one process and the callbacks; file devices in `DeployFlow` with
   host names, for the two hazards that have no property.
2. `GetOrder` of `OrderRules` in place of the positions in `ConfigPatch`.
3. Text to tree for the indented formatters (`TabParser`).
4. Proofs: `ActionsMeant`, vendor by vendor.
