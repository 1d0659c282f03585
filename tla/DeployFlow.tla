----------------------------- MODULE DeployFlow -----------------------------
(***************************************************************************)
(* annet deploy: adeploy and the Deployer of api/__init__.py.  A device's  *)
(* configuration is what it was ("old"), what is wanted ("new") or         *)
(* something between.  Exit codes are sets of bit numbers.  bulk_deploy of *)
(* the deploy driver and the user are external.                            *)
(***************************************************************************)
EXTENDS Integers

CONSTANTS Devices

VARIABLES
    args,             \* the arguments, DeployOptions
    pc,               \* where adeploy is
    left,             \* devices the current phase has not got to
    config,           \* what the devices run
    deployCmds,       \* Deployer.deploy_cmds
    failedConfigs,    \* Deployer.failed_configs
    results,          \* DeployResult.results
    originalStates,   \* DeployResult.original_states, the ones with commands
    rolledBack,
    ret,
    unseen            \* history: devices the diff after the deploy said nothing of

vars == <<args, pc, left, config, deployCmds, failedConfigs, results, originalStates, rolledBack, ret, unseen>>

Args == [tolerate_fails: BOOLEAN, no_ask_deploy: BOOLEAN, rollback: BOOLEAN, no_check_diff: BOOLEAN]

Init ==
    /\ args \in Args
    /\ pc = "generate"
    /\ left = Devices
    /\ config \in [Devices -> {"old", "new"}]
    /\ deployCmds = {}
    /\ failedConfigs = [d \in Devices |-> "no"]
    /\ results = [d \in Devices |-> "none"]
    /\ originalStates = {}
    /\ rolledBack = FALSE
    /\ ret = {}
    /\ unseen = {}

-----------------------------------------------------------------------------
(* The loop over old_new.  A device without a diff gets no commands.       *)
Generate(d) ==
    /\ pc = "generate" /\ d \in left
    /\ left' = left \ {d}
    /\ deployCmds' = IF config[d] = "new" THEN deployCmds ELSE deployCmds \cup {d}
    /\ UNCHANGED <<args, pc, config, failedConfigs, results, originalStates, rolledBack, ret, unseen>>

(* Mutant: the job gets its commands although the generation failed.       *)
GenerateFailsPlanned(d) ==
    /\ pc = "generate" /\ d \in left
    /\ IF args.tolerate_fails
       THEN /\ left' = left \ {d}
            /\ failedConfigs' = [failedConfigs EXCEPT ![d] = "generate"]
            /\ ret' = ret \cup {3}
            /\ deployCmds' = deployCmds \cup {d}
            /\ UNCHANGED pc
       ELSE pc' = "raised" /\ UNCHANGED <<left, failedConfigs, ret, deployCmds>>
    /\ UNCHANGED <<args, config, results, originalStates, rolledBack, unseen>>

(* Mutant: the failure is only logged.                                     *)
GenerateFailsSilently(d) ==
    /\ pc = "generate" /\ d \in left
    /\ left' = left \ {d}
    /\ UNCHANGED <<args, pc, config, deployCmds, failedConfigs, results, originalStates, rolledBack, ret, unseen>>

(* Its configuration cannot be read or generated: OldNewResult.err.        *)
GenerateFails(d) ==
    /\ pc = "generate" /\ d \in left
    /\ IF args.tolerate_fails
       THEN /\ left' = left \ {d}
            /\ failedConfigs' = [failedConfigs EXCEPT ![d] = "generate"]
            /\ ret' = ret \cup {3}
            /\ UNCHANGED pc
       ELSE pc' = "raised" /\ UNCHANGED <<left, failedConfigs, ret>>
    /\ UNCHANGED <<args, config, deployCmds, results, originalStates, rolledBack, unseen>>

(* Overlapping acls end old_new for every device, tolerant or not.         *)
GenerateAborts ==
    /\ pc = "generate" /\ left # {}
    /\ pc' = "raised"
    /\ UNCHANGED <<args, left, config, deployCmds, failedConfigs, results, originalStates, rolledBack, ret, unseen>>

-----------------------------------------------------------------------------
(* ask_deploy: with --no-ask-deploy the answer is the default, yes.        *)
NothingToDeploy ==
    /\ pc = "generate" /\ left = {} /\ deployCmds = {}
    /\ pc' = "offer"
    /\ UNCHANGED <<args, left, config, deployCmds, failedConfigs, results, originalStates, rolledBack, ret, unseen>>

Accept ==
    /\ pc = "generate" /\ left = {} /\ deployCmds # {}
    /\ pc' = "deploy"
    /\ left' = deployCmds
    /\ UNCHANGED <<args, config, deployCmds, failedConfigs, results, originalStates, rolledBack, ret, unseen>>

(* Whatever happened before, the exit code is 2**2 alone.                  *)
Decline ==
    /\ pc = "generate" /\ left = {} /\ deployCmds # {} /\ ~args.no_ask_deploy
    /\ pc' = "returned"
    /\ ret' = {2}
    /\ UNCHANGED <<args, left, config, deployCmds, failedConfigs, results, originalStates, rolledBack, unseen>>

(* bulk_deploy: a device takes the commands and is as wanted, or not; or   *)
(* it fails, at any point.  The driver may hand back the commands that     *)
(* restore what the device ran.                                            *)
DeployDevice(d, result, state, restorable) ==
    /\ pc = "deploy" /\ d \in left
    /\ result = "ok" => state # "old"
    /\ left' = left \ {d}
    /\ results' = [results EXCEPT ![d] = result]
    /\ config' = [config EXCEPT ![d] = state]
    /\ originalStates' = IF restorable THEN originalStates \cup {d} ELSE originalStates
    /\ UNCHANGED <<args, pc, deployCmds, failedConfigs, rolledBack, ret, unseen>>

(* Mutant: the deployment is tried again.                                  *)
DriverRaisesRetried ==
    /\ pc \in {"deploy", "undo"} /\ left # {}
    /\ pc' = "deploy"
    /\ left' = deployCmds
    /\ UNCHANGED <<args, config, deployCmds, failedConfigs, results, originalStates, rolledBack, ret, unseen>>

DriverRaises ==
    /\ pc \in {"deploy", "undo"} /\ left # {}
    /\ pc' = "raised"
    /\ UNCHANGED <<args, left, config, deployCmds, failedConfigs, results, originalStates, rolledBack, ret, unseen>>

Deployed ==
    /\ pc = "deploy" /\ left = {}
    /\ pc' = "offer"
    /\ UNCHANGED <<args, left, config, deployCmds, failedConfigs, results, originalStates, rolledBack, ret, unseen>>

-----------------------------------------------------------------------------
(* ask_rollback: with --no-ask-deploy the answer is the default, no.       *)
NoRollback ==
    /\ pc = "offer"
    /\ pc' = "check"
    /\ UNCHANGED <<args, left, config, deployCmds, failedConfigs, results, originalStates, rolledBack, ret, unseen>>

RollBack ==
    /\ pc = "offer" /\ args.rollback /\ ~args.no_ask_deploy /\ originalStates # {}
    /\ pc' = "undo"
    /\ rolledBack' = TRUE
    /\ left' = originalStates
    /\ UNCHANGED <<args, config, deployCmds, failedConfigs, results, originalStates, ret, unseen>>

(* The result of the second bulk_deploy is thrown away.                    *)
UndoDevice(d, state) ==
    /\ pc = "undo" /\ d \in left
    /\ left' = left \ {d}
    /\ config' = [config EXCEPT ![d] = state]
    /\ UNCHANGED <<args, pc, deployCmds, failedConfigs, results, originalStates, rolledBack, ret, unseen>>

Undone ==
    /\ pc = "undo" /\ left = {}
    /\ pc' = "check"
    /\ UNCHANGED <<args, left, config, deployCmds, failedConfigs, results, originalStates, rolledBack, ret, unseen>>

-----------------------------------------------------------------------------
SkipCheck ==
    /\ pc = "check" /\ (args.no_check_diff \/ rolledBack)
    /\ pc' = "report"
    /\ UNCHANGED <<args, left, config, deployCmds, failedConfigs, results, originalStates, rolledBack, ret, unseen>>

(* What the worker of diff() answers for a device: the diff; it fails; or  *)
(* no diff although nothing was compared, since it looks at no err of      *)
(* old_new and run() may lose a device.                                    *)
Answers(d) == {IF config[d] = "new" THEN "empty" ELSE "still", "diff", "silent"}

(* Whatever was deployed.  Two conditions of the code change nothing: a    *)
(* query is an object and never false (api/__init__.py:714), and a device  *)
(* of an empty diff has no commands, so it has no result (:720).           *)
HostsToCheck == {d \in Devices : results[d] = "ok"}

(* check_diff.                                                             *)
CheckDiff(answer) ==
    /\ pc = "check" /\ ~args.no_check_diff /\ ~rolledBack
    /\ \A d \in HostsToCheck : answer[d] \in Answers(d)
    /\ IF ~args.tolerate_fails /\ \E d \in HostsToCheck : answer[d] = "diff"
       THEN pc' = "raised" /\ UNCHANGED <<failedConfigs, unseen>>
       ELSE /\ pc' = "report"
            /\ failedConfigs' = [d \in Devices |->
                    IF d \in HostsToCheck /\ answer[d] \in {"still", "diff"}
                    THEN answer[d] ELSE failedConfigs[d]]
            /\ unseen' = {d \in HostsToCheck : answer[d] = "silent"}
    /\ UNCHANGED <<args, left, config, deployCmds, results, originalStates, rolledBack, ret>>

(* Mutants: the failed configurations do not get into the report; they do  *)
(* not replace a result.                                                   *)
AddResultsNone == results
AddResultsMissing ==
    [d \in Devices |-> IF failedConfigs[d] # "no" /\ results[d] = "none"
                       THEN failedConfigs[d] ELSE results[d]]

(* DeployResult.add_results.                                               *)
AddResults == [d \in Devices |-> IF failedConfigs[d] # "no" THEN failedConfigs[d] ELSE results[d]]

Report ==
    /\ pc = "report"
    /\ pc' = "returned"
    /\ results' = AddResults
    /\ ret' = ret \cup {b \in {0, 1} :
                \/ b = 1 /\ \E d \in Devices : failedConfigs[d] # "no"
                \/ b = 0 /\ \E d \in Devices : results'[d] \notin {"none", "ok"}}
    /\ UNCHANGED <<args, left, config, deployCmds, failedConfigs, originalStates, rolledBack, unseen>>

-----------------------------------------------------------------------------
Ended == pc \in {"returned", "raised"} /\ UNCHANGED vars

Device ==
    \E d \in Devices :
        \/ Generate(d)
        \/ GenerateFails(d)
        \/ \E result \in {"ok", "deploy"}, state \in {"old", "part", "new"}, restorable \in BOOLEAN :
                DeployDevice(d, result, state, restorable)
        \/ \E state \in {"old", config[d]} : UndoDevice(d, state)

Adeploy ==
    \/ Device \/ GenerateAborts
    \/ NothingToDeploy \/ Accept \/ Decline
    \/ DriverRaises \/ Deployed
    \/ NoRollback \/ RollBack \/ Undone
    \/ SkipCheck \/ Report
    \/ \E answer \in [Devices -> {"empty", "still", "diff", "silent"}] : CheckDiff(answer)

Next == Adeploy \/ Ended

(* Fairness: the coroutine goes on, the user answers, the driver returns.  *)
Spec == Init /\ [][Next]_vars /\ WF_vars(Adeploy)

-----------------------------------------------------------------------------
(* What makes a deployment correct.                                        *)
Verdicts == {"no", "generate", "still", "diff"}

(* The types of Deployer and DeployResult.                                 *)
TypeOK ==
    /\ args \in Args
    /\ pc \in {"generate", "deploy", "offer", "undo", "check", "report", "returned", "raised"}
    /\ left \subseteq Devices
    /\ config \in [Devices -> {"old", "part", "new"}]
    /\ deployCmds \subseteq Devices
    /\ failedConfigs \in [Devices -> Verdicts]
    /\ results \in [Devices -> (Verdicts \ {"no"}) \cup {"none", "ok", "deploy"}]
    /\ originalStates \subseteq deployCmds
    /\ rolledBack \in BOOLEAN
    /\ ret \subseteq 0..3
    /\ unseen \subseteq deployCmds

(* A device whose configuration could not be generated is left alone, and  *)
(* so is every device when the user declines or the run aborts in time.    *)
FailedLeftAlone ==
    \A d \in Devices :
        config[d] = "part" \/ results[d] = "ok" \/ d \in originalStates
            => d \in deployCmds /\ failedConfigs[d] # "generate" /\ 2 \notin ret

(* An error of the deploy driver stays in the report: the diff after the   *)
(* deploy does not put "diff still exists" or a success in its place.      *)
DeployErrorStays ==
    [][\A d \in Devices : results[d] = "deploy" => results'[d] = "deploy"]_vars

(* Exit code 0 of a deploy that checked itself and was not rolled back:    *)
(* every device runs what is wanted, but for those the check got no answer *)
(* for.                                                                    *)
ZeroMeansDone ==
    pc = "returned" /\ ret = {} /\ ~args.no_check_diff /\ ~rolledBack
        => \A d \in Devices : config[d] = "new" \/ d \in unseen

(* The exit code tells failures, and only failures: bit 0 or more is set   *)
(* exactly when the report shows one, bit 3 when a generation failed.      *)
ExitCodeIsJust ==
    pc = "returned" /\ 2 \notin ret =>
        /\ 0 \in ret <=> \E d \in Devices : results[d] \notin {"none", "ok"}
        /\ 1 \in ret <=> \E d \in Devices : results[d] \in Verdicts
        /\ 3 \in ret <=> \E d \in Devices : results[d] = "generate"

(* Every device is in the report that failed anywhere or got commands.     *)
ReportIsComplete ==
    pc = "returned" /\ 2 \notin ret =>
        \A d \in Devices :
            /\ d \in deployCmds => results[d] # "none"
            /\ failedConfigs[d] # "no" => results[d] = failedConfigs[d]

(* With an answer from the user and the driver, deploy ends.               *)
Ends == <>(pc \in {"returned", "raised"})
=============================================================================
