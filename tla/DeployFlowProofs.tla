-------------------------- MODULE DeployFlowProofs --------------------------
(***************************************************************************)
(* Proofs about annet deploy, for any set of devices and any arguments.    *)
(***************************************************************************)
EXTENDS DeployFlow, TLAPS

(* Nobody is forgotten: a device runs what is wanted, gets commands or has *)
(* failed.                                                                 *)
Settled(d) == config[d] = "new" \/ d \in deployCmds \/ failedConfigs[d] = "generate"

(* What holds of the results in every phase.                               *)
ResultsInv ==
    \A d \in Devices :
        /\ d \in deployCmds => failedConfigs[d] # "generate"
        /\ results[d] = "deploy" => failedConfigs[d] = "no"
        /\ results[d] \in {"ok", "deploy"} => d \in deployCmds
        /\ config[d] = "part" => d \in deployCmds
        /\ pc \notin {"returned", "raised"} => results[d] \in {"none", "ok", "deploy"}
        /\ pc \notin {"returned", "raised", "report"} => failedConfigs[d] \in {"no", "generate"}

GenerateInv ==
    pc = "generate" =>
        /\ originalStates = {}
        /\ \A d \in Devices :
            /\ results[d] = "none" /\ config[d] # "part"
            /\ d \in left => failedConfigs[d] = "no" /\ d \notin deployCmds
            /\ d \notin left => Settled(d)

DeployInv ==
    /\ pc = "deploy" =>
        /\ left \subseteq deployCmds
        /\ \A d \in left : results[d] = "none"
        /\ \A d \in deployCmds \ left : results[d] \in {"ok", "deploy"}
    /\ pc = "undo" => left \subseteq originalStates /\ rolledBack
    /\ pc \in {"offer", "undo", "check", "report"} =>
        \A d \in deployCmds : results[d] \in {"ok", "deploy"}
    /\ pc \in {"deploy", "offer", "undo", "check", "report"} => \A d \in Devices : Settled(d)

EndInv ==
    /\ pc = "report" /\ ~args.no_check_diff /\ ~rolledBack =>
        \A d \in Devices : \/ config[d] = "new" \/ d \in unseen
                           \/ failedConfigs[d] # "no" \/ results[d] = "deploy"
    /\ 2 \in ret => /\ pc = "returned" /\ originalStates = {}
                    /\ \A d \in Devices : results[d] = "none" /\ config[d] # "part"
    /\ ZeroMeansDone

IInv == TypeOK /\ ResultsInv /\ GenerateInv /\ DeployInv /\ EndInv

-----------------------------------------------------------------------------
LEMMA InitInv == Init => IInv
BY DEF Init, IInv, TypeOK, ResultsInv, GenerateInv, DeployInv, EndInv, ZeroMeansDone, Settled, Verdicts

LEMMA NextInv == IInv /\ [Next]_vars => IInv'
<1> SUFFICES ASSUME IInv, [Next]_vars PROVE IInv'
  OBVIOUS
<1> USE DEF IInv, TypeOK, ResultsInv, GenerateInv, DeployInv, EndInv, ZeroMeansDone, Settled, Verdicts
<1>1. ASSUME NEW d \in Devices, Generate(d) PROVE IInv'
  BY <1>1 DEF Generate
<1>2. ASSUME NEW d \in Devices, GenerateFails(d) PROVE IInv'
  <2>1. CASE ~args.tolerate_fails
    BY <1>2, <2>1 DEF GenerateFails
  <2>2. CASE args.tolerate_fails
    <3>1. /\ pc = "generate" /\ d \in left /\ left' = left \ {d}
          /\ failedConfigs' = [failedConfigs EXCEPT ![d] = "generate"]
          /\ ret' = ret \cup {3}
          /\ UNCHANGED <<args, pc, config, deployCmds, results, originalStates, rolledBack, unseen>>
      BY <1>2, <2>2 DEF GenerateFails
    <3>2. TypeOK'
      BY <3>1
    <3>3. ResultsInv' /\ GenerateInv'
      BY <3>1
    <3>4. DeployInv' /\ EndInv'
      BY <3>1
    <3> QED
      BY <3>2, <3>3, <3>4
  <2> QED
    BY <2>1, <2>2
<1>3. ASSUME NEW d \in Devices, NEW result \in {"ok", "deploy"}, NEW state \in {"old", "part", "new"},
             NEW restorable \in BOOLEAN, DeployDevice(d, result, state, restorable)
      PROVE IInv'
  BY <1>3 DEF DeployDevice
<1>4. ASSUME NEW d \in Devices, NEW state \in {"old", config[d]}, UndoDevice(d, state) PROVE IInv'
  BY <1>4 DEF UndoDevice
<1>5. CASE GenerateAborts
  BY <1>5 DEF GenerateAborts
<1>6. CASE NothingToDeploy
  BY <1>6 DEF NothingToDeploy
<1>7. CASE Accept
  BY <1>7 DEF Accept
<1>8. CASE Decline
  BY <1>8 DEF Decline
<1>9. CASE DriverRaises
  BY <1>9 DEF DriverRaises
<1>10. CASE Deployed
  BY <1>10 DEF Deployed
<1>11. CASE NoRollback
  BY <1>11 DEF NoRollback
<1>12. CASE RollBack
  BY <1>12 DEF RollBack
<1>13. CASE Undone
  BY <1>13 DEF Undone
<1>14. CASE SkipCheck
  BY <1>14 DEF SkipCheck
<1>15. CASE Report
  <2>1. \A d \in Devices : results'[d] = IF failedConfigs[d] # "no" THEN failedConfigs[d] ELSE results[d]
    BY <1>15 DEF Report, AddResults
  <2>2. results' \in [Devices -> (Verdicts \ {"no"}) \cup {"none", "ok", "deploy"}]
    BY <1>15 DEF Report, AddResults
  <2>3. /\ ret' \subseteq ret \cup {0, 1}
        /\ 1 \in ret' \/ \A d \in Devices : failedConfigs[d] = "no"
        /\ 0 \in ret' \/ \A d \in Devices : results'[d] \in {"none", "ok"}
    BY <1>15 DEF Report
  <2>4. 2 \notin ret'
    BY <1>15, <2>3 DEF Report
  <2>5. ZeroMeansDone'
    BY <1>15, <2>1, <2>3 DEF Report
  <2>6. ret' \subseteq 0..3
    <3>1. ret \subseteq 0..3 /\ {0, 1} \subseteq 0..3
      OBVIOUS
    <3> HIDE DEF IInv, TypeOK
    <3> QED
      BY <2>3, <3>1
  <2>7. TypeOK'
    BY <1>15, <2>2, <2>6 DEF Report
  <2>8. ResultsInv'
    BY <1>15, <2>1 DEF Report
  <2> QED
    BY <1>15, <2>4, <2>5, <2>7, <2>8 DEF Report
<1>16. ASSUME NEW answer \in [Devices -> {"empty", "still", "diff", "silent"}], CheckDiff(answer) PROVE IInv'
  BY <1>16 DEF CheckDiff, HostsToCheck, Answers
<1>17. CASE UNCHANGED vars
  BY <1>17 DEF vars
<1> QED
  BY <1>1, <1>2, <1>3, <1>4, <1>5, <1>6, <1>7, <1>8, <1>9, <1>10, <1>11, <1>12, <1>13, <1>14, <1>15,
     <1>16, <1>17 DEF Next, Adeploy, Device, Ended

-----------------------------------------------------------------------------
(* The types of Deployer and DeployResult, at any point of a deployment.   *)
THEOREM TypeCorrect == Spec => []TypeOK
<1>1. IInv => TypeOK
  BY DEF IInv
<1> QED
  BY InitInv, NextInv, <1>1, PTL DEF Spec

(* A device whose generation failed is left alone, and so is every device  *)
(* when the user declines (the loop over old_new and ask_deploy).          *)
THEOREM FailedAreLeftAlone == Spec => []FailedLeftAlone
<1>1. IInv => FailedLeftAlone
  BY DEF IInv, TypeOK, ResultsInv, EndInv, FailedLeftAlone
<1> QED
  BY InitInv, NextInv, <1>1, PTL DEF Spec

(* Exit code 0 of a deploy that checked itself and was not rolled back:    *)
(* every device runs what is wanted, but for those the check got no answer *)
(* for.                                                                    *)
THEOREM ZeroIsHonest == Spec => []ZeroMeansDone
<1>1. IInv => ZeroMeansDone
  BY DEF IInv, EndInv
<1> QED
  BY InitInv, NextInv, <1>1, PTL DEF Spec

-----------------------------------------------------------------------------
(* The bits so far: 3 tells of the failed generations, 0 and 1 come last.  *)
BitsInv ==
    /\ 2 \notin ret => (3 \in ret <=> \E d \in Devices : failedConfigs[d] = "generate")
    /\ pc # "returned" => ret \subseteq {3}
    /\ ExitCodeIsJust
    /\ ReportIsComplete

LEMMA BitsStep == IInv /\ BitsInv /\ [Next]_vars => BitsInv'
<1> SUFFICES ASSUME IInv, BitsInv, [Next]_vars PROVE BitsInv'
  OBVIOUS
<1> USE DEF BitsInv, ExitCodeIsJust, ReportIsComplete
<1>1. ASSUME NEW d \in Devices, GenerateFails(d) PROVE BitsInv'
  <2>1. CASE args.tolerate_fails
    <3>1. failedConfigs' = [failedConfigs EXCEPT ![d] = "generate"] /\ ret' = ret \cup {3}
          /\ pc = "generate" /\ pc' = "generate"
      BY <1>1, <2>1 DEF GenerateFails
    <3>2. failedConfigs'[d] = "generate"
      BY <3>1 DEF IInv, TypeOK
    <3>3. 3 \in ret' /\ ret' \subseteq {3}
      BY <3>1
    <3> QED
      BY <3>1, <3>2, <3>3
  <2>2. CASE ~args.tolerate_fails
    BY <1>1, <2>2 DEF GenerateFails
  <2> QED
    BY <2>1, <2>2
<1>2. ASSUME NEW answer \in [Devices -> {"empty", "still", "diff", "silent"}], CheckDiff(answer) PROVE BitsInv'
  <2>1. \A d \in Devices : failedConfigs'[d] = "generate" <=> failedConfigs[d] = "generate"
    BY <1>2 DEF CheckDiff, HostsToCheck, IInv, TypeOK, ResultsInv
  <2> QED
    BY <1>2, <2>1 DEF CheckDiff
<1>3. CASE Report
  <2>1. \A d \in Devices : results'[d] = IF failedConfigs[d] # "no" THEN failedConfigs[d] ELSE results[d]
    BY <1>3 DEF Report, AddResults
  <2>2. /\ UNCHANGED <<failedConfigs, deployCmds>> /\ pc = "report" /\ pc' = "returned" /\ ret \subseteq {3}
        /\ 0 \in ret' <=> \E d \in Devices : results'[d] \notin {"none", "ok"}
        /\ 1 \in ret' <=> \E d \in Devices : failedConfigs[d] # "no"
        /\ 2 \notin ret' /\ (3 \in ret' <=> 3 \in ret)
    BY <1>3 DEF Report
  <2>3. \A d \in Devices :
            /\ failedConfigs[d] \in Verdicts
            /\ results[d] \in {"none", "ok", "deploy"}
            /\ d \in deployCmds => results[d] # "none"
    BY <2>2 DEF IInv, TypeOK, ResultsInv, DeployInv
  <2>4. /\ \A d \in Devices : results'[d] \in Verdicts <=> failedConfigs[d] # "no"
        /\ \A d \in Devices : results'[d] = "generate" <=> failedConfigs[d] = "generate"
        /\ \A d \in Devices : d \in deployCmds => results'[d] # "none"
    BY <2>1, <2>3 DEF Verdicts
  <2>5. ExitCodeIsJust'
    <3>1. 2 \notin ret
      BY <2>2
    <3>2. 3 \in ret' <=> \E d \in Devices : failedConfigs[d] = "generate"
      BY <2>2, <3>1
    <3> HIDE DEF BitsInv
    <3>3. 3 \in ret' <=> \E d \in Devices : results'[d] = "generate"
      BY <2>4, <3>2
    <3>4. 1 \in ret' <=> \E d \in Devices : results'[d] \in Verdicts
      BY <2>2, <2>4
    <3> QED
      BY <2>2, <3>3, <3>4
  <2>6. ReportIsComplete'
    BY <2>1, <2>2, <2>4
  <2> QED
    BY <2>2, <2>5, <2>6
<1>4. CASE Decline
  BY <1>4 DEF Decline
<1>5. CASE UNCHANGED <<failedConfigs, ret>> /\ pc' # "returned" /\ pc # "returned"
  BY <1>5
<1>6. CASE UNCHANGED vars
  BY <1>6 DEF vars
<1> QED
  BY <1>1, <1>2, <1>3, <1>4, <1>5, <1>6
  DEF Next, Adeploy, Device, Ended, vars, Generate, DeployDevice, UndoDevice, GenerateAborts, NothingToDeploy,
      Accept, DriverRaises, Deployed, NoRollback, RollBack, Undone, SkipCheck

(* Unless the user declined, the exit code of a deployment shows failures  *)
(* and only failures: bit 0 any, bit 1 failed configurations, bit 3 failed *)
(* generations (the end of adeploy).                                       *)
THEOREM ExitCodeIsRight == Spec => []ExitCodeIsJust
<1>1. Init => BitsInv
  BY DEF Init, BitsInv, ExitCodeIsJust, ReportIsComplete
<1>2. BitsInv => ExitCodeIsJust
  BY DEF BitsInv
<1> QED
  BY InitInv, NextInv, BitsStep, <1>1, <1>2, PTL DEF Spec

(* Every device that failed anywhere or got commands is in the report, a   *)
(* failed configuration with its error (add_results).                      *)
THEOREM ReportIsWhole == Spec => []ReportIsComplete
<1>1. Init => BitsInv
  BY DEF Init, BitsInv, ExitCodeIsJust, ReportIsComplete
<1>2. BitsInv => ReportIsComplete
  BY DEF BitsInv
<1> QED
  BY InitInv, NextInv, BitsStep, <1>1, <1>2, PTL DEF Spec

-----------------------------------------------------------------------------
(* No step of adeploy takes an error of the deploy driver from the report. *)
THEOREM DeployErrorsStay == Spec => DeployErrorStays
<1>1. IInv /\ [Next]_vars => [\A d \in Devices : results[d] = "deploy" => results'[d] = "deploy"]_vars
  <2> SUFFICES ASSUME IInv, Next, NEW d \in Devices, results[d] = "deploy"
               PROVE results'[d] = "deploy"
    BY DEF vars
  <2>1. ASSUME NEW e \in Devices, NEW result, NEW state, NEW restorable, DeployDevice(e, result, state, restorable)
        PROVE results'[d] = "deploy"
    BY <2>1 DEF DeployDevice, IInv, TypeOK, DeployInv
  <2>2. CASE Report
    BY <2>2 DEF Report, AddResults, IInv, ResultsInv
  <2>3. CASE UNCHANGED results
    BY <2>3
  <2> QED
    BY <2>1, <2>2, <2>3
    DEF Next, Adeploy, Device, Ended, vars, Generate, GenerateFails, UndoDevice, GenerateAborts, NothingToDeploy,
        Accept, Decline, DriverRaises, Deployed, NoRollback, RollBack, Undone, SkipCheck, CheckDiff
<1> QED
  BY InitInv, NextInv, <1>1, PTL DEF Spec, DeployErrorStays
=============================================================================
