------------------------------- MODULE DeployUi -------------------------------
(***************************************************************************)
(* The part of adeploy (annet/api/__init__.py) that talks to a user: the   *)
(* pager asks whether to deploy, the driver deploys under progress bars,   *)
(* and when it has returned the user may look until typing q.  Then        *)
(* adeploy goes on to the rollback, the diff and the report.               *)
(***************************************************************************)
EXTENDS AskConfirm, ProgressBars

VARIABLE pc     \* "ask", "deploy", "wait", "goes on", "declined", "driver raised", "ui raised"

vars == <<pagerVars, barVars, pc>>

Init == PagerInit /\ BarsInit /\ pc = "ask"

(* _ask: loop().                                                           *)
Ask == /\ pc = "ask" /\ Pager
       /\ UNCHANGED <<barVars, pc>>

(* ans != "y": whatever else ended the pager.                              *)
Decline == /\ pc = "ask" /\ ~Asked /\ answer # "y"
           /\ pc' = "declined"
           /\ Gone
           /\ UNCHANGED barVars

Open == /\ pc = "ask" /\ answer = "y"
        /\ pc' = "deploy"
        /\ Start
        /\ Gone

(* bulk_deploy tells the bars what it does, returns or raises.             *)
Deploying == /\ pc = "deploy"
             /\ \E d \in Devices : SetProgress(d) \/ SetException(d) \/ AddContent(d)
             /\ UNCHANGED <<pagerVars, pc>>
DriverReturns == /\ pc = "deploy"
                 /\ pc' = "wait"
                 /\ Wait
                 /\ UNCHANGED pagerVars
DriverRaises == /\ pc = "deploy"
                /\ pc' = "driver raised"
                /\ CloseRaising
                /\ UNCHANGED pagerVars

Waiting == /\ pc = "wait" /\ ReadOn
           /\ UNCHANGED <<pagerVars, pc>>
Leave == /\ pc = "wait" /\ Quit
         /\ pc' = "goes on"
         /\ UNCHANGED pagerVars
(* The key that turns to another tile raises in wait_for_exit, through     *)
(* adeploy: no rollback, no diff, no report.                               *)
WaitRaises == /\ pc = "wait" /\ Turns(keys) /\ TabRaises
              /\ pc' = "ui raised"
              /\ CloseRaising
              /\ UNCHANGED pagerVars

User      == /\ \E key \in {"tab", "backtab", "q"} : Type(key)
             /\ pc \in {"deploy", "wait"}
             /\ UNCHANGED <<pagerVars, pc>>
Refresher == Refresh /\ UNCHANGED <<pagerVars, pc>>
WaitForExit == Waiting \/ Leave \/ WaitRaises

Next == \/ Ask \/ Decline \/ Open
        \/ Deploying \/ DriverReturns \/ DriverRaises
        \/ WaitForExit \/ User \/ Refresher

(* Fairness: the event loop runs the refresher and wait_for_exit.          *)
Spec == Init /\ [][Next]_vars /\ WF_vars(Refresher) /\ WF_vars(WaitForExit)

-----------------------------------------------------------------------------
(***************************************************************************)
(* What the user of a deployment may rely on.                              *)
(***************************************************************************)

(* The pager: what is shown follows the cursor, whatever keys were pressed *)
(* and whichever text is shown, if the margin of a search fits on the      *)
(* screen.  The cursor is in the text, never above or left of what is      *)
(* shown, and below and right of it by no more than:                       *)
(*  - the empty lines at the ends of a text, which are rows of the pad but *)
(*    not among the lines that bound the scrolling (deploy_ui.py:82, 306); *)
(*  - two columns, as left .. left + max_x - 2 are shown while scrolling   *)
(*    lets the cursor come to left + max_x (deploy_ui.py:160, 308).        *)
EmptyEnds(t) == Rows(t) - NumLines(t)
RowsBelow    == Max({0, EmptyEnds(text), EmptyEnds(alternative)})
LastRow      == Max({0, top}) + MaxY
LastColumn   == left + MaxX - 2
CursorFollowed ==
    pc = "ask" /\ Asked /\ SearchMargin <= MaxY =>
        /\ y \in 0 .. Rows(text) /\ x \in 0 .. Cols(text) - 1
        /\ Max({0, top}) <= y /\ y <= LastRow + RowsBelow
        /\ left <= x /\ x <= LastColumn + 2

(* Only the user answers: the pager does not end by itself, if the texts   *)
(* fit on a pad, nothing is found at the end of the widest line (an empty  *)
(* match), neither is shorter than the other can be scrolled (then "a"     *)
(* declines), and the screen is wide enough for the prompt and, once it is *)
(* on, the debug line.                                                     *)
Longer(t, u) == NumLines(t) - MaxY > Rows(u) \/ Cols(t) - MaxX >= Cols(u)
Shown(t) == ~NoPad(t) /\ ~TooLong(t) /\ \A h \in HitsOf(t) : h[2] < Cols(t)
Alike    == Shown(text) /\ Shown(alternative) /\ ~Longer(text, alternative) /\ ~Longer(alternative, text)
Readable == MaxX > PromptLen /\ (debug => MaxX > DebugLen)
UserAnswers == pc = "ask" /\ Alike /\ Readable => answer # Died

(* Windows of tiles do not overlap, on any screen, for any number of       *)
(* devices, and whatever tile was turned to; each is on the screen.        *)
Lines(t) == window[t].top .. window[t].top + window[t].height - 1
TilesFit ==
    state \in {"OK", "WAIT_INPUT"} /\ refresher = "runs" =>
        /\ \A t \in Tiles : Lines(t) \subseteq 0 .. rows - 1
        /\ \A t, u \in Tiles : t # u => Lines(t) \cap Lines(u) = {}

(* Looking at another tile does not lose the results of the deployment     *)
(* nor stop the display, unless there are as many devices as lines.        *)
TabsAreHarmless ==
    pc = "ui raised" \/ refresher = "failed" => count >= rows - 1

(* Every tile has its place, and turning to another is harmless.           *)
TilesStand == TilesFit /\ TabsAreHarmless

(* What the driver said of a device comes to the screen, the refresher and *)
(* the keys in any order, if its tile is there and the user does not leave.*)
Shows(t) == refresher = "failed" \/ window[t] = NoWindow \/ shown[t] = said[t]
EverythingShown == <>[](state \in {"INIT", "CLOSED"} \/ \A t \in Tiles : Shows(t))

(* q typed while wait_for_exit waits ends the waiting, though the          *)
(* refresher reads keys as well.                                           *)
QuitEnds == pc = "wait" /\ "q" \in keys ~> pc \in {"goes on", "ui raised"}
=============================================================================
