----------------------------- MODULE ProgressBars -----------------------------
(***************************************************************************)
(* The progress bars of annet/deploy_ui.py: one tile per device and a      *)
(* status line, written by the deploy driver, drawn by the task that       *)
(* refreshes the terminal, and read to the end by wait_for_exit.  These    *)
(* three are coroutines of one event loop: what is between two awaits is   *)
(* one step.                                                               *)
(*                                                                         *)
(* Tiles are numbered as they are made: Status, then devices from 1, and   *)
(* the one that says how many more there are (Dumb).  A tile's window is   *)
(* its first line and its height.  Its contents are what the driver said   *)
(* of the device, or the percent done.  curses keeps what was drawn apart  *)
(* from what is on the screen until it updates the terminal.               *)
(***************************************************************************)
EXTENDS Integers, SequencesExt, FiniteSetsExt

CONSTANTS Screens,      \* heights of the screen
          Counts,       \* numbers of devices
          MinContentHeight,
          Total,        \* commands for each device
          MaxSaid,      \* bound: what the driver says
          MaxKeys       \* bound: keys typed

ASSUME BarsAssumption == /\ Screens \subseteq Nat \ {0} /\ Counts \subseteq Nat \ {0}
                         /\ {MinContentHeight, Total, MaxSaid, MaxKeys} \subseteq Nat /\ Total > 0

VARIABLES rows, count,  \* the height of the screen, and the number of devices,
                        \* 0 before there are progress bars
          state,        \* UiState
          refresher,    \* terminal_refresher_coro: "none", "runs", "failed"
          active,       \* active_tile
          window,       \* tile -> [top, height], or NoWindow
          said,         \* tile -> its contents
          need,         \* tile -> need_draw
          drawn, shown, \* tile -> contents on the virtual and the real screen
          keys, typed   \* keys typed and not read; all keys so far

barVars == <<rows, count, state, refresher, active, window, said, need, drawn, shown, keys, typed>>

Status   == 0
Devices  == 1 .. count
Dumb     == count + 1
Tiles    == 0 .. Dumb
NoWindow == [top |-> 0, height |-> 0]
Nothing  == [iteration |-> 0, total |-> 0, lines |-> 0]

-----------------------------------------------------------------------------
(* make_tiles.  The last line is the status.                               *)
Mode == CASE (rows - 1) \div count > MinContentHeight -> "UNIFORM"
          [] (rows - 1) \div count <= MinContentHeight /\ rows - 1 - count > MinContentHeight -> "ONE_CONTENT"
          [] OTHER -> "NO_CONTENT"

Height(d) == CASE Mode = "UNIFORM"     -> (rows - 1) \div count
               [] Mode = "ONE_CONTENT" -> IF d = active THEN rows - count ELSE 1
               [] Mode = "NO_CONTENT"  -> 1

(* Mutants of HasRoom: no line is kept for "... more", or one too many.    *)
HasRoomForAll(d) == d <= rows - 1
HasRoomForLess(d) == d < rows - 2 \/ Mode # "NO_CONTENT"
HasRoom(d)       == d < rows - 1 \/ Mode # "NO_CONTENT"

Above(height, d) == LET above[e \in 1 .. d] == IF e = 1 THEN 0 ELSE above[e - 1] + height[e - 1] IN above[d]
MadeWindows ==
    LET height == [d \in Devices |-> Height(d)]
    IN [t \in Tiles |->
           CASE t = Status -> [top |-> rows - 1, height |-> 1]
             [] t \in Devices -> IF HasRoom(t) THEN [top |-> Above(height, t), height |-> height[t]] ELSE NoWindow
             [] t = Dumb -> IF Mode = "NO_CONTENT" /\ count >= rows - 1 /\ rows > 1 THEN [top |-> rows - 2, height |-> 1] ELSE NoWindow]

BarsInit ==
    /\ rows = 0 /\ count = 0
    /\ state = "INIT" /\ refresher = "none"
    /\ active = 0
    /\ window = <<>> /\ said = <<>> /\ need = <<>> /\ drawn = <<>> /\ shown = <<>>
    /\ keys = {} /\ typed = 0

(* __init__, init, twice, and start_terminal_refresher.                    *)
Start == /\ rows' \in Screens /\ count' \in Counts
         /\ state' = "OK" /\ refresher' = "runs"
         /\ active' = count'
         /\ window' = MadeWindows'
         /\ said' = [t \in Tiles' |-> Nothing] /\ need' = [t \in Tiles' |-> TRUE]
         /\ drawn' = said' /\ shown' = said'
         /\ UNCHANGED <<keys, typed>>

-----------------------------------------------------------------------------
(* set_status: the percent of all commands of devices that were begun.     *)
Sum(f) == LET upTo[d \in 0 .. count] == IF d = 0 THEN 0 ELSE upTo[d - 1] + f[d] IN upTo[count]
StatusSaid == LET total == Sum([d \in Devices |-> said[d].total])  done == Sum([d \in Devices |-> said[d].iteration])
              IN [iteration |-> IF total > 0 THEN (100 * done) \div total ELSE 0, total |-> 100, lines |-> 0]

(* The rest of refresh_all: the terminal is updated with what was drawn,   *)
(* then tiles are drawn.  That the last one is refreshed twice does not    *)
(* update it again: the first time takes its mark.                         *)
DrawTiles(win, marked) ==
    LET now  == [said EXCEPT ![Status] = StatusSaid]
        mark == {t \in Tiles : need[t] \/ t \in marked \/ now[t] # said[t]}
        show == {t \in mark : win[t] # NoWindow}
    IN /\ said' = now
       /\ drawn' = [t \in Tiles |-> IF t \in show THEN now[t] ELSE drawn[t]]
       /\ need' = [t \in Tiles |-> t \in mark \ show]
(* A mutant of Draw: only the virtual screen is drawn on.                  *)
DrawVirtual(win, marked, again) == DrawTiles(win, marked) /\ UNCHANGED shown
Draw(win, marked, again) == DrawTiles(win, marked) /\ shown' = IF again THEN drawn' ELSE drawn

(* _set_active_tile: the tile gets all lines that the titles of the others *)
(* leave.  It raises at a tile without a window, or without a line left.   *)
ActiveHeight(d, a) == IF d = a THEN rows - count ELSE 1
TabRaises == rows <= count \/ \E d \in Devices : window[d] = NoWindow
Broken(a) == Min({d \in Devices : window[d] = NoWindow \/ ActiveHeight(d, a) <= 0})
Relaid(a) == LET height == [d \in Devices |-> ActiveHeight(d, a)]
             IN [t \in Tiles |-> IF t \in Devices /\ (TabRaises => t < Broken(a))
                                 THEN [top |-> Above(height, t), height |-> height[t]] ELSE window[t]]
Turned(read) == LET turn == (IF "tab" \in read THEN 1 ELSE 0) - (IF "backtab" \in read THEN 1 ELSE 0)
                IN ((active - 1 + turn) % count) + 1
Turns(read) == read \cap {"tab", "backtab"} # {}

(* Keys that turn to another tile, and the refresh_all in them; another    *)
(* one after it (again) updates the terminal.                              *)
Turn(read, again) ==
    LET both == {"tab", "backtab"} \subseteq read
    IN IF TabRaises
       THEN /\ active' = IF "tab" \in read THEN (active % count) + 1 ELSE ((active - 2) % count) + 1
            /\ window' = Relaid(active')
            /\ need' = [t \in Tiles |-> need[t] \/ (t \in Devices /\ t < Broken(active'))]
            /\ UNCHANGED <<said, drawn, shown>>
       ELSE /\ active' = Turned(read)
            /\ window' = Relaid(active')
            /\ Draw(window', Devices, again \/ both)

-----------------------------------------------------------------------------
(* The driver and the user.                                                *)
SaidBefore == Sum([d \in Devices |-> said[d].iteration + said[d].lines + (IF said[d].total > 0 THEN 1 ELSE 0)])
Say(d, what) == /\ SaidBefore < MaxSaid
                /\ said' = [said EXCEPT ![d] = what]
                /\ need' = [need EXCEPT ![d] = TRUE]
                /\ UNCHANGED <<rows, count, state, refresher, active, window, drawn, shown, keys, typed>>

(* set_progress *)
SetProgress(d) == /\ said[d].iteration < Total
                  /\ Say(d, [said[d] EXCEPT !.iteration = IF said[d].total = 0 THEN 0 ELSE @ + 1, !.total = Total])
(* set_exception ends the bar, and adds the error.                         *)
SetException(d) == /\ said[d].iteration < Total
                   /\ Say(d, [iteration |-> Total, total |-> Total, lines |-> 1])
(* add_content *)
AddContent(d) == said[d].lines = 0 /\ Say(d, [said[d] EXCEPT !.lines = 1])

Type(key) == /\ state # "CLOSED" /\ typed < MaxKeys
             /\ keys' = keys \cup {key} /\ typed' = typed + 1
             /\ UNCHANGED <<rows, count, state, refresher, active, window, said, need, drawn, shown>>

(* _terminal_refresher, one round.  While the driver works it reads keys,  *)
(* q among them; an exception ends the task, and nobody is told.           *)
Refresh ==
    /\ refresher = "runs" /\ state # "CLOSED"
    /\ UNCHANGED <<rows, count, state, typed>>
    /\ \/ /\ state = "OK" /\ Turns(keys)
          /\ Turn(keys, TRUE)
          /\ keys' = {}
          /\ refresher' = IF TabRaises THEN "failed" ELSE "runs"
       \/ /\ state = "OK" => ~Turns(keys)
          /\ Draw(window, {}, FALSE)
          /\ keys' = IF state = "OK" THEN {} ELSE keys
          /\ UNCHANGED <<active, window, refresher>>

(* A mutant of Wait: who waits does not tell the refresher.                *)
WaitUntold == UNCHANGED barVars

(* wait_for_exit begins.                                                   *)
Wait == /\ state' = "WAIT_INPUT"
        /\ UNCHANGED <<rows, count, refresher, active, window, said, need, drawn, shown, keys, typed>>

(* One round of it that does not end it.                                   *)
ReadOn == /\ Turns(keys) /\ ~TabRaises /\ "q" \notin keys
          /\ Turn(keys, FALSE)
          /\ keys' = {}
          /\ UNCHANGED <<rows, count, state, refresher, typed>>

(* The round that reads q: then stop_curses and stop_terminal_refresher.   *)
Quit == /\ "q" \in keys /\ (Turns(keys) => ~TabRaises)
        /\ IF Turns(keys) THEN Turn(keys, FALSE) ELSE UNCHANGED <<active, window, said, need, drawn, shown>>
        /\ state' = "CLOSED" /\ refresher' = "none" /\ keys' = {}
        /\ UNCHANGED <<rows, count, typed>>

(* An exception passes: stop_curses alone.                                 *)
CloseRaising == /\ state' = "CLOSED" /\ keys' = {}
                /\ UNCHANGED <<rows, count, refresher, active, window, said, need, drawn, shown, typed>>
=============================================================================
