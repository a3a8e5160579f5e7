------------------------------- MODULE Replay --------------------------------
(***************************************************************************)
(* Replay in the dashboard: the player (web/src/state/replayPlayer.ts)     *)
(* with its timer, the panel (web/src/components/ReplayPanel.tsx) that     *)
(* loads recordings over the network, and the dashboard that shows the     *)
(* replayed run, if there is one, instead of the live one                  *)
(* (web/src/Dashboard.tsx).                                                *)
(*                                                                         *)
(* A recording is a file that grows while its run lasts.  Its first line   *)
(* is run.started, so every prefix but the empty one shows a run; its line *)
(* Ends[f] is run.completed.  Time is left out: an armed timer may fire at *)
(* any moment, so a speed only matters as a timer armed anew.              *)
(***************************************************************************)
EXTENDS Naturals, FiniteSets, FiniteSetsExt

CONSTANTS
  Files,        \* recordings
  Lines,        \* of each: the lines it has in the end
  Ends,         \* of each: the line of run.completed, beyond Lines if none
  Bad,          \* of each: the line that does not parse, 0 if all do
  None,         \* null
  MaxLoads,     \* bound: loads under way at a time
  MaxCommands   \* bound: things the user does

ASSUME ReplayAssumption ==
  /\ Lines \in [Files -> Nat] /\ Ends \in [Files -> Nat \ {0}] /\ Bad \in [Files -> Nat]
  /\ None \notin Files /\ {MaxLoads, MaxCommands} \subseteq Nat

VARIABLES
  written,    \* lines of each file so far
  listed,     \* the panel's list: the files in it, with `complete'
  selected,   \* the file chosen in the panel
  loads,      \* requests under way, each with the `complete' of its click
  player,     \* the player's state and what it rendered last, a record (see Idle)
  loadedComplete,
  live,       \* a live run is selected, so the panes can show one
  wanted,     \* history: what the user asked to see last
  commands

vars == <<written, listed, selected, loads, player, loadedComplete,
          live, wanted, commands>>

Speeds == {1, 10}
NothingShown == [file |-> None, n |-> 0]

Idle ==
  [runId |-> None, total |-> 0, index |-> 0, playing |-> FALSE, speed |-> 10,
   truncated |-> FALSE,
   timers |-> 0,       \* timeouts pending in the browser
   handle |-> FALSE,   \* the player knows of one of them
   pane |-> NothingShown]   \* what the sink put in the replay store: the first n
                            \* events of a file

Init ==
  /\ written \in {w \in [Files -> 0..Max({Lines[f] : f \in Files})] :
                    \A f \in Files : w[f] \in {0, Lines[f]}}
  /\ listed = {} /\ selected = None /\ loads = {}
  /\ player = Idle /\ loadedComplete = None
  /\ live \in BOOLEAN /\ wanted = "live"
  /\ commands = 0

-----------------------------------------------------------------------------
(* The player, as functions of its state.  Nothing reaches the store but by  *)
(* render(), which each method that moves the index must call itself.        *)

Prefix(p) == IF p.index = 0 THEN NothingShown ELSE [file |-> p.runId, n |-> p.index]

Render(p) == [p EXCEPT !.pane = Prefix(p)]

CancelTimer(p) ==
  [p EXCEPT !.timers = IF p.handle THEN @ - 1 ELSE @, !.handle = FALSE]

ScheduleAgain(p) ==    \* fault: the pending timeout is not cancelled
  IF ~p.playing THEN p
  ELSE IF p.index >= p.total THEN [p EXCEPT !.playing = FALSE]
  ELSE [p EXCEPT !.timers = @ + 1, !.handle = TRUE]

(* At the end playing stops, else one timeout is armed.                     *)
Schedule(p) ==
  LET q == CancelTimer(p)
  IN IF ~p.playing THEN q
     ELSE IF p.index >= p.total THEN [q EXCEPT !.playing = FALSE]
     ELSE [q EXCEPT !.timers = @ + 1, !.handle = TRUE]

Load(p, file, n, cut) ==
  Render([CancelTimer(p) EXCEPT !.runId = file, !.total = n, !.index = 0,
                                !.playing = FALSE, !.truncated = cut])

RewindUnrendered(p) ==    \* fault: the index goes back, the panes stay at the end
  IF p.index >= p.total THEN [p EXCEPT !.index = 0] ELSE p

(* Playing from the end starts over.                                        *)
Rewind(p) ==
  IF p.index >= p.total THEN Render([p EXCEPT !.index = 0]) ELSE p

Play(p) ==
  IF p.total = 0 \/ p.playing THEN p
  ELSE Schedule([Rewind(p) EXCEPT !.playing = TRUE])

Pause(p) == [CancelTimer(p) EXCEPT !.playing = FALSE]

Clamped(p, target) == IF target > p.total THEN p.total ELSE target

SeekUnscheduled(p, target) ==    \* fault: the next step is not armed again
  Render([CancelTimer(p) EXCEPT !.index = Clamped(p, target)])

Seek(p, target) == Schedule(Render([CancelTimer(p) EXCEPT !.index = Clamped(p, target)]))

SetSpeed(p, speed) ==
  IF p.speed = speed THEN p ELSE Schedule([p EXCEPT !.speed = speed])

Reset(p) == Render([CancelTimer(p) EXCEPT !.index = 0, !.playing = FALSE])

(* Everything is forgotten and the sink empties the store.                  *)
Clear(p) == [Idle EXCEPT !.speed = p.speed, !.timers = CancelTimer(p).timers]

(* The callback of a timeout; it takes itself for the one the handle names. *)
Fire(p) ==
  Schedule(Render([p EXCEPT !.timers = @ - 1, !.handle = FALSE, !.index = @ + 1]))

-----------------------------------------------------------------------------
(* Recordings and loads.                                                    *)

Append(f) ==
  /\ written[f] < Lines[f]
  /\ written' = [written EXCEPT ![f] = @ + 1]
  /\ UNCHANGED <<listed, selected, loads, player, loadedComplete, live, wanted, commands>>

Complete(f) == Ends[f] <= written[f]

(* A run completed: the list is fetched again.  The choice stays if it is   *)
(* still there, else the first one is chosen.                               *)
Refresh ==
  /\ listed' = {[file |-> f, complete |-> Complete(f)] : f \in {g \in Files : written[g] > 0}}
  /\ listed' # listed
  /\ \/ /\ \E item \in listed' : item.file = selected
        /\ UNCHANGED selected
     \/ /\ \A item \in listed' : item.file # selected
        /\ \E item \in listed' : selected' = item.file
  /\ UNCHANGED <<written, loads, player, loadedComplete, live, wanted, commands>>

(* The list cannot be fetched: it is empty, the choice stays.               *)
RefreshFails ==
  /\ listed # {}
  /\ listed' = {}
  /\ UNCHANGED <<written, selected, loads, player, loadedComplete, live, wanted, commands>>

(* The lines up to the first that does not parse.                           *)
ReadLines(f) == IF Bad[f] \in 1..written[f] THEN Bad[f] - 1 ELSE written[f]

LabelOfList(load) ==    \* fault: the list of now labels the load of then
  \E item \in listed : item.file = selected /\ item.complete

LabelOf(load) == load.complete

Arrive(load) ==
  LET p == Load(player, load.file, ReadLines(load.file),
                Bad[load.file] \in 1..written[load.file])
  IN /\ load \in loads
     /\ loads' = loads \ {load}
     /\ loadedComplete' = LabelOf(load)
     /\ player' = Play(p)
     /\ UNCHANGED <<written, listed, selected, live, wanted, commands>>

(* The error is shown and what is loaded stays.                             *)
Fail(load) ==
  /\ load \in loads
  /\ loads' = loads \ {load}
  /\ UNCHANGED <<written, listed, selected, player, loadedComplete, live, wanted, commands>>

-----------------------------------------------------------------------------
(* The user.                                                                *)

Command == commands < MaxCommands /\ commands' = commands + 1

Choose ==
  /\ Command
  /\ \E item \in listed : selected' = item.file
  /\ UNCHANGED <<written, listed, loads, player, loadedComplete, live, wanted>>

(* The play button: pause, resume, or load what is chosen.                  *)
TogglePause ==
  /\ Command
  /\ player.playing
  /\ player' = Pause(player)
  /\ UNCHANGED <<written, listed, selected, loads, loadedComplete, live, wanted>>

ToggleResume ==
  /\ Command
  /\ ~player.playing
  /\ player.runId = selected /\ player.total > 0
  /\ player' = Play(player)
  /\ wanted' = "replay"
  /\ UNCHANGED <<written, listed, selected, loads, loadedComplete, live>>

ToggleLoad ==
  /\ Command
  /\ ~player.playing
  /\ ~(player.runId = selected /\ player.total > 0)
  /\ Cardinality(loads) < MaxLoads
  /\ \E item \in listed :
       /\ item.file = selected
       /\ loads' = loads \cup {[file |-> item.file, complete |-> item.complete, n |-> commands]}
  /\ wanted' = "replay"
  /\ UNCHANGED <<written, listed, selected, player, loadedComplete, live>>

Scrub ==
  /\ Command
  /\ player.total > 0
  /\ \E target \in 0..player.total : player' = Seek(player, target)
  /\ wanted' = "replay"
  /\ UNCHANGED <<written, listed, selected, loads, loadedComplete, live>>

ChangeSpeed ==
  /\ Command
  /\ \E s \in Speeds : player' = SetSpeed(player, s)
  /\ UNCHANGED <<written, listed, selected, loads, loadedComplete, live, wanted>>

Restart ==
  /\ Command
  /\ player.runId # None
  /\ player' = Reset(player)
  /\ UNCHANGED <<written, listed, selected, loads, loadedComplete, live, wanted>>

(* A scenario is selected or started: the replay is torn down so that the   *)
(* live run shows (Dashboard's clearReplayView bumps the reset token).      *)
GoLive ==
  /\ Command
  /\ player' = Clear(player)
  /\ loadedComplete' = None
  /\ live' = TRUE /\ wanted' = "live"
  /\ UNCHANGED <<written, listed, selected, loads>>

Tick ==
  /\ player.timers > 0
  /\ player' = Fire(player)
  /\ UNCHANGED <<written, listed, selected, loads, loadedComplete, live, wanted, commands>>

Next ==
  \/ \E f \in Files : Append(f)
  \/ Refresh \/ RefreshFails
  \/ \E load \in loads : Arrive(load) \/ Fail(load)
  \/ Choose \/ TogglePause \/ ToggleResume \/ ToggleLoad
  \/ Scrub \/ ChangeSpeed \/ Restart \/ GoLive
  \/ Tick

Spec == Init /\ [][Next]_vars

(* Timeouts fire; the network and the user owe nothing.                     *)
FairSpec == Spec /\ WF_vars(Tick)

-----------------------------------------------------------------------------
(* The panes: the replayed run wins over the live one.                      *)
Panes == IF player.pane.n > 0 THEN "replay" ELSE IF live THEN "live" ELSE "empty"

IsPartial == player.runId # None /\ (loadedComplete = FALSE \/ player.truncated)

(* Every variable has its type.  While it plays there is exactly one        *)
(* timeout and it is the one the player can cancel; otherwise there is      *)
(* none, so nothing moves on its own (replayPlayer.ts:18-20, 129-150).      *)
TypeOK ==
  /\ written \in [Files -> Nat] /\ \A f \in Files : written[f] <= Lines[f]
  /\ listed \subseteq [file : Files, complete : BOOLEAN]
  /\ selected \in Files \cup {None}
  /\ loads \subseteq [file : Files, complete : BOOLEAN, n : 0..MaxCommands]
  /\ player \in [runId : Files \cup {None}, total : Nat, index : 0..player.total,
                 playing : BOOLEAN, speed : Speeds, truncated : BOOLEAN,
                 timers : Nat, handle : BOOLEAN,
                 pane : [file : Files \cup {None}, n : Nat]]
  /\ player.timers = IF player.playing THEN 1 ELSE 0
  /\ player.handle = player.playing
  /\ loadedComplete \in {None, TRUE, FALSE}

(* The store holds the first `index' events of the recording that is        *)
(* loaded, nothing else: five methods move the index, in whatever order     *)
(* steps, seeks, resets and loads of other recordings come, and each has to *)
(* render again before it returns (replayPlayer.ts:13-17, 141, 165, 173,    *)
(* 189, 203).                                                               *)
StorePrefix == player.pane = Prefix(player)

(* A recording without its end is marked partial, however old the list is   *)
(* that was clicked, whichever load came first and whatever the file became *)
(* in between (ReplayPanel.tsx:147-148, spec.md:385).                       *)
PartialIsMarked ==
  player.runId # None /\ player.total < Ends[player.runId] => IsPartial

(* Playing comes to an end unless the user keeps interfering.               *)
PlaybackEnds == player.playing ~> ~player.playing

(* Said of the reset token: it cancels an in-flight replay, so that the     *)
(* live run the user asked for shows (ReplayPanel.tsx:40, 116-117).         *)
LiveTakesThePanes == wanted = "live" => Panes # "replay"
=============================================================================
