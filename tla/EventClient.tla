---------------------------- MODULE EventClient -----------------------------
(***************************************************************************)
(* The dashboard's event client (web/src/api.ts: createEpochGate,          *)
(* createEventPoller; web/src/state/eventStore.ts) against the server's    *)
(* feed (EventFeed): hydration from a snapshot that carries no epoch,      *)
(* cursor polling, the SSE stream with reconnect, downgrade and upgrade,   *)
(* and the health poll that also feeds the epoch gate.                     *)
(*                                                                         *)
(* Each await splits a function in two: the request is sent, the server    *)
(* answers from the state it then has, and the continuation runs when the  *)
(* answer arrives.  Code between two awaits is one transformer of the      *)
(* client's state `ui'.                                                    *)
(***************************************************************************)
EXTENDS EventFeed, FiniteSets

CONSTANTS
  MaxLen,        \* bound: events of one process lifetime
  MaxEpoch,      \* bound: process lifetimes
  UseSse,        \* an EventSource is available
  MaxRetries,    \* sseMaxRetries
  RetriesSuffice, \* sseMaxRetries is larger than any series of failures
  OnDemand,      \* the user may start runs, which polls at once (Dashboard)
  MaxDrops,      \* bound: stream connections lost while the server lives
  MaxLoops       \* bound: poll loops after which no upgrade is tried offline

ASSUME ClientAssumption ==
  /\ {UseSse, RetriesSuffice, OnDemand} \subseteq BOOLEAN
  /\ {MaxLen, MaxEpoch, MaxRetries, MaxDrops, MaxLoops} \subseteq Nat

VARIABLES
  ui,     \* the client's state, a record (see UiInit)
  drops   \* stream connections lost so far

vars == <<feedVars, ui, drops>>

(* Requests in flight: one poll cycle (tick shares it), the hydrations of at
   most two startSse calls, and one health check.                          *)
SseCalls == {"sse1", "sse2"}
Slots == {"cycle", "health"} \cup SseCalls
NoRequest == [st |-> "none", kind |-> "none", since |-> 0, ep |-> 0, n |-> 0,
              resync |-> FALSE]
NoSource == [st |-> "none", ep |-> 0, pos |-> 0, sent |-> 0]
Nums == 1..MaxLen

UiInit ==
  [gate |-> 0,            \* createEpochGate: the epoch trusted, 0 for null
   cursor |-> 0, hydrated |-> FALSE,
   mode |-> "polling",
   polls |-> 0,           \* armed poll timers
   handle |-> FALSE,      \* pollTimer refers to one of them
   waiting |-> 0,         \* loop() calls waiting for the tick in flight
   reconnect |-> FALSE, upgrade |-> FALSE,
   failures |-> 0,        \* sseFailures, counted up to MaxRetries + 1
   source |-> NoSource,   \* "connecting", "open" (accepted) or "greeted"
   store |-> [i \in Nums |-> 0],  \* the epoch of the event held as number i
   req |-> [s \in Slots |-> NoRequest],
   (* History: the epoch the snapshot shown came from, and whether a later
      epoch had been, or was then, trusted without another snapshot.       *)
   base |-> 0, crossed |-> FALSE]

-----------------------------------------------------------------------------
(* The epoch gate, the store, hydration.                                   *)

Adopt(u, ep) ==
  [u EXCEPT !.gate = ep,
            !.crossed = @ \/ (u.gate = 0 /\ u.hydrated /\ u.base < ep)]

(* Fault: a later epoch is adopted without being noticed. *)
MismatchUnnoticed(u, ep) == FALSE
Mismatch(u, ep) == u.gate # 0 /\ u.gate # ep

Send(u, slot, kind, since) ==
  [u EXCEPT !.req[slot] =
     [NoRequest EXCEPT !.st = "sent", !.kind = kind, !.since = since]]
Done(u, slot) == [u EXCEPT !.req[slot] = NoRequest]

Invalidate(u) == [u EXCEPT !.cursor = 0, !.hydrated = FALSE]

(* insert: an event whose number is already held is a duplicate. *)
Insert(u, ep, from, to) ==
  [u EXCEPT !.store =
     [i \in Nums |-> IF i \in from..to /\ u.store[i] = 0 THEN ep ELSE u.store[i]]]

(* Fault: the cursor does not follow a snapshot that is shorter. *)
SnapshotCursorKept(u, r) == IF r.n > u.cursor THEN r.n ELSE u.cursor
SnapshotCursor(u, r) == r.n

(* Whatever epoch the gate trusts by now: the snapshot names none. *)
Hydrate(u, r) ==
  [u EXCEPT !.base = r.ep, !.crossed = r.ep < u.gate,
            !.cursor = SnapshotCursor(u, r), !.hydrated = TRUE,
            !.store = [i \in Nums |-> IF i <= r.n THEN r.ep ELSE 0]]

MaxOf(a, b) == IF a > b THEN a ELSE b

-----------------------------------------------------------------------------
(* The poll loop and its timers.                                           *)

Tick(u) ==
  IF u.req["cycle"].st # "none" THEN u
  ELSE IF u.hydrated THEN Send(u, "cycle", "events", u.cursor)
  ELSE Send(u, "cycle", "first", 0)

Loop(u) == IF u.mode # "polling" THEN u
           ELSE LET v == Tick(u) IN [v EXCEPT !.waiting = @ + 1]

(* The cycle settles and every loop waiting for it arms a timer of its own. *)
CycleDone(u) ==
  LET v == Done(u, "cycle") IN
  IF u.mode = "polling" /\ u.waiting > 0
    THEN [v EXCEPT !.polls = @ + u.waiting, !.handle = TRUE, !.waiting = 0]
    ELSE [v EXCEPT !.waiting = 0]

ClearPollTimer(u) ==
  IF u.handle THEN [u EXCEPT !.polls = @ - 1, !.handle = FALSE] ELSE u

(* Fault: the old stream is left open. *)
CloseSourceNot(u) == u
CloseSource(u) == [u EXCEPT !.source = NoSource]

EnterPolling(u) ==
  LET v == Loop([CloseSource(u) EXCEPT !.reconnect = FALSE, !.mode = "polling"])
  IN [v EXCEPT !.upgrade = TRUE]

(* Failures are counted up to one past the limit, and not at all when the
   limit is out of reach.                                                  *)
CountFailure(n) ==
  IF RetriesSuffice THEN 0 ELSE IF n > MaxRetries THEN n ELSE n + 1

(* Fault: past the retry limit the client just gives up. *)
SseBrokenGiveUp(u) ==
  LET v == [CloseSource(u) EXCEPT !.failures = CountFailure(@)]
  IN [v EXCEPT !.reconnect = @ \/ v.failures <= MaxRetries]
SseBroken(u) ==
  LET v == [CloseSource(u) EXCEPT !.failures = CountFailure(@)]
  IN IF v.failures <= MaxRetries THEN [v EXCEPT !.reconnect = TRUE]
     ELSE EnterPolling(v)

OpenStream(u) ==
  LET v == ClearPollTimer(CloseSource(u)) IN
  [v EXCEPT !.mode = "sse",
            !.source = [NoSource EXCEPT !.st = "connecting", !.pos = v.cursor]]

FreeCalls(u) == {s \in SseCalls : u.req[s].st = "none"}

(* Fault: a stream is opened without a fresh snapshot after an epoch change. *)
StartSseUnhydrated(u) == OpenStream([u EXCEPT !.reconnect = FALSE])
StartSse(u) ==
  LET v == [u EXCEPT !.reconnect = FALSE] IN
  IF v.hydrated THEN OpenStream(v)
  ELSE Send(v, CHOOSE s \in FreeCalls(v) : TRUE, "runs", 0)

(* observeEpoch: an epoch seen in a health response. *)
ObserveEpoch(u, ep) ==
  LET v == Adopt(u, ep) IN
  IF ~Mismatch(u, ep) THEN v
  ELSE IF UseSse THEN StartSse(CloseSource(Invalidate(v)))
  ELSE Tick(Invalidate(v))

-----------------------------------------------------------------------------
(* Requests.                                                               *)

(* The server answers from the state it has at that moment. *)
Serve(s) ==
  /\ online
  /\ ui.req[s].st = "sent"
  /\ ui' = [ui EXCEPT !.req[s] =
              [@ EXCEPT !.st = "answered", !.ep = epoch, !.n = len,
                        !.resync = ui.req[s].since < floor]]
  /\ UNCHANGED <<feedVars, drops>>

Refuse(s) ==
  /\ ~online
  /\ ui.req[s].st = "sent"
  /\ ui' = [ui EXCEPT !.req[s].st = "failed"]
  /\ UNCHANGED <<feedVars, drops>>

(* cycle(), from the await it is waiting at to the next one or its end. *)
FirstSnapshot(u, r) ==
  LET v == Hydrate(u, r) IN Send(v, "cycle", "events", v.cursor)

(* Fault: the resync flag of a response is ignored. *)
EventsArrivedNoResync(u, r) ==
  LET v == Adopt(u, r.ep) IN
  IF Mismatch(u, r.ep) THEN Send(Invalidate(v), "cycle", "again", 0)
  ELSE CycleDone([Insert(v, r.ep, MaxOf(r.since, FloorOf(r.n)) + 1, r.n)
                    EXCEPT !.cursor = MaxOf(@, r.n)])
EventsArrived(u, r) ==
  LET v == Adopt(u, r.ep) IN
  IF Mismatch(u, r.ep) \/ r.resync THEN Send(Invalidate(v), "cycle", "again", 0)
  ELSE IF r.n > r.since
    THEN CycleDone([Insert(v, r.ep, r.since + 1, r.n) EXCEPT !.cursor = MaxOf(@, r.n)])
  ELSE CycleDone(v)

CycleStep ==
  LET r == ui.req["cycle"] IN
  /\ r.st \in {"answered", "failed"}
  /\ ui' = CASE r.st = "failed" -> CycleDone(ui)
             [] r.st = "answered" /\ r.kind = "first" -> FirstSnapshot(ui, r)
             [] r.st = "answered" /\ r.kind = "events" -> EventsArrived(ui, r)
             [] OTHER -> CycleDone(Hydrate(ui, r))
  /\ UNCHANGED <<feedVars, drops>>

(* startSse() after its hydration. *)
SseStep(s) ==
  LET r == ui.req[s] IN
  /\ r.st \in {"answered", "failed"}
  /\ ui' = IF r.st = "answered" THEN OpenStream(Hydrate(Done(ui, s), r))
           ELSE SseBroken(Done(ui, s))
  /\ UNCHANGED <<feedVars, drops>>

HealthStep ==
  LET r == ui.req["health"] IN
  /\ r.st \in {"answered", "failed"}
  /\ FreeCalls(ui) # {}
  /\ ui' = IF r.st = "answered" THEN ObserveEpoch(Done(ui, "health"), r.ep)
           ELSE Done(ui, "health")
  /\ UNCHANGED <<feedVars, drops>>

-----------------------------------------------------------------------------
(* The stream.  The route writes the epoch frame and eventsSince(since) and
   subscribes to the bus in one go: what left the buffer is skipped.       *)

Accept ==
  /\ online
  /\ ui.source.st = "connecting"
  /\ ui' = [ui EXCEPT !.source =
              [ui.source EXCEPT !.st = "open", !.ep = epoch,
                                !.pos = MaxOf(@, floor)]]
  /\ UNCHANGED <<feedVars, drops>>

Alive == online /\ ui.source.ep = epoch

(* Frames that were written arrive, also after the death of their process. *)
Written == IF Alive THEN len ELSE ui.source.sent

EpochFrame ==
  /\ ui.source.st = "open"
  /\ FreeCalls(ui) # {}
  /\ LET v == Adopt(ui, ui.source.ep) IN
     ui' = IF Mismatch(ui, ui.source.ep) THEN StartSse(Invalidate(CloseSource(v)))
           ELSE [v EXCEPT !.source.st = "greeted"]
  /\ UNCHANGED <<feedVars, drops>>

RunEventFrame ==
  LET seq == ui.source.pos + 1 IN
  /\ ui.source.st = "greeted"
  /\ seq <= Written
  /\ LET v == ClearPollTimer(Insert(ui, ui.source.ep, seq, seq)) IN
     ui' = [v EXCEPT !.failures = 0, !.upgrade = FALSE, !.reconnect = FALSE,
                     !.cursor = MaxOf(@, seq), !.source.pos = seq]
  /\ UNCHANGED <<feedVars, drops>>

(* The connection is refused or ends with its process. *)
StreamDies ==
  /\ \/ ui.source.st = "connecting" /\ ~online
     \/ ui.source.st \in {"open", "greeted"} /\ ~Alive
  /\ ui' = SseBroken(ui)
  /\ UNCHANGED <<feedVars, drops>>

StreamDrops ==
  /\ ui.source.st \in {"open", "greeted"} /\ Alive
  /\ drops < MaxDrops
  /\ drops' = drops + 1
  /\ ui' = SseBroken(ui)
  /\ UNCHANGED feedVars

-----------------------------------------------------------------------------
(* Timers and the user.                                                    *)

(* With several timers armed the one that fires may be the one `pollTimer'
   names or one whose handle was overwritten.                              *)
PollTimer ==
  /\ ui.polls > 0
  /\ \E known \in {ui.handle, ui.handle /\ ui.polls = 1} :
       ui' = Loop([ui EXCEPT !.polls = @ - 1, !.handle = @ /\ ~known])
  /\ UNCHANGED <<feedVars, drops>>

ReconnectTimer ==
  /\ ui.reconnect
  /\ FreeCalls(ui) # {}
  /\ ui' = StartSse(ui)
  /\ UNCHANGED <<feedVars, drops>>

UpgradeTimer ==
  /\ ui.upgrade
  /\ FreeCalls(ui) # {}
  /\ online \/ ui.polls + ui.waiting <= MaxLoops
  /\ ui' = StartSse(ui)
  /\ UNCHANGED <<feedVars, drops>>

HealthTimer ==
  /\ ui.req["health"].st = "none"
  /\ ui' = Send(ui, "health", "health", 0)
  /\ UNCHANGED <<feedVars, drops>>

RunStarted ==
  /\ OnDemand
  /\ ui' = Tick(ui)
  /\ UNCHANGED <<feedVars, drops>>

(* What the process had sent may arrive all the same: of the answers some are
   lost, of the stream its last frames; what it had not answered fails.      *)
ServerDies ==
  /\ epoch < MaxEpoch
  /\ Kill
  /\ \E lost \in SUBSET {s \in Slots : ui.req[s].st = "answered"} :
       ui' = [ui EXCEPT
                !.req = [s \in Slots |->
                           IF s \in lost THEN [@[s] EXCEPT !.st = "failed"] ELSE @[s]],
                !.source.sent = IF ui.source.st \in {"open", "greeted"} /\ Alive
                                  THEN len ELSE @]
  /\ UNCHANGED drops

ServerBoots ==
  /\ epoch < MaxEpoch
  /\ len' \in 0..MaxLen
  /\ BootFeed
  /\ UNCHANGED <<ui, drops>>
ServerPublishes == len < MaxLen /\ Publish /\ UNCHANGED <<ui, drops>>

-----------------------------------------------------------------------------
(* start(): the dashboard mounts. *)
Init ==
  /\ FeedInit
  /\ drops = 0
  /\ ui = IF UseSse THEN StartSse(UiInit) ELSE Loop(UiInit)

Next ==
  \/ \E s \in Slots : Serve(s)
  \/ \E s \in Slots : Refuse(s)
  \/ CycleStep
  \/ \E s \in SseCalls : SseStep(s)
  \/ HealthStep
  \/ Accept
  \/ EpochFrame
  \/ RunEventFrame
  \/ StreamDies
  \/ StreamDrops
  \/ PollTimer
  \/ ReconnectTimer
  \/ UpgradeTimer
  \/ HealthTimer
  \/ RunStarted
  \/ ServerDies
  \/ ServerBoots
  \/ ServerPublishes

Spec == Init /\ [][Next]_vars

(***************************************************************************)
(* The runtime's fairness: answers arrive, timers fire, a dead connection  *)
(* is noticed, and a killed server is started again.  The epoch frame needs *)
(* strong fairness: an upgrade timer (30 s) may replace a stream before it  *)
(* is greeted (milliseconds), but not every time.  Nothing is assumed of    *)
(* the user, of publications or of deaths.                                  *)
(***************************************************************************)
Fairness ==
  /\ \A s \in Slots : WF_vars(Serve(s)) /\ WF_vars(Refuse(s))
  /\ WF_vars(CycleStep) /\ WF_vars(HealthStep)
  /\ \A s \in SseCalls : WF_vars(SseStep(s))
  /\ WF_vars(Accept) /\ SF_vars(EpochFrame) /\ WF_vars(RunEventFrame)
  /\ WF_vars(StreamDies)
  /\ WF_vars(PollTimer) /\ WF_vars(ReconnectTimer) /\ WF_vars(UpgradeTimer)
  /\ WF_vars(ServerBoots)

FairSpec == Spec /\ Fairness

-----------------------------------------------------------------------------
(* Types; a poll timer that is named exists, and a stream is only held in the
   streaming mode: a downgrade or a restart leaves none open behind it.      *)
Counters == {"polls", "waiting", "failures", "cursor", "gate"}
TypeOK ==
  /\ FeedTypeOK
  /\ drops \in 0..MaxDrops
  /\ DOMAIN ui = DOMAIN UiInit
  /\ \A f \in Counters : ui[f] \in Nat
  /\ ui.store \in [Nums -> 0..MaxEpoch]
  /\ ui.handle => ui.polls > 0
  /\ ui.mode \in {"sse", "polling"}
  /\ ui.source.st # "none" => ui.mode = "sse"

Shown == [i \in Nums |-> IF i <= len THEN epoch ELSE 0]

(* The client shows a snapshot of a process while it trusts a later one it
   has no snapshot of.  A snapshot carries no epoch, so nothing tells it.    *)
Stranded == ui.hydrated /\ ui.crossed

(* No silent gap: a client that is hydrated and trusts the running process
   holds every event of that process up to its cursor, and there none of a
   dead one, unless it is stranded: no answer or frame, however late, opens a
   gap in any other way (api.ts: cursor, epoch gate, resync).                *)
NoSilentGap ==
  online /\ ui.hydrated /\ ui.gate = epoch /\ ~Stranded =>
    \A i \in Nums : i <= ui.cursor => ui.store[i] = epoch

(* However often the server restarted, once it stays up and quiet the
   dashboard shows exactly its events, for good, unless it is stranded
   (docs/spec.md, process identity).                                         *)
Converges == <>[](online /\ (Stranded \/ ui.store = Shown))

(* Said of observeEpoch: on a mismatch the poller schedules a full
   re-hydration; said of the cycle: a fresh snapshot supersedes what is
   dropped.  So a client that discarded what it showed shows next nothing
   older than the process it trusts (api.ts:292-297, 367-373).               *)
RehydratesAfresh ==
  [][ui.base # 0 /\ ~ui.hydrated /\ ui'.hydrated => ui'.base >= ui.gate]_vars

(* The client climbs back: whatever happened to the stream, it is on a live
   stream again later (api.ts: reconnect, downgrade, periodic upgrade).  Not
   "for good": the upgrade timer is cleared by a delivered event only, so it
   keeps replacing a stream on which nothing happens.                        *)
BackOnStream == []<>(ui.source.st = "greeted" /\ Alive)

=============================================================================
