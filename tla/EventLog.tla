------------------------------ MODULE EventLog ------------------------------
(***************************************************************************)
(* The evidence log of the sandbox explorer's server: the event bus, the   *)
(* run registry with its bounded delivery buffer, the JSONL recorder, the  *)
(* webhook correlator and the boot-time rehydration, over any number of    *)
(* process lifetimes.                                                      *)
(*                                                                         *)
(*   bus            server/src/engine/bus.ts                               *)
(*   registry       server/src/engine/registry.ts                          *)
(*   recorder       server/src/engine/recorder.ts                          *)
(*   rehydrate      server/src/engine/rehydrate.ts, http/server.ts         *)
(*   correlator     server/src/engine/webhook-correlator.ts                *)
(*                                                                         *)
(* JavaScript runs one handler at a time, so bus.emit with its synchronous *)
(* fan-out (registry, then recorder) is ONE action.  A process can die at  *)
(* any moment, also in the middle of writing a line.                       *)
(***************************************************************************)
EXTENDS Integers, Sequences, FiniteSets

CONSTANTS
  Runs,           \* run ids; numbers, because rehydration orders ties by run_id
  Webhooks,       \* webhook event ids
  Target,         \* [Webhooks -> Runs]: the run a delivery's ids point at
  MaxEvents,      \* the delivery buffer's capacity (maxEvents)
  BackwardClock,  \* TRUE if the wall clock may also be set back
  MaxClock,       \* bound: the wall clock stays in 0..MaxClock
  MaxSteps,       \* bound: [Runs -> Nat], events of a run between its start and end
  MaxCrashes,     \* bound: process deaths
  MaxLossy        \* bound: runs that suffer an unrecoverable write failure

ASSUME RunsAssumption == Runs \subseteq Nat
ASSUME WebhooksAssumption ==
  /\ Target \in [Webhooks -> Runs]
  /\ Webhooks \cap {"started", "step", "passed", "failed"} = {}
ASSUME CapacityAssumption == MaxEvents \in Nat
ASSUME BoundsAssumption ==
  /\ MaxClock \in Nat /\ MaxSteps \in [Runs -> Nat]
  /\ MaxCrashes \in Nat /\ MaxLossy \in Nat
  /\ BackwardClock \in BOOLEAN

(***************************************************************************)
(* A run's events: run.started, the evidence in between ("step": exchanges,*)
(* status changes, assertions...), run.completed with its result, and      *)
(* webhook.received, named by the id of the webhook it reports.            *)
(***************************************************************************)
Verdicts == {"passed", "failed"}
Kinds == {"started", "step"} \cup Verdicts \cup Webhooks
Events == [seq : Nat, run : Runs, kind : Kinds, ts : 0..MaxClock]

(* A run of the registry's map; one without events is not in the map.      *)
RunEntries ==
  [events : Seq(Events), completed : Verdicts \cup {"none"}, rehydrated : BOOLEAN]
NoRun == [events |-> <<>>, completed |-> "none", rehydrated |-> FALSE]

VARIABLES
  phase,     \* "down", "loading" (rehydrating, not yet listening) or "up"
  epoch,     \* the identity clients see; 0 until a process first listens
  clock,     \* the wall clock that stamps events
  nextSeq,   \* bus: the next sequence number
  buffer,    \* registry: the delivery buffer
  dropped,   \* registry: droppedBefore, the highest evicted seq
  runs,      \* registry: the runs map
  pending,   \* rehydrate: recorded lines <<run, index>> not yet ingested
  maxSeq,    \* rehydrate: events renumbered so far, in the end maxSeq
  emitted,   \* correlator: webhook ids that produced a webhook.received
  file,      \* disk: the readable lines of each run's recording, in order
  torn,      \* disk: runs whose recording has an unparseable line after those
  runner,    \* each run's runner: "idle", "active", "done" or "dead"
  log,       \* history: what the registry took in since this process booted
  told,      \* history: the kinds of every event ever emitted, per run
  lossy,     \* history: runs with a line the recorder gave up on
  crashes    \* number of process deaths so far

registryVars == <<buffer, dropped, runs, log>>
diskVars == <<file, torn, lossy>>
vars == <<phase, epoch, clock, nextSeq, buffer, dropped, runs, pending, maxSeq, emitted,
          file, torn, runner, log, told, lossy, crashes>>

-----------------------------------------------------------------------------
(* The registry.                                                           *)

Known(r) == runs[r].events # <<>>

MaxOf(a, b) == IF a > b THEN a ELSE b

(* Fault: the window's edge is one too low after an eviction. *)
EvictedUpToOffByOne(e) == MaxOf(dropped, e.seq - 1)
EvictedUpTo(e) == MaxOf(dropped, e.seq)

(* Fault: one event too many is retained. *)
OverfullLate(s) == Len(s) > MaxEvents + 1
Overfull(s) == Len(s) > MaxEvents

PushDelivery(e) ==
  LET full == Append(buffer, e) IN
  /\ buffer' = IF Overfull(full) THEN Tail(full) ELSE full
  /\ dropped' = IF Overfull(full) THEN EvictedUpTo(Head(full)) ELSE dropped

Entry(e, historical) ==
  [events |-> <<e>>, completed |-> "none", rehydrated |-> historical]

(* run.started (re)creates the entry, any other event of an unknown run is
   an orphan and dropped, run.completed decides the verdict.               *)
Attach(e, historical) ==
  runs' = IF e.kind = "started"
            THEN [runs EXCEPT ![e.run] = Entry(e, historical)]
          ELSE IF Known(e.run)
            THEN [runs EXCEPT ![e.run] =
                    [events |-> Append(@.events, e),
                     completed |-> IF e.kind \in Verdicts THEN e.kind ELSE @.completed,
                     rehydrated |-> @.rehydrated]]
          ELSE runs

Ingest(e, historical) ==
  /\ PushDelivery(e)
  /\ Attach(e, historical)
  /\ log' = Append(log, e)

EventsSince(c) ==
  {buffer[i] : i \in {j \in 1..Len(buffer) : buffer[j].seq > c}}

ResyncNeeded(c) == c < dropped

(* Fault: a recovered run is partial even if its recording has the verdict. *)
StatusPartialFirst(r) ==
  IF ~Known(r) THEN "absent"
  ELSE IF runs[r].rehydrated THEN "partial"
  ELSE IF runs[r].completed # "none" THEN runs[r].completed
  ELSE "running"
(* The status of a run in a snapshot. *)
Status(r) ==
  IF ~Known(r) THEN "absent"
  ELSE IF runs[r].completed # "none" THEN runs[r].completed
  ELSE IF runs[r].rehydrated THEN "partial"
  ELSE "running"

-----------------------------------------------------------------------------
(* The recorder.  A line behind an unparseable one is never read again, so *)
(* only the readable prefix of a file is kept.  A failed append is retried *)
(* once; if the retry fails too, the line is gone and nothing is thrown.   *)

Write(e) ==
  /\ file' = IF e.run \in torn THEN file
             ELSE [file EXCEPT ![e.run] = Append(@, e)]
  /\ UNCHANGED <<torn, lossy>>

GiveUp(e) ==
  /\ e.run \in lossy \/ Cardinality(lossy) < MaxLossy
  /\ lossy' = lossy \cup {e.run}
  /\ UNCHANGED <<file, torn>>

Record(e) == Write(e) \/ GiveUp(e)

-----------------------------------------------------------------------------
(* The bus: assign the number, then notify registry and recorder.          *)

Emit(r, kind) ==
  LET e == [seq |-> nextSeq, run |-> r, kind |-> kind, ts |-> clock] IN
  /\ phase = "up"
  /\ nextSeq' = nextSeq + 1
  /\ Ingest(e, FALSE)
  /\ Record(e)
  /\ told' = [told EXCEPT ![r] = Append(@, kind)]
  /\ UNCHANGED <<phase, epoch, clock, pending, maxSeq, crashes>>

(* The runner emits run.started, evidence, and one run.completed. *)
StartRun(r) ==
  /\ runner[r] = "idle"
  /\ Emit(r, "started")
  /\ runner' = [runner EXCEPT ![r] = "active"]
  /\ UNCHANGED emitted

ObserveStep(r) ==
  /\ runner[r] = "active"
  /\ Len(told[r]) <= MaxSteps[r]
  /\ Emit(r, "step")
  /\ UNCHANGED <<runner, emitted>>

CompleteRun(r, verdict) ==
  /\ runner[r] = "active"
  /\ Emit(r, verdict)
  /\ runner' = [runner EXCEPT ![r] = "done"]
  /\ UNCHANGED emitted

Remember(w) == emitted \cup {w}

(* An accepted delivery that matches a run of the snapshot, live or
   recovered, becomes one webhook.received; the set of ids lives in memory. *)
Correlate(w) ==
  /\ Known(Target[w])
  /\ w \notin emitted
  /\ Emit(Target[w], w)
  /\ emitted' = Remember(w)
  /\ UNCHANGED runner

-----------------------------------------------------------------------------
(* Process death and boot.                                                 *)

(* The process dies; a run's append may be cut in the middle of its line.  *)
Crash ==
  /\ phase # "down"
  /\ crashes < MaxCrashes
  /\ crashes' = crashes + 1
  /\ phase' = "down"
  /\ \/ UNCHANGED torn
     \/ /\ phase = "up"
        /\ \E r \in Runs : Known(r) /\ torn' = torn \cup {r}
  /\ buffer' = <<>> /\ dropped' = 0 /\ log' = <<>>
  /\ runs' = [r \in Runs |-> NoRun]
  /\ pending' = {} /\ maxSeq' = 0 /\ nextSeq' = 1 /\ emitted' = {}
  /\ runner' = [r \in Runs |-> IF runner[r] = "active" THEN "dead" ELSE runner[r]]
  /\ UNCHANGED <<epoch, clock, file, told, lossy>>

(* loadRecordedEvents: the valid prefix of every recording. *)
Boot ==
  /\ phase = "down"
  /\ phase' = "loading"
  /\ pending' = UNION {{<<r, i>> : i \in 1..Len(file[r])} : r \in Runs}
  /\ UNCHANGED <<epoch, clock, nextSeq, registryVars, maxSeq, emitted,
                 diskVars, runner, told, crashes>>

(* The order events are replayed in: timestamp, run_id, position. *)
Line(x) == file[x[1]][x[2]]
Before(x, y) ==
  \/ Line(x).ts < Line(y).ts
  \/ Line(x).ts = Line(y).ts /\ x[1] < y[1]
  \/ Line(x).ts = Line(y).ts /\ x[1] = y[1] /\ x[2] < y[2]

(* Fault: the in-file position no longer breaks ties. *)
FirstWithoutTiebreak(x) ==
  \A y \in pending \ {x} :
    Line(x).ts < Line(y).ts \/ (Line(x).ts = Line(y).ts /\ x[1] <= y[1])
First(x) == \A y \in pending \ {x} : Before(x, y)

(* One turn of hydrate's loop: renumber the next event and take it in. *)
Hydrate ==
  /\ phase = "loading"
  /\ \E x \in pending :
       /\ First(x)
       /\ pending' = pending \ {x}
       /\ maxSeq' = maxSeq + 1
       /\ Ingest([Line(x) EXCEPT !.seq = maxSeq + 1], TRUE)
  /\ UNCHANGED <<phase, epoch, clock, nextSeq, emitted, diskVars, runner, told,
                 crashes>>

(* Fault: the live bus starts at the recovered high-water mark itself. *)
StartSeqAtMax(m) == MaxOf(1, m)
StartSeq(m) == MaxOf(1, m + 1)

(* Fault: a restarted server keeps the identity of the one before. *)
SameEpoch == MaxOf(1, epoch)
FreshEpoch == epoch + 1

(* Rehydration is over: the bus continues above it and the server listens,
   under an identity of its own.                                           *)
Listen ==
  /\ phase = "loading"
  /\ pending = {}
  /\ phase' = "up"
  /\ nextSeq' = StartSeq(maxSeq)
  /\ epoch' = FreshEpoch
  /\ UNCHANGED <<clock, registryVars, pending, maxSeq, emitted, diskVars,
                 runner, told, crashes>>

(* Only an emit reads the clock, so it moves while the server is up. *)
Tick ==
  /\ phase = "up"
  /\ \E t \in 0..MaxClock :
       /\ t > clock \/ (BackwardClock /\ t < clock)
       /\ clock' = t
  /\ UNCHANGED <<phase, epoch, nextSeq, registryVars, pending, maxSeq, emitted,
                 diskVars, runner, told, crashes>>

-----------------------------------------------------------------------------
Init ==
  /\ phase = "down" /\ epoch = 0 /\ clock = 0 /\ nextSeq = 1
  /\ buffer = <<>> /\ dropped = 0 /\ log = <<>>
  /\ runs = [r \in Runs |-> NoRun]
  /\ pending = {} /\ maxSeq = 0 /\ emitted = {}
  /\ file = [r \in Runs |-> <<>>] /\ torn = {} /\ lossy = {}
  /\ runner = [r \in Runs |-> "idle"]
  /\ told = [r \in Runs |-> <<>>]
  /\ crashes = 0

Next ==
  \/ \E r \in Runs : StartRun(r)
  \/ \E r \in Runs : ObserveStep(r)
  \/ \E r \in Runs, v \in Verdicts : CompleteRun(r, v)
  \/ \E w \in Webhooks : Correlate(w)
  \/ Crash
  \/ Boot
  \/ Hydrate
  \/ Listen
  \/ Tick

Spec == Init /\ [][Next]_vars

-----------------------------------------------------------------------------
(* Every variable has its type, the delivery buffer respects its capacity
   (registry.ts, maxEvents) and what rehydration still has to take in are lines
   that exist.                                                                *)
TypeOK ==
  /\ phase \in {"down", "loading", "up"}
  /\ epoch \in Nat /\ clock \in 0..MaxClock
  /\ nextSeq \in Nat /\ maxSeq \in Nat /\ dropped \in Nat /\ crashes \in Nat
  /\ buffer \in Seq(Events) /\ Len(buffer) <= MaxEvents
  /\ log \in Seq(Events)
  /\ runs \in [Runs -> RunEntries]
  /\ pending \subseteq Runs \X Nat
  /\ \A x \in pending : x[2] \in 1..Len(file[x[1]])
  /\ emitted \subseteq Webhooks
  /\ file \in [Runs -> Seq(Events)]
  /\ torn \subseteq Runs /\ lossy \subseteq Runs
  /\ runner \in [Runs -> {"idle", "active", "done", "dead"}]
  /\ told \in [Runs -> Seq(Kinds)]

(* A fetch that is not told to resynchronise is complete: whatever cursor a
   client presents, if it does not predate the evicted window then the buffer
   holds every event after it, those of earlier processes included
   (registry.ts eventsSince/resyncNeeded over pushDelivery's evictions).      *)
DeliveryComplete ==
  phase # "down" =>
    \A c \in 0..Len(log) :
      ~ResyncNeeded(c) =>
        EventsSince(c) = {log[i] : i \in {j \in 1..Len(log) : log[j].seq > c}}

(* No two events a process serves share a number, and numbers follow the order
   of arrival, across the boundary between recovered and live events: a cursor
   taken at any moment separates the events seen from the ones to come.       *)
CursorsSeparate ==
  \A i, j \in 1..Len(log) : i < j => log[i].seq < log[j].seq

(* Evidence survives: a run whose recording has no lost or torn line is shown
   by every later process with all the events it ever had, in the order it had
   them (loadRecordedEvents: "a run's own events never reorder").             *)
EvidenceSurvives ==
  phase = "up" =>
    \A r \in Runs \ (lossy \cup torn) :
      LET shown == runs[r].events IN
      /\ Len(shown) = Len(told[r])
      /\ \A i \in 1..Len(shown) : shown[i].kind = told[r][i]

(* The status contract: the abstract lifecycle of a run, read off the runner
   and the snapshot, is obeyed by every step (RunSnapshot.status over emit,
   crash and rehydration).                                                    *)
Fate(r) ==
  CASE runner[r] = "idle" -> "idle"
    [] runner[r] = "active" -> "running"
    [] runner[r] = "dead" -> "abandoned"
    [] OTHER -> IF \E i \in 1..Len(told[r]) : told[r][i] = "passed"
                  THEN "passed" ELSE "failed"
Lifecycle == INSTANCE RunLifecycle WITH
  online <- phase = "up",
  fate <- [r \in Runs |-> Fate(r)],
  shown <- [r \in Runs |-> IF phase = "up" THEN Status(r) ELSE "offline"],
  damaged <- lossy \cup torn
LifecycleSpec == Lifecycle!Spec

(* The feed contract: seen through its epoch, the numbers of its events and the
   highest number evicted, the log of each process is the abstract feed that
   EventClient is checked against.                                            *)
Feed == INSTANCE EventFeed WITH
  online <- phase = "up",
  len <- IF phase = "up" THEN Len(log) ELSE 0,
  floor <- IF phase = "up" THEN dropped ELSE 0
ImplementsFeed == Feed!FeedSpec

=============================================================================
