# A verification of the sandbox explorer

TLA+ models of the Straddle sandbox scenario explorer: a Node server that runs
payment scenarios against a sandbox API, records every step as an event, and
serves the events to a browser dashboard. The modules are translated from the
TypeScript; TLC checks them on small instances and TLAPS proves the core of
several of them for every instance. Paths below are relative to the repository
(`PROJECT.json` prefixes them with `src/`).

1. [The system](#1-the-system)
2. [The modules](#2-the-modules)
3. [The runs](#3-the-runs)
4. [The proofs](#4-the-proofs)
5. [What the models disagree with](#5-what-the-models-disagree-with)
6. [What is not modelled](#6-what-is-not-modelled)

## 1. The system

    browser                     server process                      outside
    --------                    ---------------------------------   -----------
    event client  <- HTTP/SSE - routes <- registry <- bus <- runner -> payment API
      |  epoch gate               health     |         |     poller     (or mock)
      v                           webhooks ->correlator-'     client
    event store                   rehydration -> registry     |
      |                                          recorder -> runs/*.jsonl
    views, toasts, replay                                     report

One server process is one JavaScript thread: a handler runs until it awaits, so
every interleaving happens at an `await`, a timer or a request. The process may
die at any moment and be started again; only `runs/*.jsonl` outlives it. The
browser is a second such thread with its own timers and requests in flight.

| component | state | operations | what makes it correct |
|---|---|---|---|
| event bus (`engine/bus.ts`) | next sequence number, subscribers | `emit` with a synchronous fan-out | one number per event, in order of emission, also across a restart |
| run registry (`engine/registry.ts`) | run map, bounded delivery buffer, eviction mark | ingest, hydrate, snapshot, eventsSince, resyncNeeded | a cursor read is complete or says it is not; a status tells the truth |
| recorder (`engine/recorder.ts`) | one file per run | append with one retry | a recording is a prefix of the run; undamaged evidence survives |
| rehydration (`engine/rehydrate.ts`, `http/server.ts`) | lines not yet replayed | valid prefix, sort, renumber, start the bus | events of dead processes come back once, in order, below the new ones |
| webhook correlator (`engine/webhook-correlator.ts`) | ids already emitted | match a delivery, one event for each that matches | evidence reaches its own run, and once |
| routes and SSE (`http/routes.ts`, `http/sse.ts`) | none | snapshot, events since, stream with backfill, health | answers come from one instant of one process |
| event client (`web/src/api.ts`, `state/eventStore.ts`) | epoch gate, cursor, timers, stream, store | hydrate, poll, stream, reconnect, downgrade, upgrade | no silent gap, no mixture of processes, convergence |
| runner (`engine/runner.ts`) | evidence of each run | the calls of a scenario, verdict | evidence is what happened; the verdict follows from it; every run ends |
| poller (`engine/poller.ts`) | start, fast latch; shared rate floor | sleep, take a turn, fetch | bounded by the hard timeout; outages are polled through |
| evaluator, scenario table | none | evaluate the evidence | a verdict is never taken back by what happens later |
| API client (`straddle/client.ts`) | attempt counter | request with retries | one effect per call however often it is sent |
| payout lane (`engine/payout.ts`) | as the runner | customer, paykey, payout, poll | as the runner |
| mock sandbox (`straddle/mock.ts`) | customers, paykeys, charges, payouts | create, read, hold, release, cancel | a settled charge never moves |
| `runScenarios`, report, CLI (`engine/runner.ts`, `engine/report.ts`, `cli.ts`) | collected events, abort signal | batch, abort, report, exit code | no verdict nobody reached; exit code 0 is earned |
| webhook receiver (`http/webhooks.ts`) | bounded inbox, dedup index | checks in order, record, hand over | only trusted deliveries become evidence; duplicates do not |
| shutdown (`http/shutdown.ts`) | closing flag, deadline | drain, exit | exits once, and always |
| event store, projections (`web/src/state/eventStore.ts`, `projections.ts`) | events of each run, what is derived from them, the selection | insert, hydrate, derive, select | the view depends on what has arrived and on nothing else |
| toasts (`components/Toasts.tsx`) | baseline, keys seen | diff the state against the keys | neither a flood nor a gap |
| replay (`state/replayPlayer.ts`, `ReplayPanel.tsx`) | recording, position, timer, loads | load, play, pause, seek, clear | shows a prefix of one recording, one timer, marked if partial |
| config, logging, redaction, views | none | pure functions | |

The behaviours that are hard here: a restart while a client holds a cursor, a
snapshot or an open stream of the dead process; an eviction between two reads;
two transports of the client with requests in flight at the same time; a write
that is lost or torn; a call whose answer is lost after it took effect; a hold
and a release that make the charge's history repeat itself; a hard timeout that
races a late answer; a signal that races the end of a batch; batches, webhooks
and recordings that overlap; a view that is recomputed from events which arrive
twice, late or all at once. `PROJECT.json` lists each hazard at its line, with the
properties that watch it or, for nine of the forty, with the reason why none does.

## 2. The modules

### EventLog (bus, registry, recorder, rehydration, correlator)

`emit` numbers an event and calls the registry and the recorder before it
returns, so it is one action, taken as `StartRun`, `ObserveStep`, `CompleteRun`
(the runner's three kinds of emission) or `Correlate` (an accepted webhook).
`Ingest` is the registry's subscriber: `PushDelivery` appends to the delivery
buffer and moves `dropped` when it evicts; `Attach` maintains the run map and
drops orphans. `Record` writes the line, or gives up after the retry.
`Crash` loses every variable in memory and may cut the line being written, after
which nothing of that file is read again; `Boot`, `Hydrate` and `Listen` are the
three stages of a start. Runs are numbers because rehydration breaks ties by run
id. `log`, `told` and `lossy` are history variables.

Two abstract specifications say what this amounts to. **EventFeed** is what a
client may rely on: an epoch, numbers 1, 2, 3, ..., and a floor below which
nothing can be replayed. **RunLifecycle** is what a reader of run statuses may
rely on: a run runs, ends with one verdict or is abandoned, and a later process
shows it as it ended, or as partial or not at all if its recording is damaged.

### EventClient (the browser's client, against EventFeed)

The client's state is one record `ui`; the code between two awaits is an
operator from `ui` to `ui`, named like the function in `api.ts`, so that a
handler that calls three functions is their composition. A request is sent,
answered from the server's state at that moment (`Serve`) or refused, and
continued when its answer arrives (`CycleStep`, `SseStep`, `HealthStep`). Timers
are counted, not identified: `polls` is the number of armed poll timers and
`handle` says whether `pollTimer` still refers to one. The store remembers for
each number the epoch it came from, which is what a mixture of processes shows
up in. The module EXTENDS EventFeed, whose actions are the server's moves. When the
server dies (`ServerDies`), what it had already sent is in flight: any of its
answers, and the frames it wrote to the stream (`Written`), may still arrive, before
or after the next process answers something else. `base` and `crossed` are history:
which process the snapshot on the screen is of, and whether a later one is trusted.

### ScenarioRun (runner, payout lane, poller, evaluator, client) over Sandbox

`step` is the await the runner is at, `call` its request. A request is sent
(`StartCall`; a poll sleeps and asks for a turn in `PollCycle`, waits for it with
time going by, and is sent in `TurnCome`), takes effect in the sandbox or not
(`Honour`, `Repeat`, `Refuse`, `Drop`), its answer arrives, is lost or is unusable
(`Reply`), and the client retries or hands it to the runner (`Succeed`,
`PollAnswer`, `Fail`, ...). The hard timeout is looked at before the sleep only,
as in the code, so a poll may leave after it. A mutating request carries a key
that is the same for all attempts, and the sandbox answers a key it has honoured
without acting again (observed of the API in `api-notes.md:84`). `Sandbox` is the
charge as the mock implements it: a schedule of entries, actions that freeze the
history so far, a release that replays the schedule from now. All nine scenarios
are there, the live variants of C, D and G, and a payout, which is a run of its
own runner with the same poll loop and observer.

### RateFloor, which implements Turnstile (poller's scheduler)

`waitTurn` chains one promise per caller: the queue is the chain, its head is
the body that is running. `delay` is what is left of the head's sleep, `gate`
how far `nextAllowedAt` is ahead of the wall clock. Both are differences, so
time is not bounded. The wall clock may be set back or forward, which a sleeping
timer does not notice, and a timer may be late. **Turnstile** is what the batch is
promised: turns a gap apart, less what the clock was set forward between the two,
only for those who ask, and for all of them.

### Suite (runScenarios, runPayoutSuite, report, command line, POST /api/runs)

A run is its verdict here, whatever ScenarioRun has inside of it. `lane` says who
hosts the batch: the command line with a serial, a concurrent or a payout batch,
or the server, where batches overlap and a report may be asked for at any time.
What happens between two awaits is one action, so `RunEnds` includes what the
code waiting for that run does next: start another, or build the report. A
`Signal` wins the race of a concurrent batch, is looked at before the next run
of a serial one, and is not looked at by a payout. `Written`, `WriteFails` and
`LoopEmpties` are the ways a process comes to its exit code.

### Receiver (webhook receiver, correlator, shutdown)

A delivery is a request whose body arrives over time (`Connect`, `Handle`,
`Disconnect`). Its handler has no await and is one action, with a disjunct for
each outcome in the order of the checks: too large, not configured, not
verified, not JSON, duplicate, accepted. `RecordEntry` appends to the inbox and
evicts with the dedup index; `Correlate` matches by external id, then by a
resource id in a run's own events, and emits once. The sender may repeat
anything at any time, also before the run exists. `Signal` starts the drain,
which ends with `CloseResolves`, `CloseRejects` or `Deadline`; a signal whose
`once` handler is used up kills. A new process has lost the inbox and the ids,
and has recovered the runs.

### RunView and Dashboard (event store, projections, toasts)

`RunView` has the pure functions: insertion by sequence number, the pairing of
retries in the wire log, the timeline with its provisional node, the derived
state of a run, the latest run of a scenario, the summary, the rail, the rows of
the wire log, the evidence card, the scenario list, the transitions that are
worth a toast. `Dashboard` is the store that applies them to what is delivered,
any stretch of the server's log at any time, and to snapshots; and the toasts,
whose effect runs some time after one or several changes.

### Replay (player, panel, the panes)

The player is a record and its methods are functions on it. Each of the methods
that move it ends with a call of `Render` of its own, as in the code (`Load`,
`Rewind` in play, `Seek`, `Reset`, `Fire`), and what the panes show is a field of
the record that nothing else sets but `clear`. `timers` counts the timeouts in the
browser, `handle` says that the player knows one of them. Loads are requests that
overlap and answer in any order, each with the `complete` flag its click saw;
files grow while their run lasts, and a bad line cuts them. `GoLive` is the reset
token: what the dashboard does when a live run takes the panes.

### Who uses whom

    EventFeed <--- implemented by --- EventLog --- implements ---> RunLifecycle
        ^                                ^
    EventClient (EXTENDS)          EventLogProofs (EXTENDS)
        ^
    EventClientProofs (EXTENDS)
    Sandbox <- ScenarioRun <- ScenarioRunProofs (EXTENDS)
    Turnstile <--- implemented by --- RateFloor <- RateFloorProofs (EXTENDS)
    RunView <- Dashboard <- DashboardProofs (EXTENDS)
    Suite <- SuiteProofs      Receiver <- ReceiverProofs      Replay <- ReplayProofs   (EXTENDS)

A module `MC...` gives its module an instance. Definitions marked *fault* are
plausible mistakes of the code, one for each property; `PROJECT.json` names them
under `mutants`, and each is found by its property under the run's bounds.

## 3. The runs

Every run but the client's four may really stop (a batch is over, all bounds
are used, all polls are over), so those do not check for deadlock.

| run | instance | shows |
|---|---|---|
| EventLogRuns | 2 runs, one with evidence and one with a webhook, buffer of 2, 2 deaths, torn and lost lines | `TypeOK`, `DeliveryComplete`, `CursorsSeparate`, `EvidenceSurvives`, refinement of EventFeed and RunLifecycle |
| ClientPolling | no stream, buffer 2 < 3 events, 3 processes, run-on-demand polls | `NoSilentGap`, `Converges` |
| ClientStream | retries never run out, 2 dropped connections, 3 processes | `NoSilentGap`, `Converges` |
| ClientFallback | retries run out, 1 dropped connection | `TypeOK`, `BackOnStream` |
| ScenarioRuns | 9 scenarios, 3 live variants, a payout; 3 attempts, poll interval 1 or 2 min, timeout 6, 2 min of lag | `EvidenceFaithful`, `VerdictFinal`, `FailureHasCause`, `CreatedOnce`, `TimeoutIsEarned`, `Completes` |
| SuiteRuns | 3 scenarios, 2 of them required, batches of 1 to 3 runs, 5 runs on a server | `VerdictsReached`, `ExitZeroEarned`, `InterruptedEarly`, `ReportsMoveOn`, `CommandEnds` |
| RateFloorTurns | 3 pollers, gap of 3, clock set back by up to 2 or forward | `QueueMatches`, `KeepsFloor` (refinement of Turnstile with its fairness) |
| ReceiverRuns | 3 ids, 2 runs, 3 resources, all modes and defects, inbox of 1, 2 processes | `TypeOK`, `AttachedExactlyOnce`, `EvidenceBelongs`, `ShutdownEnds` |
| DashboardRuns | 3 logs, 2 deliveries, 2 snapshots, 2 clicks | `ViewOrderFree`, `WireLogFaithful`, `SummaryCountsLatest`, `AnnouncedRightly`, `StatusNodesStay`, `ToastedOnce` |
| ReplayRuns | 2 growing recordings, one cut by a bad line, 2 loads at a time, 5 commands | `TypeOK`, `StorePrefix`, `PartialIsMarked`, `PlaybackEnds` |
| ClientLateSnapshot | as ClientPolling, 2 events, 2 processes | `RehydratesAfresh` is violated |
| ReplayLateLoad | as ReplayRuns | `LiveTakesThePanes` is violated |

The bounds are chosen for the interesting cases. EventLog: a buffer smaller than
the number of events (eviction in every long behaviour), two runs so that events
interleave and ties between files occur, a second death so that something
recovered is recovered again, a clock of two values so that timestamps tie. One of
the runs has an event between its start and its end and the other the webhook
(`MaxSteps` is a bound per run), so that each meets a cut and an eviction. The
client: three processes, so that a stale answer can be two processes old.
ScenarioRun: a unit of time is a minute, every schedule of the mock keeps its
order. The timeout is 6, not the default of 10, because a reversal comes 6 minutes
after the creation: without lag it happens just when the last sleep before the
deadline ends, and only the poll after that sleep can see it. The plain schedules
end before the deadline, stalled, held and released ones race with it. The lag is
spent anywhere, all at once or in two places. Suite: the same scenario twice on a
server, in batches that overlap, and a batch with a scenario that is not required.
RateFloor: three pollers, so that a queue of two has an end that is not its head.
Receiver: an inbox of one forgets an id as soon as anything else arrives, and
three deliveries are enough for a repeat after that; a resource of nobody can be
matched wrongly. Dashboard: two deliveries can overlap, be repeated or come in the
wrong order, and two snapshots let the baseline be taken late; the logs have a
reversal with a second run of the scenario, retries of two endpoints that
interleave, and a refused run beside one on hold. Replay: five commands suffice
for two loads, a change of the choice and a return to the live panes.

Constants that select a situation: `RetriesSuffice` lifts the retry limit out of
reach, which leaves the retry counter out of the state; `BackwardClock` (FALSE)
would let the clock of the log be set back, and why it does not is in section 5;
`OnDemand` lets the user start runs. `MaxDrops`, `MaxLoops`,
`MaxLen`, `MaxEpoch`, `MaxSteps`, `MaxCrashes`, `MaxLossy`, `MaxClock`,
`MaxLag`, `MaxRuns`, `MaxJump`, `MaxReceived`, `MaxProcesses`, `Slots`,
`MaxDeliveries`, `MaxHydrations`, `MaxSelections`, `MaxLoads` and `MaxCommands`
are bounds and named so where they are declared.

Fairness. The client: every request is answered or refused, continuations run,
timers fire, a dead connection is noticed, a killed server is started again
(the supervisor outside); all weak, except the epoch frame of a new stream. The
upgrade timer is cleared by a run event only, so on a quiet stream it opens a
new stream every 30 s; it may do so before one is greeted, but as the greeting
takes milliseconds, not every time: strong fairness. For the same reason
`BackOnStream` says again and again, not for ever. Nothing is assumed of users,
publications or deaths. ScenarioRun: the network settles every request one way
or the other (`fetch` rejects in the end) and the runner runs. Suite: every run
ends (what `Completes` shows), the report is written or fails to be, and a
process without work exits; nothing is assumed of signals. RateFloor: time
passes and timers fire, nothing of polls; that nobody starves, the strong
fairness of Turnstile, follows. Receiver: only the deadline's timer is relied
on. Replay: timeouts fire.

## 4. The proofs

Eight modules hold theorems, for every value of the constants. What they assume is
the ASSUME of the module they extend: bounds and the poll policy are naturals,
run ids are numbers, webhook ids are not kinds of events, selections do not
repeat a scenario (`parseScenarioSelection`), a delivery names the run that
created its resource, a line that ends a recording is not line 0, a log numbers
its events upwards and starts and completes a run once, and attempts are numbered
from 1 (`events.ts:63`). TLC evaluates all of
them. Eleven of the listed theorems have a hypothesis besides, named with them
below.

`EventLogProofs`: for any runs, webhooks, buffer capacity and bounds,

- `TypeCorrect`: `Spec => []TypeOK`, with the capacity of the buffer.
- `DeliveryInvariant`: `Spec => []IInv`.
- `DeliveryIsComplete` and `CursorsAlwaysSeparate`: the two safety properties of
  cursors.
- `LogImplementsFeed`: the log implements EventFeed, so what is checked of
  EventClient rests on this server and not on an assumption about it.

`DeliveryComplete` is not inductive: it speaks of the buffer and of the eviction
mark but not of how they relate. `IInv` adds `Numbered` (the events taken in are
numbered 1, 2, 3, ..., the bus continues exactly above them, `maxSeq` counts them
while rehydrating) and `Window` (the buffer is exactly the part of `log` above
`dropped`, and `dropped` is the larger of 0 and the excess over the capacity). One
lemma shows that `Ingest` preserves both for any event with the next number, one
that `Emit` does; each action then only has to show that it passes that number.
The refinement follows because under `IInv` the abstract floor equals `dropped`.

Three more are about recordings, files and several processes, under the hypothesis
`~BackwardClock`: no clock is set back during a run. Without it they are false
(section 5).

- `HistoryInvariant`: a run's history is its runner's (`Lives`), a file has nothing
  that was not told, in the order of the clock, and all of it unless it is damaged
  (`Recordings`), and while a process loads and serves its registry has nothing else
  (`Entries`, `Loading`, `Serving`).
- `EvidenceAlwaysSurvives`: `EvidenceSurvives`.
- `LogImplementsLifecycle`: the log implements RunLifecycle.

`EventClientProofs`: for any number of loops, processes, requests and bounds,

- `TypeCorrect`: `TypeOK`.
- `NeverASilentGap`: `NoSilentGap`, under the hypothesis `OneTransport`: where the
  stream is used its retries suffice, nothing is started on demand and the buffer
  holds the log, so that the client is never sent back to polling. It is what the two
  runs that check the property have; with both transports at work it is false
  (section 5). Answers and frames may outlive their process. What the property
  leaves out is said in it: a client is `Stranded` while the snapshot it shows is of
  an older process than the one it trusts, which section 5 shows to happen. The
  invariant `Sound` says that answers name a process that runs or ran (`Answered`);
  that a client which is hydrated and not stranded holds up to its cursor the log
  of the process its snapshot is of, entirely, with nothing above (`Exact`); and that
  fetches and greeted streams continue at the cursor, of the process that is trusted
  (`Asked`, `Streamed`).

`ScenarioRunProofs`: for every schedule, poll policy, latency and number of
attempts,

- `NothingCreatedTwice`: `CreatedOnce`. On its own it is not inductive; with
  `CreatedUnderKey` (whatever exists has its key honoured) a request that creates
  has a new key, so the resource did not exist. Only `Honour` touches either.
- `TimeoutsAreEarned`: `TimeoutIsEarned`. The invariant `Patient` has, besides what is
  said of `Way` and `Timing` below, that the charge exists while it is polled
  (`Exists`), that an answer under way shows it at a moment since which the run has
  only waited (`Answered`), and that after an answered poll that did not end the loop
  the charge was open at such a moment (`StillOpen`). As the last sleep ends at the
  deadline, that moment is the deadline but for the time waited since.

Three more say what the run reports, under the hypotheses `OrderlyPlans` and
`SettledPlans` on the schedules, which TLC evaluates for those of ScenarioRuns
(`SchedulesFit`): a schedule starts with `created`, is ordered by time, never holds
by itself and never comes back to a status it left (`Orderly`); a status that is
reported more than once stays until watching ends (`RepeatsToTheEnd`); a settled
charge stays as it is, except that a paid one may be reversed where the scenario
does not end with either (`SettledToTheEnd`). The mock's table has these properties
(`mock.ts:137-350`), and without the second the first theorem is false (section 5).

- `EvidenceIsTheTruth`: `EvidenceFaithful`.
- `VerdictIsFinal`: `VerdictFinal`.
- `FailuresHaveCauses`: `FailureHasCause`.

`EvidenceFaithful` is far from inductive: it says nothing of an answer that is
still under way, of what the run does next, or of the form the charge is in. The
invariant `Watch` has, besides the record of the poll loop (`PollClock`): where
each scenario's path leads and what the keys served so far say of it (`Way`); that
until the charge exists the clock has only waited for answers, so that the answer
to its creation cannot show a repeat (`Timing`); the charge's mode as a function
of what was served, with what an action froze and when the schedule starts over
(`Shape`); and that the transitions are the changes of some beginning of the true
history, which an answer under way contains (`Evidence`). The lemmas between are
about histories: waiting only appends to one (`Below`), observing a longer
beginning appends exactly its further changes, and an action or a release keeps
what was told. The observation is a fold, made explicit as in the dashboard's
proofs (`Lists`). The two about verdicts add what is told before the run moves on
(`Told`) and why a call was given up (`Cause`).

`RateFloorProofs`: for any number of pollers, any gap, and a clock that is set back or
forward at any time and by any amount,

- `FloorInvariant`: the queue is exactly the waiting pollers, and what is still to
  be waited, the time since the last turn and what the clock was set forward since
  make at least the gap (`Ahead`).
- `ChainIsQueue`: `QueueMatches`.
- `FloorKept`: every step is a step of Turnstile, the safety part of `KeepsFloor`.
  The gap cannot be read off the turnstile's state alone: `gate` and `delay` are
  what a clock could have made wrong, and the invariant says they are too small by
  no more than the jumps forward since the last turn.

`SuiteProofs`: for any scenarios, selections and overlapping batches,

- `SuiteInvariant`: `Told` (the events collected are what happened and all of
  it), `Founded` (every entry of a report has its events), `Batched` (how far a
  serial or concurrent batch is), `Concluded` (a report of a batch that was not
  interrupted has every run, ended).
- `NoVerdictInvented`, `ZeroIsEarned`, `InterruptionIsEarly`,
  `ReportsOnlyMoveOn`: `VerdictsReached`, `ExitZeroEarned`, `InterruptedEarly`,
  `ReportsMoveOn`. The report is a pure function of the events, so one lemma,
  `Built`, says what it is of any events that tell what happened; the last
  theorem compares two such reports of growing events.

`ReceiverProofs`: for any ids, repetitions, inbox and number of processes,

- `ReceiverInvariant`: `Boxed` (the index is the accepted part of the inbox, and
  entries are of different deliveries, so that evicting one entry takes nothing
  else out of the index), `Remembered` (what this process attached, it remembers;
  nothing is owed that is not attached), `EvidenceBelongs`.
- `IndexIsBounded`, `NothingAttachedTwice`, `EvidenceWhereItBelongs`: `TypeOK`,
  `AttachedExactlyOnce`, `EvidenceBelongs`. The last is inductive as it stands:
  resources reach a run only by a delivery that matched it, and a resource that
  several runs carried would have two owners.

`DashboardProofs`: for any log, and deliveries and snapshots of any stretches of it,

- `ShowsWhatArrived`: `ViewOrderFree`. The store folds a batch into the lists of
  the runs. The prover cannot take induction over data, so the lemmas make the
  function a fold is defined by explicit (`InsertFoldExists`), read it off step by
  step (`InsertFold`) and use induction over a set of numbers (`NatSet`); one
  insertion keeps a list ordered and adds its event (`Inserted`).
- `NeitherFloodNorGap`, `OneToastEach`: `AnnouncedRightly`, `ToastedOnce`. Needed
  besides: `Announcing`, which says that the keys seen are those of what was
  announced, watched or swallowed, that all of it is still shown, and that while a
  baseline is due nothing was announced.
- `NodesArePermanent`: `StatusNodesStay`. The rail and the timeline are folds too
  (`NodesOf`, `RowsAre`); each has one node of each event of its kind, in order,
  so more events only add.
- `SummaryIsOfTheLatest`: `SummaryCountsLatest`. Of the events that started a
  scenario's runs one has the greatest seq, `LatestRun` is its run, and different
  events are of different runs, so that the counts agree.
- `WireLogIsFaithful`: `WireLogFaithful`. The wire log is a fold whose step keeps
  two invariants. `Wired`: every exchange that has arrived has a line and every
  line is of one (`Filed`), lines and entries of an endpoint are in order and do
  not overlap (`InTurn`), a line below another is a retry and a retry heads an
  entry only when it is the first of its endpoint (`Headed`). `Backed`: there is a
  scheduled backoff behind each one pending (`Due`) and behind each line that
  shows one (`Took`), and no backoff is behind two of them; the two maps are not
  in the code, without them the values shown do not say which backoff was taken.
  From these, the exchanges of a row's span are the lines of its entry (`SpanIs`),
  and its retries are counted by a second fold (`RetriesAre`).

`ShowsWhatArrived` and `WireLogIsFaithful` stand as they are; the other four have
the hypothesis `NoneIsNoRun`: None, a model value in the runs, is not the record of
a run.

`ReplayProofs`: for any recordings, loads under way and commands,

- `ReplayInvariant`: the player is settled (one timeout exactly while it plays,
  and then it is not at the end), what is called complete has its last line, and
  what is loaded without a mark has it.
- `OneTimer`, `PanesShowPrefix`, `PartialAlwaysMarked`: `TypeOK`, `StorePrefix`,
  `PartialIsMarked`. A lemma for each method of the player says that it leaves
  the player settled, the panes rendered and the recording alone; `CancelTimer` is
  where the handle matters, and the call of `Render` is what each lemma needs, so a
  method that left it out would not be provable.

Every invariant and every action property that a passing run checks is stated by a
theorem. Model-checked only is liveness: `Converges`, `BackOnStream`, `Completes`,
`CommandEnds`, `ShutdownEnds`, `PlaybackEnds`, and the fairness part of
`KeepsFloor`, which are beyond the prover.

## 5. What the models disagree with

Two runs are refuted, each of a sentence of the repository:

| run | the text | the code |
|---|---|---|
| ClientLateSnapshot | on a mismatch "the poller schedules a full re-hydration" (`api.ts:295`) | `tick` shares the cycle in flight; the snapshot the dead process had sent arrives after the mismatch and is shown under the new epoch (`api.ts:525`, 392-399) |
| ReplayLateLoad | the reset token is bumped "to cancel an in-flight replay" (`ReplayPanel.tsx:40`, 116-117) | a recording still being loaded takes the panes when it arrives (`ReplayPanel.tsx:127`) |

Further disagreements were seen while modelling. Where they bound what the passing
runs and the theorems assume or say, that is named with them.

*Log and recovery.* A webhook accepted again after a restart is emitted again,
as the ids are forgotten and the runs are not (`webhook-correlator.ts:212`
against 21-22). A lost line is not noticed when a later one, `run.completed`,
was written: the run shows as passed, not partial (`recorder.ts:137` against
58-59). Rehydration compares timestamps before positions, so a clock set back
during a run reorders its events at the next boot (`rehydrate.ts:125`;
`BackwardClock` is FALSE).

*The client.* `GET /api/runs` carries no epoch (`routes.ts:134`), and `hydrate` shows
whatever snapshot arrives (`api.ts:353`). A client can so be stranded on the snapshot
of a dead process in two ways: the snapshot was under way when its process died and
arrives after the mismatch was noticed, in a shared cycle (ClientLateSnapshot) or in
an earlier hydration of the stream; or the server restarts after the snapshot and
before the first epoch the client sees, which the gate then adopts as the first
(`api.ts:216-224`, against `docs/spec.md:59`, "discards its state and re-hydrates").
From then on the client trusts the running process, so no answer reports a mismatch,
and only a resynchronisation or another restart ends it. `NoSilentGap` and
`Converges` are stated for a client that is not `Stranded`, and are false without
that. The stream's backfill never asks for a resynchronisation (`routes.ts:215`
against `README.md:69` and `registry.ts:49-51`). A poll cycle in flight outlives the switch to the stream
(`api.ts:446` against 319). A failed upgrade of the stream while a poll timer is
armed leaves two poll loops (`api.ts:414`; `MaxLoops` bounds them).
`client.ts:251` fetches without a timeout; the models let every request settle.
Two snapshots can overlap, one of the poll cycle and one of the stream's upgrade,
and the older one can come last: it takes the cursor back while a request for the
events after the newer one is in flight. If the stream drops just then, the answer
moves the cursor over events the client no longer has (`api.ts:353`; `OneTransport`
excludes it, and so do the two runs that check `NoSilentGap`).

*Runs.* A covered scenario may be partial: `report.ts:64` looks for failed ones
only, so a batch interrupted while every required run is under way has suite
status `passed`, which `docs/spec.md:238` says it has "iff all of A–E are covered
and passed"; the exit code does not go by it (`ExitZeroEarned`). A repeated entry
of a charge's history, skipped when it was seen first, is reported as a change
back to it once the status has changed (`runner.ts:433` against
`api-notes.md:313`), as after a reversal that follows a repeated `pending`. The
first exchange of status 400 or more, also a 503 that was retried, is taken for
the refusal (`eventStore.ts:545-551`, `report.ts:155-161`), while the evidence
card of a live run shows it as passed (`projections.ts:440`). The rate floor is
one for each batch and only for polls (`runner.ts:95`, `payout.ts:107`); the
retries of a poll and all other requests pass it by, while `docs/spec.md:333`
speaks of the process. It is kept on the wall clock, `Date.now()`
(`runner.ts:83`): a clock set forward lets the next turn through at once
(`poller.ts:44`), so two turns are nearer than the gap by up to the step, and by
no more (`KeepsFloor`, `ahead`). A poll may leave after the hard timeout: it waits
for its turn after the last sleep (`poller.ts:102`), and the client sends it again
(`client.ts:238-300`). It is heard if it is answered, which is what
`TimeoutIsEarned` rests on. Ctrl-C during the last serial run or a payout exits
with 0 if all passed; `README.md:36` says non-zero.

*Webhooks and shutdown.* A webhook that comes before its run is never attached,
as the redelivery is a duplicate (`webhook-correlator.ts:217`,
`webhooks.ts:408`). Rejected deliveries, which anybody can send, push accepted
ids out of the dedup index (`webhooks.ts:100`). An open event stream keeps
the drain waiting until the deadline, so a dashboard that is open makes Ctrl-C
exit with 1, and a second Ctrl-C kills (`shutdown.ts:70` against 30-33).

*The dashboard.* A load that arrives after the panel is gone starts a timer. What
happens between a snapshot and the effect that takes the toasts' baseline is
never announced (`Toasts.tsx:88`).

## 6. What is not modelled

- Bodies, headers, masking, wording, layout, argument parsing: data no property
  tells apart.
- A throwing subscriber (caught in `bus.ts`, nothing changes), `stop()` of the
  client and its offline flag, a recording that cannot be opened at boot, routes
  that only read, and the views that only show fields (detail panel, overview,
  webhook view, console, learning layer).
- The components marked `not_modelled` in `PROJECT.json`: the fake clock (tests
  only), configuration, logging and redaction (pure functions of the environment
  and of the text), presentation and knowledge base, scripts and fixtures.
