------------------------------ MODULE Dashboard ------------------------------
(***************************************************************************)
(* The live half of the dashboard: the event store that the client feeds   *)
(* (web/src/state/eventStore.ts), the selection (web/src/Dashboard.tsx)    *)
(* and the toasts (web/src/components/Toasts.tsx).                         *)
(*                                                                         *)
(* The client (module EventClient) delivers stretches of the server's log  *)
(* that may overlap, be repeated or leave gaps, and replaces everything by *)
(* a snapshot now and then; its first delivery is a snapshot.  The store   *)
(* answers at once.  The effect of the toasts runs some time after a       *)
(* change and sees the state of that moment, so several changes may be     *)
(* one to it.                                                              *)
(***************************************************************************)
EXTENDS RunView

CONSTANTS
  Logs,            \* logs a server may have, sequences of events by seq
  Runs, Scenarios,
  MaxDeliveries,   \* bound: batches delivered
  MaxHydrations,   \* bound: snapshots delivered
  MaxSelections    \* bound: clicks

ASSUME DashboardAssumption ==
  /\ \A l \in Logs :
       /\ l \in Seq(ToSet(l)) /\ \A e \in ToSet(l) : e.seq \in Nat /\ e.run \in Runs
       /\ \A i, j \in DOMAIN l : i < j => l[i].seq < l[j].seq
       /\ \A e, f \in ToSet(l) :
            e.type = f.type /\ e.type \in {"started", "completed"} /\ e.run = f.run => e = f
       /\ \A e \in ToSet(l) :
            /\ e # None
            /\ e.type = "started" => e.scen \in Scenarios
            /\ e.type = "completed" => e.result \in {"passed", "failed"}
            /\ e.type \in {"review", "exchange"} => e.status # None
            /\ e.type = "exchange" => e.attempt \in Nat \ {0}
  /\ None \notin Nat /\ None \notin Runs /\ None \notin {"passed", "failed"}
  /\ {MaxDeliveries, MaxHydrations, MaxSelections} \subseteq Nat

VARIABLES
  log,             \* the server's
  raw,             \* rawByRun: the events retained of each run
  states,          \* runStates: what was derived from them, None if nothing
  selected,        \* the selected scenario
  hydrationCount,
  dirty,           \* the toasts have not seen the latest state
  baseline,        \* the hydration the toasts compare with
  seen,            \* keys they have seen
  toasts,          \* toasts on the screen
  delivered,       \* history: events delivered since the last snapshot
  hydrated,        \* history: transitions the last snapshot contained
  swallowed,       \* history: transitions seen by taking the baseline
  announced,       \* history: transitions toasted since the last snapshot
  watched,         \* history: ... seen with their scenario selected
  deliveries, selections

store == <<raw, states, selected, hydrationCount>>
toasting == <<baseline, seen, toasts>>
history == <<delivered, hydrated, swallowed, announced, watched>>
vars == <<log, store, dirty, toasting, history, deliveries, selections>>

Init ==
  /\ log \in Logs
  /\ raw = [r \in Runs |-> <<>>]
  /\ states = [r \in Runs |-> None]
  /\ selected = None
  /\ hydrationCount = 0
  /\ dirty = TRUE
  /\ baseline = None /\ seen = {} /\ toasts = {}
  /\ delivered = {} /\ hydrated = {} /\ swallowed = {} /\ announced = {} /\ watched = {}
  /\ deliveries = 0 /\ selections = 0

-----------------------------------------------------------------------------
(* The store.                                                               *)

(* Each event goes to the list of its run.                                  *)
InsertFor(r, list, event) == IF event.run = r THEN InsertEvent(list, event) ELSE list

InsertEach(r, list, events) == FoldLeft(LAMBDA held, e : InsertFor(r, held, e), list, events)

InsertAll(held, events) == [r \in Runs |-> InsertEach(r, held[r], events)]

(* Only the runs something was inserted for are derived again; a batch of   *)
(* duplicates does not even notify.                                         *)
ApplyEvents(events) ==
  /\ raw' = InsertAll(raw, events)
  /\ states' = [r \in Runs |-> IF raw'[r] = raw[r] THEN states[r] ELSE DeriveRun(raw'[r])]
  /\ dirty' = (dirty \/ raw' # raw)

Deliver ==
  /\ hydrationCount > 0
  /\ deliveries < MaxDeliveries
  /\ \E i, j \in DOMAIN log :
       /\ i <= j
       /\ ApplyEvents(SubSeq(log, i, j))
       /\ delivered' = delivered \cup ToSet(SubSeq(log, i, j))
  /\ deliveries' = deliveries + 1
  /\ UNCHANGED <<log, selected, hydrationCount, toasting, hydrated, swallowed,
                 announced, watched, selections>>

(* Everything held is dropped for the snapshot; the selection survives.     *)
Hydrate ==
  /\ hydrationCount < MaxHydrations
  /\ hydrationCount' = hydrationCount + 1
  /\ \E n \in 0..Len(log) :
       /\ raw' = InsertAll([r \in Runs |-> <<>>], SubSeq(log, 1, n))
       /\ delivered' = ToSet(SubSeq(log, 1, n))
  /\ states' = [r \in Runs |-> DeriveRun(raw'[r])]
  /\ hydrated' = ToastTransitions(states')
  /\ swallowed' = {} /\ announced' = {} /\ watched' = {}
  /\ dirty' = TRUE
  /\ UNCHANGED <<log, selected, toasting, deliveries, selections>>

SelectScenario(scen) ==
  /\ selected' = scen
  /\ dirty' = (dirty \/ selected # scen)
  /\ selections' = selections + 1
  /\ UNCHANGED <<log, raw, states, hydrationCount, history, deliveries>>

Select ==
  /\ selections < MaxSelections
  /\ \E scen \in Scenarios : SelectScenario(scen)
  /\ UNCHANGED toasting

-----------------------------------------------------------------------------
(* Toasts.                                                                  *)

KeyOf(t) == <<t.run, t.status, t.seq>>

RebaselinesOnce == baseline = None    \* fault: a snapshot is diffed like a delivery

Rebaselines == baseline # hydrationCount

SeenToasted(fresh, skipped) == seen \cup {KeyOf(t) : t \in fresh}    \* fault: only toasted ones are seen

SeenAfter(fresh, skipped) == seen \cup {KeyOf(t) : t \in fresh \cup skipped}

TakeBaseline ==
  /\ dirty /\ Rebaselines
  /\ baseline' = hydrationCount
  /\ seen' = {KeyOf(t) : t \in ToastTransitions(states)}
  /\ swallowed' = ToastTransitions(states)
  /\ dirty' = FALSE
  /\ UNCHANGED <<log, store, toasts, delivered, hydrated, announced, watched,
                 deliveries, selections>>

Announce ==
  LET unseen == {t \in ToastTransitions(states) : KeyOf(t) \notin seen}
      skipped == {t \in unseen : t.scen = selected}
  IN /\ dirty /\ ~Rebaselines
     /\ seen' = SeenAfter(unseen \ skipped, skipped)
     /\ toasts' = toasts \cup (unseen \ skipped)
     /\ announced' = announced \cup (unseen \ skipped)
     /\ watched' = watched \cup skipped
     /\ dirty' = FALSE
     /\ UNCHANGED <<log, store, baseline, delivered, hydrated, swallowed,
                    deliveries, selections>>

(* After its time, or dismissed by a click.                                 *)
Expire(t) ==
  /\ t \in toasts
  /\ toasts' = toasts \ {t}
  /\ UNCHANGED <<log, store, dirty, baseline, seen, history, deliveries, selections>>

(* A click on the toast selects its scenario and dismisses it.              *)
Click(t) ==
  /\ t \in toasts
  /\ selections < MaxSelections
  /\ SelectScenario(t.scen)
  /\ toasts' = toasts \ {t}
  /\ UNCHANGED <<baseline, seen>>

Next ==
  \/ Deliver \/ Hydrate \/ Select
  \/ TakeBaseline \/ Announce
  \/ \E t \in toasts : Expire(t) \/ Click(t)

Spec == Init /\ [][Next]_vars

-----------------------------------------------------------------------------
(* What the panes show depends on which events have arrived since the last  *)
(* snapshot, not on their order, repetition or batching: each run holds its *)
(* events once, by seq, and what was derived is not stale                   *)
(* (eventStore.ts:13-16, 270-304).                                          *)
ViewOrderFree ==
  \A r \in Runs :
    /\ ToSet(raw[r]) = {e \in delivered : e.run = r}
    /\ \A i, j \in DOMAIN raw[r] : i < j => raw[r][i].seq < raw[r][j].seq
    /\ states[r] = DeriveRun(raw[r])

(* What the entries and the rows made of a run's events have to be.         *)
WireLogOf(events, entries, rows) ==
  LET sent == {e \in ToSet(events) : e.type = "exchange"}
      backoffs == {e \in ToSet(events) : e.type = "retry"}
      places == UNION {{k} \X DOMAIN entries[k].attempts : k \in DOMAIN entries}
      line(p) == entries[p[1]].attempts[p[2]]
      explains(b, p) == /\ b.endpoint \in {entries[p[1]].endpoint, "?"}
                        /\ b.seq < line(p).seq /\ b.attempt = line(p).attempt
                        /\ b.delay = line(p).backoff
      before(e) == {f \in sent : f.endpoint = e.endpoint /\ f.seq < e.seq}
      span(k) == {e \in sent : /\ e.endpoint = rows[k].endpoint /\ e.seq >= rows[k].id
                               /\ \A l \in DOMAIN rows :
                                    rows[l].endpoint = e.endpoint /\ rows[l].id > rows[k].id =>
                                      rows[l].id > e.seq}
  IN /\ {line(p).seq : p \in places} = {e.seq : e \in sent}
     /\ \A p, q \in places : line(p).seq = line(q).seq => p = q
     /\ \A e \in sent, p \in places :
          e.seq = line(p).seq =>
            LET head == entries[p[1]].attempts[1].seq
            IN IF e.attempt = 1 \/ before(e) = {} THEN head = e.seq
               ELSE /\ head < e.seq
                    /\ \A f \in before(e) : f.attempt = 1 => f.seq <= head
     /\ \A p \in places : line(p).backoff # None => \E b \in backoffs : explains(b, p)
     /\ \A p, q \in places :
          p # q /\ line(p).backoff # None /\ line(q).backoff # None =>
            \E b, c \in backoffs : b # c /\ explains(b, p) /\ explains(c, q)
     /\ \A k \in DOMAIN rows :
          /\ \E e \in span(k) : e.status = rows[k].status /\ \A f \in span(k) : f.seq <= e.seq
          /\ Len(rows[k].retries) = Cardinality({e \in span(k) : e.attempt >= 2})

(* The wire log holds every attempt once.  A retry stands below the nearest *)
(* first attempt of its endpoint; it heads an entry of its own only when    *)
(* nothing of that endpoint has arrived before it.  A backoff that is shown *)
(* was scheduled for that attempt, and two lines never show the same one.   *)
(* A row of the pane shows the last answer before the next row of its       *)
(* endpoint, and a line for each retry in between                           *)
(* (eventStore.ts:503-540, projections.ts:481-517).                         *)
WireLogFaithful ==
  \A r \in Materialized(states) :
    WireLogOf(raw[r], states[r].exchanges, WireRows(states[r]))

(* The summary and the chips of the scenario list show, for every scenario, *)
(* the run that started last and no other: a verdict is gone from both as   *)
(* soon as its scenario runs again, and the clock ticks until a verdict is  *)
(* there (eventStore.ts:751-754, 767-781, projections.ts:196-228).          *)
SummaryCountsLatest ==
  LET begun == {e \in delivered : e.type = "started"}
      current == {e \in begun : \A f \in begun : f.scen = e.scen => f.seq <= e.seq}
      ended(res) == {e \in current : \E f \in delivered :
                       f.run = e.run /\ f.type = "completed" /\ f.result = res}
      items == ScenarioItems(states, Scenarios)
  IN /\ Summary(states, Scenarios) =
          [passed |-> Cardinality(ended("passed")), failed |-> Cardinality(ended("failed")),
           covered |-> Cardinality(current),
           allSettled |-> current # {} /\ current = ended("passed") \cup ended("failed")]
     /\ \A e \in current :
          LET verdicts == {res \in {"passed", "failed"} : e \in ended(res)}
          IN /\ items[e.scen].ticking = (verdicts = {})
             /\ items[e.scen].chip \in IF verdicts = {} THEN {"running", "watching"} ELSE verdicts
     /\ \A s \in Scenarios : items[s].chip = "idle" => s \notin {e.scen : e \in begun}

(* A status node is permanent, the amber "paid" of a run that is about to   *)
(* be reversed above all: whatever arrives later, it stays as it is until a *)
(* snapshot replaces everything; the rail has one for each status change    *)
(* that has arrived and none for a webhook, a review or a refusal; and a    *)
(* fact once on the evidence card stays there (eventStore.ts:46-51,         *)
(* 594-599, projections.ts:243-264, 411-446).                               *)
StatusNodesStay ==
  [][hydrationCount' = hydrationCount =>
       \A r \in Materialized(states) :
         LET rail == Rail(states'[r])
             changes == {e \in ToSet(raw'[r]) : e.type = "status"}
         IN /\ r \in Materialized(states')
            /\ ToSet(Rail(states[r])) \subseteq ToSet(rail)
            /\ {row.id : row \in ToSet(rail)} = {e.seq : e \in changes}
            /\ \A i, j \in DOMAIN rail : i < j => rail[i].id < rail[j].id
            /\ DOMAIN EvidenceCard(states[r]) \subseteq DOMAIN EvidenceCard(states'[r])]_vars

(* Neither a flood nor a gap: what a snapshot brought along is never        *)
(* toasted, even if deliveries and further snapshots come in before the     *)
(* toasts look; and once they have looked, every notable transition the     *)
(* store holds was toasted, or seen on the selected scenario, or there when *)
(* the baseline was taken (Toasts.tsx:18-22, 84-103).                       *)
AnnouncedRightly ==
  /\ announced \cap hydrated = {}
  /\ ~dirty => ToastTransitions(states) \subseteq announced \cup watched \cup swallowed

(* A transition is toasted once between two snapshots and never after it    *)
(* was seen on the selected scenario (Toasts.tsx:92-95).                    *)
ToastedOnce ==
  [][\A t \in toasts' \ toasts : t \notin announced \cup watched]_vars
=============================================================================
