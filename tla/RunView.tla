------------------------------- MODULE RunView -------------------------------
(***************************************************************************)
(* What the dashboard derives from the events of a run                     *)
(* (web/src/state/eventStore.ts: insert, deriveRun, buildState,            *)
(* buildSummary, selectToastTransitions).  Everything the panes show is    *)
(* recomputed from the retained events; these are the pure functions, the  *)
(* store that applies them is module Dashboard.                            *)
(*                                                                         *)
(* An event is a record with fields seq, run, type and those of its type:  *)
(*   started   scen, reversal, refusal  (what the scenario def expects)    *)
(*   status    to            review    status       completed  result      *)
(*   retry     endpoint, attempt, delay  ("?" where the endpoint is left   *)
(*             out)          exchange  endpoint, attempt, status           *)
(*   assertion kind, pass    webhook   status, the one it reports          *)
(* An endpoint is a method with a path.  Texts, times and bodies are left  *)
(* out; a successful paykey answer always names the paykey.                *)
(***************************************************************************)
EXTENDS Integers, Sequences, FiniteSets, SequencesExt

CONSTANT None   \* null and undefined

OfType(events, types) == SelectSeq(events, LAMBDA e : e.type \in types)

(* The event a variable that every one of its type overwrites is left with. *)
LastOf(events, type) ==
  LET at == SelectLastInSeq(events, LAMBDA e : e.type = type)
  IN IF at = 0 THEN None ELSE events[at]

InsertAtEnd(list, event) ==    \* fault: events are taken to arrive in order
  IF list # <<>> /\ Last(list).seq = event.seq THEN list ELSE Append(list, event)

(* The place of an event is found from the end; an equal seq met on the way *)
(* makes it a duplicate.                                                    *)
InsertEvent(list, event) ==
  LET at == Max({i \in DOMAIN list : list[i].seq < event.seq} \cup {0})
  IN IF \E i \in DOMAIN list : i > at /\ list[i].seq = event.seq
     THEN list
     ELSE InsertAt(list, at + 1, event)

-----------------------------------------------------------------------------
(* The wire log.                                                            *)

NoWire == [entries |-> <<>>, pending |-> <<>>]

NoteBackoff(pending, event) ==
  LET key == <<event.endpoint, event.attempt>>
  IN [k \in DOMAIN pending \cup {key} |-> IF k = key THEN event.delay ELSE pending[k]]

(* The backoff noted for an attempt: under its endpoint, else without one.  *)
BackoffKeys(pending, event) ==
  LET own == <<event.endpoint, event.attempt>>
  IN IF own \in DOMAIN pending THEN {own} ELSE {<<"?", event.attempt>>} \cap DOMAIN pending

TakeBackoff(pending, event) ==
  LET keys == BackoffKeys(pending, event)
  IN IF keys = {} THEN None ELSE pending[CHOOSE k \in keys : TRUE]

TargetAny(entries, event) ==    \* fault: the attempt number is not looked at
  SelectLastInSeq(entries, LAMBDA x : x.endpoint = event.endpoint)

(* The entry an attempt is a retry of: the last one of its endpoint.        *)
TargetOf(entries, event) ==
  IF event.attempt = 1 THEN 0
  ELSE SelectLastInSeq(entries, LAMBDA x : x.endpoint = event.endpoint)

AddAttempt(entries, event, attempt) ==
  LET target == TargetOf(entries, event)
  IN IF target = 0
     THEN Append(entries, [endpoint |-> event.endpoint, attempts |-> <<attempt>>])
     ELSE [entries EXCEPT ![target].attempts = Append(@, attempt)]

OnExchange(wire, event) ==
  LET attempt == [seq |-> event.seq, attempt |-> event.attempt, status |-> event.status,
                  backoff |-> TakeBackoff(wire.pending, event)]
  IN [entries |-> AddAttempt(wire.entries, event, attempt),
      pending |-> [k \in DOMAIN wire.pending \ BackoffKeys(wire.pending, event) |->
                     wire.pending[k]]]

OnWire(wire, event) ==
  CASE event.type = "retry"    -> [wire EXCEPT !.pending = NoteBackoff(@, event)]
    [] event.type = "exchange" -> OnExchange(wire, event)
    [] OTHER                   -> wire

Exchanges(events) == FoldLeft(OnWire, NoWire, events).entries

-----------------------------------------------------------------------------
(* The lifecycle.                                                           *)

(* The first refused creation, where the scenario expects a refusal.        *)
RefusalOf(events, expected) ==
  LET at == SelectInSeq(events, LAMBDA e : /\ e.type = "exchange"
                                           /\ e.status >= 400
                                           /\ e.endpoint \in {"paykey", "charge"})
  IN IF expected /\ at # 0 THEN events[at] ELSE None

PaykeyOf(events) ==
  LET at == SelectInSeq(events, LAMBDA e : /\ e.type = "exchange"
                                           /\ e.status \in 200..299
                                           /\ e.endpoint = "paykey")
  IN IF at = 0 THEN None ELSE events[at].seq

Node(event, reversal) ==
  [kind |-> IF event.type = "exchange" THEN "refusal" ELSE event.type,
   seq |-> event.seq,
   status |-> IF event.type = "status" THEN event.to ELSE event.status,
   provisional |-> event.type = "status" /\ reversal /\ event.to = "paid"]

Lifecycle(event) == event.type \in {"status", "review"}

TimelineSettled(events, start) ==    \* fault: the provisional node goes when its reversal lands
  LET shown == SelectSeq(events, LAMBDA e : /\ Lifecycle(e)
                                            /\ e = Last(events) \/ ~(start.reversal /\ e.type = "status"))
  IN [i \in DOMAIN shown |-> Node(shown[i], start.reversal)]

(* A status change, a review and the refusal get a node, in their order.   *)
Push(nodes, event, reversal, refusal) ==
  IF Lifecycle(event) \/ event = refusal THEN Append(nodes, Node(event, reversal)) ELSE nodes

Nodes(events, reversal, refusal) ==
  FoldLeft(LAMBDA nodes, e : Push(nodes, e, reversal, refusal), <<>>, events)

Timeline(events, start) == Nodes(events, start.reversal, RefusalOf(events, start.refusal))

LatestStatus(events) ==
  IF LastOf(events, "status") = None THEN None ELSE LastOf(events, "status").to

ResultOf(events) ==
  IF LastOf(events, "completed") = None THEN None ELSE LastOf(events, "completed").result

ReviewOf(events) ==
  IF LastOf(events, "review") = None THEN None ELSE LastOf(events, "review").status

Watching(events, start) ==
  start.reversal /\ ResultOf(events) = None /\ LatestStatus(events) = "paid"

Chip(events, start) ==
  IF ResultOf(events) # None THEN ResultOf(events)
  ELSE IF Watching(events, start) THEN "watching" ELSE "running"

RunState(events, start) ==
  [scen |-> start.scen, startedSeq |-> start.seq,
   result |-> ResultOf(events), chip |-> Chip(events, start),
   watching |-> Watching(events, start), latest |-> LatestStatus(events),
   timeline |-> Timeline(events, start), exchanges |-> Exchanges(events),
   assertions |-> OfType(events, {"assertion"}), webhooks |-> OfType(events, {"webhook"}),
   expectsRefusal |-> start.refusal, review |-> ReviewOf(events),
   paykey |-> PaykeyOf(events), refusal |-> RefusalOf(events, start.refusal)]

(* A run is nothing until its run.started is there.                         *)
DeriveRun(events) ==
  LET first == SelectInSeq(events, LAMBDA e : e.type = "started")
  IN IF first = 0 THEN None ELSE RunState(events, events[first])

-----------------------------------------------------------------------------
(* All runs together.  states maps each run to what DeriveRun gave.         *)

Materialized(states) == {r \in DOMAIN states : states[r] # None}

RunsOf(states, scen) == {r \in Materialized(states) : states[r].scen = scen}

EarliestRun(states, scen) ==    \* fault: the first run instead of the latest
  IF RunsOf(states, scen) = {} THEN None
  ELSE CHOOSE r \in RunsOf(states, scen) :
         \A q \in RunsOf(states, scen) : states[r].startedSeq <= states[q].startedSeq

(* Run by run in the order of their starts, the last one is kept.           *)
LatestRun(states, scen) ==
  IF RunsOf(states, scen) = {} THEN None
  ELSE CHOOSE r \in RunsOf(states, scen) :
         \A q \in RunsOf(states, scen) : states[q].startedSeq <= states[r].startedSeq

Summary(states, scenarios) ==
  LET latest == {LatestRun(states, s) : s \in scenarios} \ {None}
      chips(c) == Cardinality({r \in latest : states[r].chip = c})
  IN [passed |-> chips("passed"), failed |-> chips("failed"), covered |-> Cardinality(latest),
      allSettled |-> latest # {} /\ \A r \in latest : states[r].result # None]

-----------------------------------------------------------------------------
(* What the panes show of a run (web/src/state/projections.ts), without the *)
(* notes of the learning layer.                                             *)

NodeKind(node) ==
  CASE node.provisional -> "provisional"
    [] node.status \in {"failed", "reversed"} -> "failed"
    [] node.status \in {"paid", "cancelled"} /\ ~node.provisional -> node.status
    [] OTHER -> "inflight"

(* The rail has the status nodes only.                                      *)
OnRail(rail, node) ==
  IF node.kind # "status" THEN rail
  ELSE Append(rail, [id |-> node.seq, status |-> node.status, kind |-> NodeKind(node)])

Rail(run) == FoldLeft(OnRail, <<>>, run.timeline)

(* A line for each retry below a row, with the backoff that preceded it.    *)
OnRetry(lines, a) ==
  IF a.attempt < 2 THEN lines
  ELSE Append(lines, [attempt |-> a.attempt, backoff |-> IF a.backoff = None THEN 0 ELSE a.backoff])

Retries(attempts) == FoldLeft(OnRetry, <<>>, attempts)

(* One row for each exchange: its final attempt, the retries below it.      *)
WireRows(run) ==
  [k \in DOMAIN run.exchanges |->
     LET x == run.exchanges[k]
     IN [id |-> x.attempts[1].seq, endpoint |-> x.endpoint, status |-> Last(x.attempts).status,
         retries |-> Retries(x.attempts)]]

(* What the evaluator said of an observation, before that what was seen.    *)
PassOf(run, kind, seen) ==
  LET said == SelectSeq(run.assertions, LAMBDA a : a.kind = kind)
  IN IF said = <<>> THEN seen ELSE said[1].pass

(* The card of a scenario that expects a refusal: a rejected customer, and  *)
(* the refusal of what was tried for it.                                    *)
EvidenceCard(run) ==
  LET rows == [customer_review |->
                 [pass |-> PassOf(run, "customer_review", run.review = "rejected"),
                  seen |-> run.review],
               api_refusal |->
                 [pass |-> PassOf(run, "api_refusal", TRUE),
                  seen |-> IF run.refusal = None THEN None ELSE run.refusal.status]]
  IN [kind \in {k \in DOMAIN rows : run.expectsRefusal /\ rows[k].seen # None} |-> rows[kind]]

(* The chips of the scenario list.                                          *)
ScenarioItems(states, scenarios) ==
  [s \in scenarios |->
     LET r == LatestRun(states, s)
     IN IF r = None THEN [chip |-> "idle", ticking |-> FALSE]
        ELSE [chip |-> states[r].chip, ticking |-> states[r].result = None]]

Notable == {"paid", "failed", "reversed", "cancelled", "on_hold"}

(* Keys of the transitions that are worth a toast.                          *)
ToastTransitions(states) ==
  UNION {{[run |-> r, status |-> n.status, seq |-> n.seq, scen |-> states[r].scen]
            : n \in {m \in ToSet(states[r].timeline) : m.kind = "status" /\ m.status \in Notable}}
          : r \in Materialized(states)}
=============================================================================
