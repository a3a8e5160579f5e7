------------------------------- MODULE Receiver -------------------------------
(***************************************************************************)
(* The webhook receiver (server/src/http/webhooks.ts) with the correlator  *)
(* behind it (engine/webhook-correlator.ts), in a process that is shut     *)
(* down by signals (http/shutdown.ts) and started again.  A delivery is a  *)
(* request whose body arrives over time; its handler has no await, so it   *)
(* is one action.  The sender repeats deliveries as it likes, also before  *)
(* the run they are about is known, and everybody else may send defective  *)
(* ones.  Webhook ids are numbers, 0 stands for "unknown"; runs are        *)
(* numbered in the order they start; what the recordings hold survives the *)
(* process (EventLog shows when).                                          *)
(***************************************************************************)
EXTENDS Naturals, Sequences, FiniteSets, SequencesExt

CONSTANTS
  Ids,           \* webhook ids the sender uses
  Runs,          \* runs, 1, 2, ...
  Resources,     \* ids of charges, customers and paykeys
  Owner,         \* the run a resource was created by, 0 for a foreign one
  Payload,       \* of each id: [ext |-> external_id or 0, res |-> resource or 0]
  Modes,         \* "signed", "unsigned" and "off"
  Defects,       \* what may be wrong with a delivery, "none" included
  Slots,         \* bound: deliveries in flight at a time
  MaxEntries,    \* capacity of the inbox
  MaxReceived,   \* bound: deliveries handled
  MaxProcesses   \* bound: processes

ASSUME ReceiverAssumption ==
  /\ Ids \subseteq Nat \ {0} /\ \E m \in Ids : \A i \in Ids : m >= i
  /\ Runs \subseteq Nat \ {0} /\ 0 \notin Resources
  /\ Owner \in [Resources -> Runs \cup {0}]
  /\ Payload \in [Ids -> [ext : Runs \cup {0}, res : Resources \cup {0}]]
  /\ Modes \subseteq {"signed", "unsigned", "off"}
  /\ Defects \subseteq {"none", "large", "bare", "forged", "garbled"}
  /\ {MaxEntries, MaxReceived, MaxProcesses} \subseteq Nat /\ MaxEntries >= 1 /\ MaxProcesses >= 1

(* The sender tells the truth: a delivery names no run but the one that     *)
(* created the resource (charges carry the run id as external_id).          *)
ASSUME HonestAssumption ==
  \A i \in Ids :
    Payload[i].ext # 0 /\ Payload[i].res # 0 => Owner[Payload[i].res] = Payload[i].ext

VARIABLES
  mode,          \* how the receiver is configured
  inbox,         \* entries, oldest first
  acceptedById,  \* the dedup index, as the set of entries it maps ids to
  emitted,       \* the correlator's ids
  started,       \* runs the registry knows
  refs,          \* resource ids each run's events carry
  attached,      \* history: webhook.received events
  owed,          \* history: ids that matched a run when they were accepted
  request,       \* of each slot: the delivery in flight
  streams,       \* open event streams of dashboards
  received,      \* deliveries handled so far
  process,       \* number of the process
  server,        \* "up", "closing" or "down"
  handlers,      \* signals whose process.once handler is still there
  exit           \* how the last process ended: "none", "0", "1" or "killed"

core == <<inbox, acceptedById, emitted, attached, owed, received>>
registry == <<started, refs>>
life == <<process, server, handlers, exit>>
vars == <<mode, core, registry, request, streams, life>>

Signals == {"SIGINT", "SIGTERM"}
NoRequest == [id |-> 0, defect |-> "none"]
Fresh == 1 + received + Max(Ids)

Init ==
  /\ mode \in Modes
  /\ inbox = <<>> /\ acceptedById = {} /\ emitted = {}
  /\ started = {} /\ refs = [r \in Runs |-> {}]
  /\ attached = {} /\ owed = {}
  /\ request = [s \in Slots |-> NoRequest]
  /\ streams \in 0..1
  /\ received = 0
  /\ process = 1 /\ server = "up" /\ handlers = Signals /\ exit = "none"

-----------------------------------------------------------------------------
(* Runs, as far as the receiver sees them.                                  *)

RunStarts(r) ==
  /\ server = "up"
  /\ r \notin started
  /\ \A q \in Runs : q < r => q \in started
  /\ started' = started \cup {r}
  /\ UNCHANGED <<mode, core, refs, request, streams, life>>

RunCreates(x) ==
  /\ server = "up"
  /\ Owner[x] \in started
  /\ x \notin refs[Owner[x]]
  /\ refs' = [refs EXCEPT ![Owner[x]] = @ \cup {x}]
  /\ UNCHANGED <<mode, core, started, request, streams, life>>

-----------------------------------------------------------------------------
(* The inbox.                                                               *)

IsDuplicate(id) == \E e \in acceptedById : e.id = id

EvictKeepingIndex(entries, index) ==    \* fault: the index is not kept coherent
  /\ inbox' = IF Len(entries) > MaxEntries THEN Tail(entries) ELSE entries
  /\ acceptedById' = index

(* The oldest entry goes when there are too many, and its id with it.       *)
Evict(entries, index) ==
  IF Len(entries) > MaxEntries
  THEN /\ inbox' = Tail(entries)
       /\ acceptedById' = IF Head(entries).status = "accepted" THEN index \ {Head(entries)} ELSE index
  ELSE /\ inbox' = entries
       /\ acceptedById' = index

Entry(id, status, verified) ==
  [id |-> id, status |-> status, verified |-> verified, n |-> received]

(* What a delivery is, whether or not anybody looks.                        *)
Genuine(q) == q.defect \notin {"bare", "forged"}

RecordEntry(entry) ==
  Evict(Append(inbox, entry),
        IF entry.status = "accepted"
        THEN {e \in acceptedById : e.id # entry.id} \cup {entry}
        ELSE acceptedById)

-----------------------------------------------------------------------------
(* The correlator.                                                          *)

MatchGuess(p) ==    \* fault: what matches nothing goes to the latest run
  IF started = {} THEN 0
  ELSE IF \E r \in started : p.res \in refs[r]
       THEN CHOOSE r \in started : p.res \in refs[r]
       ELSE CHOOSE r \in started : \A q \in started : q <= r

(* By external id first, else by a resource id in a run's own events: the   *)
(* first run that carries it.  0 when there is none.                        *)
MatchOf(p) ==
  LET carriers == {r \in started : p.res \in refs[r]}
  IN IF p.ext \in started THEN p.ext
     ELSE IF carriers = {} THEN 0
     ELSE CHOOSE r \in carriers : \A q \in carriers : r <= q

RememberNothing(id) == emitted' = emitted    \* fault: the id is not remembered

Remember(id) == emitted' = emitted \cup {id}

Seen(id) == id \in emitted

(* One webhook.received for an id that has not had one.  A resource the     *)
(* payload names is from now on carried by the run.                         *)
Correlate(id, p, genuine) ==
  LET run == MatchOf(p)
  IN IF run = 0 \/ Seen(id)
     THEN /\ UNCHANGED <<emitted, attached, refs>>
          /\ owed' = IF run = 0 THEN owed ELSE owed \cup {id}
     ELSE /\ Remember(id)
          /\ attached' = attached \cup {[id |-> id, run |-> run, res |-> p.res, genuine |-> genuine,
                                         process |-> process, n |-> received]}
          /\ refs' = [refs EXCEPT ![run] = @ \cup ({p.res} \ {0})]
          /\ owed' = owed \cup {id}

-----------------------------------------------------------------------------
(* Deliveries.                                                              *)

Connect(s) ==
  /\ server = "up"
  /\ request[s] = NoRequest
  /\ received + Cardinality({t \in Slots : request[t] # NoRequest}) < MaxReceived
  /\ \E i \in Ids, d \in Defects : request' = [request EXCEPT ![s] = [id |-> i, defect |-> d]]
  /\ UNCHANGED <<mode, core, registry, streams, life>>

Answered(s) ==
  /\ request' = [request EXCEPT ![s] = NoRequest]
  /\ received' = received + 1
  /\ UNCHANGED <<mode, started, streams, life>>

Quiet == UNCHANGED <<emitted, attached, owed, refs>>

(* The id header of a delivery; one without headers has none.               *)
HeaderId(q) == IF q.defect = "bare" THEN 0 ELSE q.id

(* All three headers are there and a v1 signature matches in time.          *)
Verifies(q) == Genuine(q)

(* Too large for the parser, no matter how the receiver is configured.      *)
TooLarge(s) ==
  /\ request[s].defect = "large"
  /\ RecordEntry(Entry(HeaderId(request[s]), "rejected", FALSE))
  /\ Quiet
  /\ Answered(s)

NotConfigured(s) ==
  /\ request[s].defect # "large"
  /\ mode = "off"
  /\ UNCHANGED <<inbox, acceptedById>>
  /\ Quiet
  /\ Answered(s)

NotVerified(s) ==
  /\ request[s].defect # "large"
  /\ mode = "signed" /\ ~Verifies(request[s])
  /\ RecordEntry(Entry(HeaderId(request[s]), "rejected", FALSE))
  /\ Quiet
  /\ Answered(s)

(* From here on the delivery is verified, or unsigned ones are allowed.     *)
Trusted(s) ==
  /\ request[s].defect # "large"
  /\ mode = "signed" => Verifies(request[s])
  /\ mode # "off"

NotJson(s) ==
  /\ Trusted(s)
  /\ request[s].defect = "garbled"
  /\ RecordEntry(Entry(HeaderId(request[s]), "rejected", mode = "signed"))
  /\ Quiet
  /\ Answered(s)

(* An unsigned delivery without an id gets one nobody has used.             *)
EventId(q) == IF q.defect = "bare" THEN Fresh ELSE q.id

Duplicate(s) ==
  /\ Trusted(s)
  /\ request[s].defect # "garbled"
  /\ IsDuplicate(EventId(request[s]))
  /\ RecordEntry(Entry(EventId(request[s]), "duplicate", mode = "signed"))
  /\ Quiet
  /\ Answered(s)

AcceptDelivery(s) ==
  LET id == EventId(request[s])
  IN /\ Trusted(s)
     /\ request[s].defect # "garbled"
     /\ ~IsDuplicate(id)
     /\ RecordEntry(Entry(id, "accepted", mode = "signed"))
     /\ Correlate(id, Payload[request[s].id], Genuine(request[s]))
     /\ Answered(s)

Handle(s) ==
  /\ server # "down"
  /\ request[s] # NoRequest
  /\ \/ TooLarge(s) \/ NotConfigured(s) \/ NotVerified(s)
     \/ NotJson(s) \/ Duplicate(s) \/ AcceptDelivery(s)

(* The peer goes away before its body is there.                             *)
Disconnect(s) ==
  /\ server # "down"
  /\ request[s] # NoRequest
  /\ request' = [request EXCEPT ![s] = NoRequest]
  /\ UNCHANGED <<mode, core, registry, streams, life>>

-----------------------------------------------------------------------------
(* The process.                                                             *)

StreamOpens ==
  /\ server = "up" /\ streams = 0
  /\ streams' = 1
  /\ UNCHANGED <<mode, core, registry, request, life>>

StreamCloses ==
  /\ server # "down" /\ streams = 1
  /\ streams' = 0
  /\ UNCHANGED <<mode, core, registry, request, life>>

(* The end of a process takes everything in memory with it.                 *)
Gone(code) ==
  /\ server' = "down"
  /\ exit' = code
  /\ inbox' = <<>> /\ acceptedById' = {} /\ emitted' = {}
  /\ request' = [s \in Slots |-> NoRequest]
  /\ streams' = 0
  /\ UNCHANGED <<mode, registry, attached, owed, received, process, handlers>>

(* The first signal starts the drain, the first of the other kind finds it  *)
(* started; `once` takes the handler away each time.                        *)
Signal(g) ==
  /\ server # "down"
  /\ g \in handlers
  /\ handlers' = handlers \ {g}
  /\ server' = "closing"
  /\ UNCHANGED <<mode, core, registry, request, streams, process, exit>>

(* Without a handler the signal has its default effect.                     *)
SignalAgain(g) ==
  /\ server # "down"
  /\ g \notin handlers
  /\ Gone("killed")

Kill == server # "down" /\ Gone("killed")

Idle == \A s \in Slots : request[s] = NoRequest

(* app.close() resolves when no request is open (this is Fastify's part).   *)
Drained == server = "closing" /\ Idle /\ streams = 0

CloseResolves == Drained /\ Gone("0")
CloseRejects == server = "closing" /\ Gone("1")

NoDeadline == server = "closing" /\ Idle /\ Gone("1")    \* fault: the timer waits for requests

Deadline == server = "closing" /\ Gone("1")

Boot ==
  /\ server = "down"
  /\ process < MaxProcesses
  /\ process' = process + 1
  /\ server' = "up" /\ handlers' = Signals /\ exit' = "none"
  /\ UNCHANGED <<mode, core, registry, request, streams>>

Next ==
  \/ \E r \in Runs : RunStarts(r)
  \/ \E x \in Resources : RunCreates(x)
  \/ \E s \in Slots : Connect(s) \/ Handle(s) \/ Disconnect(s)
  \/ StreamOpens \/ StreamCloses
  \/ \E g \in Signals : Signal(g) \/ SignalAgain(g)
  \/ Kill \/ CloseResolves \/ CloseRejects \/ Deadline \/ Boot

Spec == Init /\ [][Next]_vars

(* Only the timer of the shutdown is relied on: a wedged request or stream  *)
(* may stay for ever.                                                       *)
FairSpec == Spec /\ WF_vars(Deadline)

-----------------------------------------------------------------------------
(* Every variable has its type, the inbox respects its capacity, and the    *)
(* dedup index is exactly the accepted entries it retains, one for each id: *)
(* no id is refused as a duplicate of something that is gone, and the index *)
(* is as bounded as the inbox (webhooks.ts:91-122).                         *)
TypeOK ==
  /\ mode \in Modes
  /\ \A i \in DOMAIN inbox : inbox[i].status \in {"accepted", "duplicate", "rejected"}
  /\ Len(inbox) <= MaxEntries
  /\ acceptedById = {e \in ToSet(inbox) : e.status = "accepted"}
  /\ \A e, f \in acceptedById : e.id = f.id => e = f
  /\ emitted \subseteq Nat /\ owed \subseteq Nat
  /\ started \subseteq Runs
  /\ refs \in [Runs -> SUBSET Resources]
  /\ request \in [Slots -> [id : Ids, defect : Defects] \cup {NoRequest}]
  /\ streams \in 0..1 /\ received \in Nat /\ process \in 1..MaxProcesses
  /\ server \in {"up", "closing", "down"}
  /\ handlers \subseteq Signals
  /\ exit \in {"none", "0", "1", "killed"}

(* A delivery that was about a known run when it was accepted is attached   *)
(* to one, and one process attaches it once, however often it is repeated,  *)
(* whatever was accepted, restarted or, also by rejected entries, pushed    *)
(* out of the inbox (webhook-correlator.ts:20-23, webhooks.ts:408).         *)
AttachedExactlyOnce ==
  /\ \A i \in owed : \E e \in attached : e.id = i
  /\ \A e, f \in attached : e.id = f.id /\ e.process = f.process => e = f

(* Evidence is genuine and belongs to the run it is about: with a secret    *)
(* configured only verified deliveries become evidence, and none reaches    *)
(* another run by way of the resources earlier deliveries brought in        *)
(* (webhook-correlator.ts:99-163, webhooks.ts:26-31).                       *)
EvidenceBelongs ==
  /\ mode = "signed" => \A e \in attached : e.genuine
  /\ mode = "off" => acceptedById = {} /\ attached = {}
  /\ \A e \in attached : e.res # 0 => Owner[e.res] = e.run
  /\ \A r \in Runs : \A x \in refs[r] : Owner[x] = r

(* Once a shutdown has begun the process ends, whatever the peers do        *)
(* (shutdown.ts:8-10).                                                      *)
ShutdownEnds == (server = "closing") ~> (server = "down")
=============================================================================
