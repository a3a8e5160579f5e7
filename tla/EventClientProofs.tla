------------------------- MODULE EventClientProofs --------------------------
(***************************************************************************)
(* Proofs about EventClient, for every bound and every transport: types;   *)
(* and, for a dashboard that uses one transport, that only a snapshot that *)
(* outlives its process makes it show a gap or an event of a dead process  *)
(* as part of the log it trusts.                                           *)
(***************************************************************************)
EXTENDS EventClient, TLAPS

Questions == {"runs", "first", "events", "again", "health"}
Requests == [st : {"none", "sent", "answered", "failed"}, kind : Questions \cup {"none"},
             since : Nat, ep : 0..MaxEpoch, n : Nat, resync : BOOLEAN]
Sources == [st : {"none", "connecting", "open", "greeted"}, ep : 0..MaxEpoch, pos : Nat,
            sent : Nat]
Clients ==
  [gate : 0..MaxEpoch, cursor : Nat, hydrated : BOOLEAN, mode : {"polling", "sse"},
   polls : Nat, handle : BOOLEAN, waiting : Nat, reconnect : BOOLEAN, upgrade : BOOLEAN,
   failures : Nat, source : Sources, store : [Nums -> 0..MaxEpoch],
   req : [Slots -> Requests], base : 0..MaxEpoch, crossed : BOOLEAN]

Typed(u) ==
  /\ u \in Clients
  /\ u.handle => u.polls > 0
  /\ u.source.st # "none" => u.mode = "sse"

(* The typed state. *)
Served ==
  /\ FeedTypeOK /\ epoch <= MaxEpoch
  /\ drops \in 0..MaxDrops
  /\ Typed(ui)

-----------------------------------------------------------------------------
(***************************************************************************)
(* The client's beliefs, against the process that runs.                    *)
(***************************************************************************)
(* Answers name a process that runs or ran. *)
Answered(u) ==
  \A s \in Slots : u.req[s].st = "answered" => 0 < u.req[s].ep /\ u.req[s].ep <= epoch

(* Unless it is stranded, a hydrated client trusts no later process than the
   one its snapshot came from; and while it trusts that one, or none yet, what
   it holds up to the cursor is that process's log, entirely, and there is
   nothing above it.                                                         *)
Exact(u) ==
  u.hydrated /\ ~u.crossed =>
    /\ u.gate <= u.base /\ 0 < u.base /\ u.base <= epoch
    /\ u.gate \in {0, u.base} =>
         \A i \in Nums : u.store[i] = IF i <= u.cursor THEN u.base ELSE 0

(* A fetch of events in flight asks for what follows the cursor. *)
Asked(u) ==
  u.hydrated /\ u.req["cycle"].st # "none" /\ u.req["cycle"].kind = "events" =>
    u.req["cycle"].since = u.cursor

(* A stream continues at the cursor of a hydrated client, and one that is
   greeted comes from the process trusted.                                   *)
Streamed(u) ==
  u.source.st # "none" =>
    /\ u.hydrated /\ u.source.pos = u.cursor
    /\ u.source.st # "connecting" => u.source.ep > 0
    /\ u.source.st = "greeted" => u.source.ep = u.gate

(* A client keeps to its transport. *)
Pure(u) ==
  IF UseSse THEN u.req["cycle"].st = "none" /\ u.polls = 0
  ELSE /\ u.source.st = "none" /\ ~u.reconnect /\ ~u.upgrade
       /\ \A s \in SseCalls : u.req[s].st = "none"

Believes(u) == Answered(u) /\ Exact(u) /\ Asked(u) /\ Pure(u)
Sound ==
  /\ online => epoch > 0
  /\ floor = FloorOf(len) /\ len <= MaxLen
  /\ Believes(ui) /\ Streamed(ui)

(* One transport, and with a stream a delivery buffer that holds the log: the
   retries never run out, so that the client is never sent back to polling.  *)
OneTransport == UseSse => RetriesSuffice /\ ~OnDemand /\ MaxLen <= MaxEvents

-----------------------------------------------------------------------------
(***************************************************************************)
(* What each transformer of the client's state changes, and what not.      *)
(***************************************************************************)
Fields == {"gate", "cursor", "hydrated", "mode", "polls", "handle", "waiting", "reconnect",
           "upgrade", "failures", "source", "store", "req", "base", "crossed"}
Same(u, v, F) == \A f \in Fields \ F : v[f] = u[f]

(* What a snapshot replaces, what an answer with events may change, and what
   a new epoch changes in a client that streams.                             *)
SnapshotFields == {"cursor", "hydrated", "store", "base", "crossed"}
ArrivalFields == {"gate", "crossed", "cursor", "hydrated", "store", "req", "polls", "handle",
                  "waiting"}
RestartFields == {"gate", "crossed", "cursor", "hydrated", "source", "reconnect", "req"}
USE DEF SnapshotFields, ArrivalFields, RestartFields

(* Whether a client that adopts x is stranded by it, or was. *)
Crossing(u, x) == u.crossed \/ (u.gate = 0 /\ u.hydrated /\ u.base < x)

(* A client with one field replaced is a client. *)
LEMMA SetField ==
  ASSUME NEW u \in Clients
  PROVE  /\ \A x \in 0..MaxEpoch : /\ [u EXCEPT !.gate = x] \in Clients
                                   /\ [u EXCEPT !.base = x] \in Clients
         /\ \A x \in Nat : /\ [u EXCEPT !.cursor = x] \in Clients
                           /\ [u EXCEPT !.polls = x] \in Clients
                           /\ [u EXCEPT !.waiting = x] \in Clients
                           /\ [u EXCEPT !.failures = x] \in Clients
         /\ \A x \in BOOLEAN : /\ [u EXCEPT !.hydrated = x] \in Clients
                               /\ [u EXCEPT !.handle = x] \in Clients
                               /\ [u EXCEPT !.reconnect = x] \in Clients
                               /\ [u EXCEPT !.upgrade = x] \in Clients
                               /\ [u EXCEPT !.crossed = x] \in Clients
         /\ \A x \in {"polling", "sse"} : [u EXCEPT !.mode = x] \in Clients
         /\ \A x \in Sources : [u EXCEPT !.source = x] \in Clients
         /\ \A x \in [Nums -> 0..MaxEpoch] : [u EXCEPT !.store = x] \in Clients
         /\ \A x \in [Slots -> Requests] : [u EXCEPT !.req = x] \in Clients
<1>1. \A x \in 0..MaxEpoch : [u EXCEPT !.gate = x] \in Clients /\ [u EXCEPT !.base = x] \in Clients
  BY DEF Clients
<1>2. \A x \in Nat : [u EXCEPT !.cursor = x] \in Clients /\ [u EXCEPT !.polls = x] \in Clients
  BY DEF Clients
<1>3. \A x \in Nat : [u EXCEPT !.waiting = x] \in Clients /\ [u EXCEPT !.failures = x] \in Clients
  BY DEF Clients
<1>4. \A x \in BOOLEAN : [u EXCEPT !.hydrated = x] \in Clients /\ [u EXCEPT !.handle = x] \in Clients
  BY DEF Clients
<1>5. \A x \in BOOLEAN : [u EXCEPT !.reconnect = x] \in Clients /\ [u EXCEPT !.upgrade = x] \in Clients
  BY DEF Clients
<1>6. \A x \in {"polling", "sse"} : [u EXCEPT !.mode = x] \in Clients
  BY DEF Clients
<1>7. \A x \in Sources : [u EXCEPT !.source = x] \in Clients
  BY DEF Clients
<1>8. \A x \in [Nums -> 0..MaxEpoch] : [u EXCEPT !.store = x] \in Clients
  BY DEF Clients
<1>9. \A x \in [Slots -> Requests] : [u EXCEPT !.req = x] \in Clients
  BY DEF Clients
<1>10. \A x \in BOOLEAN : [u EXCEPT !.crossed = x] \in Clients
  BY DEF Clients
<1>. QED BY <1>1, <1>2, <1>3, <1>4, <1>5, <1>6, <1>7, <1>8, <1>9, <1>10

(* The sentinels are of their types. *)
LEMMA Sentinels == NoRequest \in Requests /\ NoSource \in Sources
BY ClientAssumption DEF NoRequest, Requests, NoSource, Sources

(* The gate takes the epoch of an answer. *)
LEMMA AdoptParts ==
  ASSUME NEW u \in Clients, NEW x \in 0..MaxEpoch
  PROVE  /\ Adopt(u, x) \in Clients /\ Same(u, Adopt(u, x), {"gate", "crossed"})
         /\ Adopt(u, x).gate = x /\ Adopt(u, x).crossed = Crossing(u, x)
<1> DEFINE b == Crossing(u, x)
<1>1. Adopt(u, x) = [u EXCEPT !.gate = x, !.crossed = b]
  BY DEF Adopt, Crossing
<1>2. b \in BOOLEAN
  BY DEF Crossing, Clients
<1> HIDE DEF b
<1>3. Adopt(u, x) \in Clients
  <2>1. [u EXCEPT !.gate = x] \in Clients
    BY SetField
  <2>2. \A v \in Clients : [v EXCEPT !.crossed = b] \in Clients
    BY <1>2, SetField
  <2>. QED BY <1>1, <2>1, <2>2
<1>4. /\ Same(u, Adopt(u, x), {"gate", "crossed"}) /\ Adopt(u, x).gate = x
      /\ Adopt(u, x).crossed = b
  BY <1>1 DEF Same, Fields, Clients
<1>. QED BY <1>3, <1>4 DEF b

(* A request that is over leaves its slot empty and the others alone. *)
LEMMA DoneParts ==
  ASSUME NEW u \in Clients, NEW s \in Slots
  PROVE  /\ Done(u, s) \in Clients /\ Same(u, Done(u, s), {"req"})
         /\ Done(u, s).req[s].st = "none"
         /\ \A q \in Slots : q # s => Done(u, s).req[q] = u.req[q]
<1>1. [u.req EXCEPT ![s] = NoRequest] \in [Slots -> Requests]
  BY Sentinels DEF Clients
<1>2. Done(u, s) = [u EXCEPT !.req = [u.req EXCEPT ![s] = NoRequest]]
  BY DEF Done
<1>3. Done(u, s) \in Clients
  <2>1. \A x \in [Slots -> Requests] : [u EXCEPT !.req = x] \in Clients
    BY SetField
  <2>. QED BY <1>1, <1>2, <2>1
<1>4. Same(u, Done(u, s), {"req"})
  BY DEF Done, Same, Fields, Clients
<1>5. Done(u, s).req = [u.req EXCEPT ![s] = NoRequest]
  BY <1>2 DEF Clients
<1>6. u.req \in [Slots -> Requests]
  BY DEF Clients
<1>. QED BY <1>3, <1>4, <1>5, <1>6 DEF NoRequest

(* A request is sent in its slot. *)
LEMMA SendParts ==
  ASSUME NEW u \in Clients, NEW s \in Slots, NEW k \in Questions, NEW c \in Nat
  PROVE  /\ Send(u, s, k, c) \in Clients /\ Same(u, Send(u, s, k, c), {"req"})
         /\ Send(u, s, k, c).req[s].st = "sent"
         /\ Send(u, s, k, c).req[s].kind = k
         /\ Send(u, s, k, c).req[s].since = c
         /\ \A q \in Slots : q # s => Send(u, s, k, c).req[q] = u.req[q]
<1> DEFINE r == [NoRequest EXCEPT !.st = "sent", !.kind = k, !.since = c]
<1>1. r \in Requests
  <2>1. [NoRequest EXCEPT !.st = "sent"] \in Requests
    BY Sentinels DEF Requests
  <2>2. \A w \in Requests : [w EXCEPT !.kind = k] \in Requests
    BY DEF Requests
  <2>3. \A w \in Requests : [w EXCEPT !.since = c] \in Requests
    BY DEF Requests
  <2>. QED BY <2>1, <2>2, <2>3
<1>2. r.st = "sent" /\ r.kind = k /\ r.since = c
  BY Sentinels DEF Requests
<1>3. Send(u, s, k, c) = [u EXCEPT !.req[s] = r]
  BY DEF Send
<1> HIDE DEF r
<1>4. u.req \in [Slots -> Requests] /\ [u.req EXCEPT ![s] = r] \in [Slots -> Requests]
  BY <1>1 DEF Clients
<1>5. Send(u, s, k, c) = [u EXCEPT !.req = [u.req EXCEPT ![s] = r]]
  BY <1>3 DEF Clients
<1>6. Send(u, s, k, c) \in Clients
  <2>1. \A x \in [Slots -> Requests] : [u EXCEPT !.req = x] \in Clients
    BY SetField
  <2>. QED BY <1>4, <1>5, <2>1
<1>7. Same(u, Send(u, s, k, c), {"req"})
  BY <1>3 DEF Same, Fields, Clients
<1>8. Send(u, s, k, c).req = [u.req EXCEPT ![s] = r]
  BY <1>5 DEF Clients
<1>. QED BY <1>2, <1>4, <1>6, <1>7, <1>8

(* What is held is no longer trusted; it stays on the screen. *)
LEMMA InvalidateParts ==
  ASSUME NEW u \in Clients
  PROVE  /\ Invalidate(u) \in Clients /\ Same(u, Invalidate(u), {"cursor", "hydrated"})
         /\ ~Invalidate(u).hydrated
<1>1. Invalidate(u) \in Clients
  <2>1. [u EXCEPT !.cursor = 0] \in Clients
    BY SetField
  <2>2. \A v \in Clients : [v EXCEPT !.hydrated = FALSE] \in Clients
    BY SetField
  <2>. QED BY <2>1, <2>2 DEF Invalidate
<1>2. Same(u, Invalidate(u), {"cursor", "hydrated"}) /\ ~Invalidate(u).hydrated
  BY DEF Invalidate, Same, Fields, Clients
<1>. QED BY <1>1, <1>2

(* Events are put in where there is none. *)
LEMMA InsertParts ==
  ASSUME NEW u \in Clients, NEW x \in 0..MaxEpoch, NEW a \in Nat, NEW b \in Nat
  PROVE  /\ Insert(u, x, a, b) \in Clients /\ Same(u, Insert(u, x, a, b), {"store"})
         /\ \A i \in Nums : Insert(u, x, a, b).store[i] =
              IF i \in a..b /\ u.store[i] = 0 THEN x ELSE u.store[i]
<1> DEFINE m == [i \in Nums |-> IF i \in a..b /\ u.store[i] = 0 THEN x ELSE u.store[i]]
<1>1. m \in [Nums -> 0..MaxEpoch]
  BY DEF Clients
<1>2. Insert(u, x, a, b) = [u EXCEPT !.store = m]
  BY DEF Insert
<1>3. Insert(u, x, a, b) \in Clients
  BY <1>1, <1>2, SetField
<1> HIDE DEF m
<1>4. Same(u, Insert(u, x, a, b), {"store"}) /\ Insert(u, x, a, b).store = m
  BY <1>2 DEF Same, Fields, Clients
<1>. QED BY <1>3, <1>4 DEF m

(* A snapshot replaces the store and moves the cursor to its end. *)
LEMMA HydrateParts ==
  ASSUME NEW u \in Clients, NEW r \in Requests
  PROVE  /\ Hydrate(u, r) \in Clients
         /\ Same(u, Hydrate(u, r), SnapshotFields)
         /\ Hydrate(u, r).hydrated /\ Hydrate(u, r).cursor = r.n
         /\ Hydrate(u, r).base = r.ep /\ Hydrate(u, r).crossed = (r.ep < u.gate)
         /\ \A i \in Nums : Hydrate(u, r).store[i] = IF i <= r.n THEN r.ep ELSE 0
<1> DEFINE m == [i \in Nums |-> IF i <= r.n THEN r.ep ELSE 0]
           b == r.ep < u.gate
<1>1. m \in [Nums -> 0..MaxEpoch] /\ r.n \in Nat /\ r.ep \in 0..MaxEpoch
  BY ClientAssumption DEF Requests
<1>2. Hydrate(u, r) = [u EXCEPT !.base = r.ep, !.crossed = b, !.cursor = r.n,
                                !.hydrated = TRUE, !.store = m]
  BY DEF Hydrate, SnapshotCursor
<1>3. b \in BOOLEAN
  OBVIOUS
<1> HIDE DEF m, b
<1>4. Hydrate(u, r) \in Clients
  <2>1. [u EXCEPT !.base = r.ep] \in Clients
    BY <1>1, SetField
  <2>2. \A v \in Clients : [v EXCEPT !.crossed = b] \in Clients
    BY <1>3, SetField
  <2>3. \A v \in Clients : [v EXCEPT !.cursor = r.n] \in Clients
    BY <1>1, SetField
  <2>4. \A v \in Clients : [v EXCEPT !.hydrated = TRUE] \in Clients
    BY SetField
  <2>5. \A v \in Clients : [v EXCEPT !.store = m] \in Clients
    BY <1>1, SetField
  <2>. QED BY <1>2, <2>1, <2>2, <2>3, <2>4, <2>5
<1>5. /\ Same(u, Hydrate(u, r), SnapshotFields)
      /\ Hydrate(u, r).hydrated /\ Hydrate(u, r).cursor = r.n /\ Hydrate(u, r).store = m
      /\ Hydrate(u, r).base = r.ep /\ Hydrate(u, r).crossed = b
  BY <1>2 DEF Same, Fields, Clients
<1>. QED BY <1>4, <1>5 DEF m, b

(* What becomes of the requests when a tick is asked for: nothing, or a cycle
   begins with the question the client's state calls for.                    *)
Ticked(u, v) ==
  /\ \A s \in Slots : s # "cycle" => v.req[s] = u.req[s]
  /\ \/ v.req["cycle"] = u.req["cycle"]
     \/ /\ u.req["cycle"].st = "none" /\ v.req["cycle"].st = "sent"
        /\ v.req["cycle"].kind = "events" => u.hydrated /\ v.req["cycle"].since = u.cursor

(* A tick asks for what is missing, unless a cycle is under way. *)
LEMMA TickParts ==
  ASSUME NEW u \in Clients
  PROVE  Tick(u) \in Clients /\ Same(u, Tick(u), {"req"}) /\ Ticked(u, Tick(u))
<1>1. "cycle" \in Slots /\ u.cursor \in Nat /\ {"events", "first"} \subseteq Questions
  BY DEF Slots, Clients, Questions
<1>2. CASE u.req["cycle"].st # "none"
  BY <1>2 DEF Tick, Same, Ticked
<1>3. CASE u.req["cycle"].st = "none" /\ u.hydrated
  <2>1. Tick(u) = Send(u, "cycle", "events", u.cursor)
    BY <1>3 DEF Tick
  <2>. QED BY <1>1, <1>3, <2>1, SendParts DEF Ticked
<1>4. CASE u.req["cycle"].st = "none" /\ ~u.hydrated
  <2>1. Tick(u) = Send(u, "cycle", "first", 0)
    BY <1>4 DEF Tick
  <2>. QED BY <1>1, <1>4, <2>1, SendParts DEF Ticked
<1>. QED BY <1>2, <1>3, <1>4

(* The loop ticks and waits in polling mode and ends in the other. *)
LEMMA LoopParts ==
  ASSUME NEW u \in Clients
  PROVE  Loop(u) \in Clients /\ Same(u, Loop(u), {"req", "waiting"}) /\ Ticked(u, Loop(u))
<1>1. CASE u.mode # "polling"
  BY <1>1 DEF Loop, Same, Ticked
<1>2. CASE u.mode = "polling"
  <2> DEFINE v == Tick(u)
             w == [v EXCEPT !.waiting = v.waiting + 1]
  <2>1. v \in Clients /\ Same(u, v, {"req"}) /\ Ticked(u, v)
    BY TickParts
  <2>2. Loop(u) = w
    BY <1>2 DEF Loop
  <2> HIDE DEF v
  <2>3. v.waiting + 1 \in Nat
    BY <2>1 DEF Clients
  <2>4. w \in Clients
    BY <2>1, <2>3, SetField
  <2>5. Same(v, w, {"waiting"}) /\ w.req = v.req
    BY <2>1 DEF Same, Fields, Clients
  <2> HIDE DEF w
  <2>6. Same(u, w, {"req", "waiting"})
    BY <2>1, <2>5 DEF Same
  <2>7. Ticked(u, w)
    BY <2>1, <2>5 DEF Ticked
  <2>. QED BY <2>2, <2>4, <2>6, <2>7
<1>. QED BY <1>1, <1>2

(* A cycle that is over arms a timer for each loop that waited for it. *)
LEMMA CycleDoneParts ==
  ASSUME NEW u \in Clients
  PROVE  /\ CycleDone(u) \in Clients
         /\ Same(u, CycleDone(u), {"req", "polls", "handle", "waiting"})
         /\ CycleDone(u).req["cycle"].st = "none"
         /\ \A s \in Slots : s # "cycle" => CycleDone(u).req[s] = u.req[s]
         /\ (u.handle => u.polls > 0) => (CycleDone(u).handle => CycleDone(u).polls > 0)
<1> DEFINE v == Done(u, "cycle")
<1>1. /\ v \in Clients /\ Same(u, v, {"req"}) /\ v.req["cycle"].st = "none"
      /\ \A s \in Slots : s # "cycle" => v.req[s] = u.req[s]
  BY DoneParts DEF Slots
<1>2. /\ v.polls = u.polls /\ v.handle = u.handle /\ v.waiting = u.waiting
      /\ u.polls \in Nat /\ u.waiting \in Nat
  BY <1>1 DEF Same, Fields, Clients
<1>3. CASE u.mode = "polling" /\ u.waiting > 0
  <2>1. CycleDone(u) = [v EXCEPT !.polls = u.polls + u.waiting, !.handle = TRUE, !.waiting = 0]
    BY <1>2, <1>3 DEF CycleDone
  <2> HIDE DEF v
  <2>2. CycleDone(u) \in Clients
    <3>0. u.polls + u.waiting \in Nat
      BY <1>2
    <3>1. [v EXCEPT !.polls = u.polls + u.waiting] \in Clients
      BY <1>1, <3>0, SetField
    <3>2. \A w \in Clients : [w EXCEPT !.handle = TRUE] \in Clients
      BY SetField
    <3>3. \A w \in Clients : [w EXCEPT !.waiting = 0] \in Clients
      BY SetField
    <3>. QED BY <2>1, <3>1, <3>2, <3>3
  <2>3. /\ Same(v, CycleDone(u), {"polls", "handle", "waiting"})
        /\ CycleDone(u).req = v.req /\ CycleDone(u).polls = u.polls + u.waiting
    BY <1>1, <2>1 DEF Same, Fields, Clients
  <2>4. CycleDone(u).polls > 0
    BY <1>2, <1>3, <2>3
  <2>5. Same(u, CycleDone(u), {"req", "polls", "handle", "waiting"})
    BY <1>1, <2>3 DEF Same
  <2>. QED BY <1>1, <2>2, <2>3, <2>4, <2>5
<1>4. CASE ~(u.mode = "polling" /\ u.waiting > 0)
  <2>1. CycleDone(u) = [v EXCEPT !.waiting = 0]
    BY <1>4 DEF CycleDone
  <2> HIDE DEF v
  <2>2. CycleDone(u) \in Clients
    <3>1. \A w \in Clients : [w EXCEPT !.waiting = 0] \in Clients
      BY SetField
    <3>. QED BY <1>1, <2>1, <3>1
  <2>3. /\ Same(v, CycleDone(u), {"waiting"})
        /\ CycleDone(u).req = v.req /\ CycleDone(u).polls = u.polls /\ CycleDone(u).handle = u.handle
    BY <1>1, <1>2, <2>1 DEF Same, Fields, Clients
  <2>4. Same(u, CycleDone(u), {"req", "polls", "handle", "waiting"})
    BY <1>1, <2>3 DEF Same
  <2>. QED BY <1>1, <2>2, <2>3, <2>4
<1>. QED BY <1>3, <1>4

(* Clearing takes one timer, the one whose handle is held. *)
LEMMA ClearParts ==
  ASSUME NEW u \in Clients, u.handle => u.polls > 0
  PROVE  /\ ClearPollTimer(u) \in Clients
         /\ Same(u, ClearPollTimer(u), {"polls", "handle"})
         /\ ~ClearPollTimer(u).handle
         /\ u.polls = 0 => ClearPollTimer(u).polls = 0
<1>1. u.polls \in Nat /\ u.handle \in BOOLEAN
  BY DEF Clients
<1>2. CASE u.handle
  <2>1. ClearPollTimer(u) = [u EXCEPT !.polls = u.polls - 1, !.handle = FALSE]
    BY <1>2 DEF ClearPollTimer
  <2>2. ClearPollTimer(u) \in Clients
    <3>1. u.polls - 1 \in Nat
      BY <1>1, <1>2
    <3>2. [u EXCEPT !.polls = u.polls - 1] \in Clients
      BY <3>1, SetField
    <3>3. \A w \in Clients : [w EXCEPT !.handle = FALSE] \in Clients
      BY SetField
    <3>. QED BY <2>1, <3>2, <3>3
  <2>3. Same(u, ClearPollTimer(u), {"polls", "handle"}) /\ ~ClearPollTimer(u).handle
    BY <2>1 DEF Same, Fields, Clients
  <2>. QED BY <1>1, <1>2, <2>2, <2>3
<1>3. CASE ~u.handle
  BY <1>3 DEF ClearPollTimer, Same
<1>. QED BY <1>2, <1>3

(* A stream that is closed is gone. *)
LEMMA CloseParts ==
  ASSUME NEW u \in Clients
  PROVE  /\ CloseSource(u) \in Clients /\ Same(u, CloseSource(u), {"source"})
         /\ CloseSource(u).source.st = "none"
<1>1. CloseSource(u) \in Clients
  BY SetField, Sentinels DEF CloseSource
<1>2. Same(u, CloseSource(u), {"source"}) /\ CloseSource(u).source = NoSource
  BY DEF CloseSource, Same, Fields, Clients
<1>. QED BY <1>1, <1>2 DEF NoSource

(* Polling starts with a tick and without a stream. *)
LEMMA EnterPollingParts ==
  ASSUME NEW u \in Clients
  PROVE  LET v == EnterPolling(u) IN
         /\ v \in Clients
         /\ Same(u, v, {"source", "reconnect", "mode", "upgrade", "req", "waiting"})
         /\ v.source.st = "none" /\ Ticked(u, v)
<1> DEFINE c == CloseSource(u)
           d == [c EXCEPT !.reconnect = FALSE, !.mode = "polling"]
           l == Loop(d)
           v == [l EXCEPT !.upgrade = TRUE]
<1>1. c \in Clients /\ Same(u, c, {"source"}) /\ c.source.st = "none"
  BY CloseParts
<1>2. EnterPolling(u) = v
  BY DEF EnterPolling
<1> HIDE DEF c
<1>3. d \in Clients
  <2>1. [c EXCEPT !.reconnect = FALSE] \in Clients
    BY <1>1, SetField
  <2>2. \A w \in Clients : [w EXCEPT !.mode = "polling"] \in Clients
    BY SetField
  <2>. QED BY <2>1, <2>2
<1>4. Same(c, d, {"reconnect", "mode"})
  BY <1>1 DEF Same, Fields, Clients
<1> HIDE DEF d
<1>5. l \in Clients /\ Same(d, l, {"req", "waiting"}) /\ Ticked(d, l)
  BY <1>3, LoopParts
<1> HIDE DEF l
<1>6. v \in Clients /\ Same(l, v, {"upgrade"})
  <2>1. v \in Clients
    BY <1>5, SetField
  <2>. QED BY <1>5, <2>1 DEF Same, Fields, Clients
<1> HIDE DEF v
<1>7. Same(u, v, {"source", "reconnect", "mode", "upgrade", "req", "waiting"})
  BY <1>1, <1>4, <1>5, <1>6 DEF Same
<1>8. v.source = c.source
  BY <1>4, <1>5, <1>6 DEF Same, Fields
<1>9. /\ d.req = u.req /\ d.hydrated = u.hydrated /\ d.cursor = u.cursor /\ v.req = l.req
  BY <1>1, <1>4, <1>6 DEF Same, Fields
<1>10. Ticked(u, v)
  BY <1>5, <1>9 DEF Ticked
<1>. QED BY <1>1, <1>2, <1>6, <1>7, <1>8, <1>10

(* A broken stream is tried again or given up for polling. *)
LEMMA BrokenParts ==
  ASSUME NEW u \in Clients
  PROVE  LET v == SseBroken(u) IN
         /\ v \in Clients
         /\ Same(u, v, {"source", "reconnect", "mode", "upgrade", "failures", "req", "waiting"})
         /\ v.source.st = "none" /\ Ticked(u, v)
         /\ RetriesSuffice => Same(u, v, {"source", "reconnect", "failures"})
<1> DEFINE c == CloseSource(u)
           n == CountFailure(c.failures)
           d == [c EXCEPT !.failures = n]
           e == [d EXCEPT !.reconnect = TRUE]
<1>1. c \in Clients /\ Same(u, c, {"source"}) /\ c.source.st = "none"
  BY CloseParts
<1>2. n \in Nat /\ (RetriesSuffice => n <= MaxRetries)
  <2>1. c.failures \in Nat /\ MaxRetries \in Nat
    BY <1>1, ClientAssumption DEF Clients
  <2>. QED BY <2>1 DEF CountFailure
<1>3. SseBroken(u) = IF d.failures <= MaxRetries THEN e ELSE EnterPolling(d)
  BY DEF SseBroken
<1> HIDE DEF n
<1>4. d \in Clients /\ Same(c, d, {"failures"}) /\ d.failures = n
  <2>1. d \in Clients
    BY <1>1, <1>2, SetField
  <2>. QED BY <1>1, <2>1 DEF Same, Fields, Clients
<1> HIDE DEF c, d
<1>5. e \in Clients /\ Same(d, e, {"reconnect"})
  <2>1. e \in Clients
    BY <1>4, SetField
  <2>. QED BY <1>4, <2>1 DEF Same, Fields, Clients
<1> HIDE DEF e
<1>6. CASE d.failures <= MaxRetries
  <2>1. Same(u, e, {"source", "reconnect", "failures"})
    BY <1>1, <1>4, <1>5 DEF Same
  <2>2. e.source = c.source /\ e.req = u.req
    BY <1>1, <1>4, <1>5 DEF Same, Fields
  <2>3. Same(u, e, {"source", "reconnect", "mode", "upgrade", "failures", "req", "waiting"})
    BY <2>1 DEF Same
  <2>. QED BY <1>1, <1>3, <1>5, <1>6, <2>1, <2>2, <2>3 DEF Ticked
<1>7. CASE ~(d.failures <= MaxRetries)
  <2> DEFINE p == EnterPolling(d)
  <2>1. /\ p \in Clients
        /\ Same(d, p, {"source", "reconnect", "mode", "upgrade", "req", "waiting"})
        /\ p.source.st = "none" /\ Ticked(d, p)
    BY <1>4, EnterPollingParts
  <2> HIDE DEF p
  <2>2. Same(u, p, {"source", "reconnect", "mode", "upgrade", "failures", "req", "waiting"})
    BY <1>1, <1>4, <2>1 DEF Same
  <2>3. d.req = u.req /\ d.hydrated = u.hydrated /\ d.cursor = u.cursor
    BY <1>1, <1>4 DEF Same, Fields
  <2>4. Ticked(u, p)
    BY <2>1, <2>3 DEF Ticked
  <2>. QED BY <1>2, <1>3, <1>4, <1>7, <2>1, <2>2, <2>4 DEF p
<1>. QED BY <1>6, <1>7

(* A stream opens behind the cursor, without the poll timer. *)
LEMMA OpenParts ==
  ASSUME NEW u \in Clients, u.handle => u.polls > 0
  PROVE  LET v == OpenStream(u) IN
         /\ v \in Clients /\ Same(u, v, {"polls", "handle", "mode", "source"})
         /\ v.mode = "sse" /\ v.source.st = "connecting" /\ v.source.pos = u.cursor
         /\ ~v.handle /\ (u.polls = 0 => v.polls = 0)
<1> DEFINE c == CloseSource(u)
           d == ClearPollTimer(c)
           w == [NoSource EXCEPT !.st = "connecting", !.pos = d.cursor]
           v == [d EXCEPT !.mode = "sse", !.source = w]
<1>1. OpenStream(u) = v
  BY DEF OpenStream
<1>2. c \in Clients /\ Same(u, c, {"source"})
  BY CloseParts
<1>3. c.handle = u.handle /\ c.polls = u.polls /\ c.cursor = u.cursor
  BY <1>2 DEF Same, Fields
<1> HIDE DEF c
<1>4. /\ d \in Clients /\ Same(c, d, {"polls", "handle"})
      /\ ~d.handle /\ (u.polls = 0 => d.polls = 0)
  BY <1>2, <1>3, ClearParts
<1>5. d.cursor = u.cursor /\ d.cursor \in Nat
  BY <1>3, <1>4 DEF Same, Fields, Clients
<1> HIDE DEF d
<1>6. w \in Sources /\ w.st = "connecting" /\ w.pos = u.cursor
  BY <1>5, Sentinels DEF Sources
<1> HIDE DEF w
<1>7. v \in Clients
  <2>1. [d EXCEPT !.mode = "sse"] \in Clients
    BY <1>4, SetField
  <2>2. \A x \in Clients : [x EXCEPT !.source = w] \in Clients
    BY <1>6, SetField
  <2>. QED BY <2>1, <2>2
<1>8. Same(d, v, {"mode", "source"}) /\ v.mode = "sse" /\ v.source = w
  BY <1>4 DEF Same, Fields, Clients
<1>9. v.handle = d.handle /\ v.polls = d.polls
  BY <1>4 DEF Clients
<1> HIDE DEF v
<1>10. Same(u, v, {"polls", "handle", "mode", "source"})
  BY <1>2, <1>4, <1>8 DEF Same
<1>. QED BY <1>1, <1>4, <1>6, <1>7, <1>8, <1>9, <1>10

(* startSse either opens a stream at once or asks for a snapshot first. *)
LEMMA StartParts ==
  ASSUME NEW u \in Clients, u.handle => u.polls > 0, FreeCalls(u) # {}
  PROVE  LET v == StartSse(u) IN
         /\ v \in Clients
         /\ \/ /\ u.hydrated
               /\ Same(u, v, {"reconnect", "polls", "handle", "mode", "source"})
               /\ v.mode = "sse" /\ v.source.st = "connecting" /\ v.source.pos = u.cursor
               /\ ~v.handle /\ (u.polls = 0 => v.polls = 0)
            \/ /\ ~u.hydrated
               /\ Same(u, v, {"reconnect", "req"})
               /\ \E s \in SseCalls :
                    /\ v.req[s].st = "sent"
                    /\ \A q \in Slots : q # s => v.req[q] = u.req[q]
<1> DEFINE d == [u EXCEPT !.reconnect = FALSE]
           s == CHOOSE c \in FreeCalls(d) : TRUE
<1>1. d \in Clients /\ Same(u, d, {"reconnect"})
  <2>1. d \in Clients
    BY SetField
  <2>. QED BY <2>1 DEF Same, Fields, Clients
<1>2. StartSse(u) = IF d.hydrated THEN OpenStream(d) ELSE Send(d, s, "runs", 0)
  BY DEF StartSse
<1>3. /\ d.hydrated = u.hydrated /\ d.cursor = u.cursor /\ d.polls = u.polls
      /\ d.handle = u.handle /\ d.req = u.req
  BY <1>1 DEF Same, Fields
<1>4. s \in SseCalls
  <2>1. FreeCalls(d) = FreeCalls(u)
    BY <1>3 DEF FreeCalls
  <2>. QED BY <2>1 DEF FreeCalls
<1> HIDE DEF d, s
<1>5. CASE u.hydrated
  <2> DEFINE v == OpenStream(d)
  <2>1. /\ v \in Clients /\ Same(d, v, {"polls", "handle", "mode", "source"})
        /\ v.mode = "sse" /\ v.source.st = "connecting" /\ v.source.pos = d.cursor
        /\ ~v.handle /\ (d.polls = 0 => v.polls = 0)
    BY <1>1, <1>3, OpenParts
  <2> HIDE DEF v
  <2>2. Same(u, v, {"reconnect", "polls", "handle", "mode", "source"})
    BY <1>1, <2>1 DEF Same
  <2>. QED BY <1>2, <1>3, <1>5, <2>1, <2>2 DEF v
<1>6. CASE ~u.hydrated
  <2> DEFINE v == Send(d, s, "runs", 0)
  <2>1. s \in Slots /\ "runs" \in Questions
    BY <1>4 DEF Slots, Questions
  <2>2. /\ v \in Clients /\ Same(d, v, {"req"}) /\ v.req[s].st = "sent"
        /\ \A q \in Slots : q # s => v.req[q] = d.req[q]
    BY <1>1, <2>1, SendParts
  <2> HIDE DEF v
  <2>3. Same(u, v, {"reconnect", "req"})
    BY <1>1, <2>2 DEF Same
  <2>. QED BY <1>2, <1>3, <1>4, <1>6, <2>2, <2>3 DEF v
<1>. QED BY <1>5, <1>6

(* A request that is replaced, patched or answered. *)
LEMMA PutParts ==
  ASSUME NEW u \in Clients, NEW s \in Slots, NEW w \in Requests
  PROVE  LET v == [u EXCEPT !.req[s] = w] IN
         /\ v \in Clients /\ Same(u, v, {"req"}) /\ v.req[s] = w
         /\ \A q \in Slots : q # s => v.req[q] = u.req[q]
<1> DEFINE v == [u EXCEPT !.req[s] = w]
<1>1. u.req \in [Slots -> Requests] /\ [u.req EXCEPT ![s] = w] \in [Slots -> Requests]
  BY DEF Clients
<1>2. v = [u EXCEPT !.req = [u.req EXCEPT ![s] = w]]
  BY DEF Clients
<1>3. v \in Clients
  BY <1>1, <1>2, SetField
<1>4. Same(u, v, {"req"})
  BY DEF Same, Fields, Clients
<1>5. v.req = [u.req EXCEPT ![s] = w]
  BY <1>2 DEF Clients
<1>. QED BY <1>1, <1>3, <1>4, <1>5

(* The server answers with what it has, to the question asked. *)
LEMMA ServeParts ==
  ASSUME FeedTypeOK, epoch <= MaxEpoch, ui \in Clients, NEW s \in Slots, Serve(s)
  PROVE  /\ ui' \in Clients /\ Same(ui, ui', {"req"})
         /\ ui'.req[s].st = "answered" /\ ui'.req[s].ep = epoch /\ ui'.req[s].n = len
         /\ ui'.req[s].kind = ui.req[s].kind /\ ui'.req[s].since = ui.req[s].since
         /\ ui'.req[s].resync = (ui.req[s].since < floor)
         /\ \A q \in Slots : q # s => ui'.req[q] = ui.req[q]
<1> DEFINE a == ui.req[s]
           b == [a EXCEPT !.st = "answered"]
           c == [b EXCEPT !.ep = epoch]
           d == [c EXCEPT !.n = len]
           e == [d EXCEPT !.resync = (a.since < floor)]
<1>1. a \in Requests
  BY DEF Clients
<1>2. /\ epoch \in 0..MaxEpoch /\ len \in Nat /\ (a.since < floor) \in BOOLEAN
  BY ClientAssumption DEF FeedTypeOK
<1>3. ui' = [ui EXCEPT !.req[s] = e]
  BY DEF Serve
<1> HIDE DEF a
<1>4. b \in Requests /\ b.st = "answered" /\ b.kind = a.kind /\ b.since = a.since
  BY <1>1 DEF Requests
<1> HIDE DEF b
<1>5. /\ c \in Requests /\ c.st = "answered" /\ c.kind = a.kind /\ c.since = a.since
      /\ c.ep = epoch
  BY <1>2, <1>4 DEF Requests
<1> HIDE DEF c
<1>6. /\ d \in Requests /\ d.st = "answered" /\ d.kind = a.kind /\ d.since = a.since
      /\ d.ep = epoch /\ d.n = len
  BY <1>2, <1>5 DEF Requests
<1> HIDE DEF d
<1>7. /\ e \in Requests /\ e.st = "answered" /\ e.kind = a.kind /\ e.since = a.since
      /\ e.ep = epoch /\ e.n = len /\ e.resync = (a.since < floor)
  BY <1>2, <1>6 DEF Requests
<1> HIDE DEF e
<1>. QED BY <1>3, <1>7, PutParts DEF a

(* A request that fails keeps its question. *)
LEMMA RefuseParts ==
  ASSUME ui \in Clients, NEW s \in Slots, Refuse(s)
  PROVE  /\ ui' \in Clients /\ Same(ui, ui', {"req"})
         /\ ui'.req[s].st = "failed"
         /\ ui'.req[s].kind = ui.req[s].kind /\ ui'.req[s].since = ui.req[s].since
         /\ \A q \in Slots : q # s => ui'.req[q] = ui.req[q]
<1> DEFINE a == ui.req[s]
           b == [a EXCEPT !.st = "failed"]
<1>1. a \in Requests
  BY DEF Clients
<1>2. ui' = [ui EXCEPT !.req[s] = b]
  BY DEF Refuse, Clients
<1> HIDE DEF a
<1>3. b \in Requests /\ b.st = "failed" /\ b.kind = a.kind /\ b.since = a.since
  BY <1>1 DEF Requests
<1> HIDE DEF b
<1>. QED BY <1>2, <1>3, PutParts DEF a

(* A death loses some answers and ends the stream behind its last frame. *)
LEMMA DiesParts ==
  ASSUME FeedTypeOK, ui \in Clients, ServerDies
  PROVE  /\ ui' \in Clients /\ Same(ui, ui', {"req", "source"})
         /\ \A s \in Slots : /\ ui'.req[s].st = "answered" => ui.req[s].st = "answered"
                             /\ ui.req[s].st = "none" <=> ui'.req[s].st = "none"
                             /\ ui'.req[s].kind = ui.req[s].kind
                             /\ ui'.req[s].since = ui.req[s].since
                             /\ ui'.req[s].ep = ui.req[s].ep
         /\ ui'.source.st = ui.source.st /\ ui'.source.ep = ui.source.ep
         /\ ui'.source.pos = ui.source.pos
<1>1. PICK lost \in SUBSET {s \in Slots : ui.req[s].st = "answered"} :
        ui' = [ui EXCEPT
                 !.req = [s \in Slots |->
                            IF s \in lost THEN [@[s] EXCEPT !.st = "failed"] ELSE @[s]],
                 !.source.sent = IF ui.source.st \in {"open", "greeted"} /\ Alive
                                   THEN len ELSE @]
  BY DEF ServerDies
<1> DEFINE f == [s \in Slots |-> IF s \in lost THEN [ui.req[s] EXCEPT !.st = "failed"]
                                 ELSE ui.req[s]]
           n == IF ui.source.st \in {"open", "greeted"} /\ Alive THEN len ELSE ui.source.sent
           w == [ui.source EXCEPT !.sent = n]
<1>2. ui.req \in [Slots -> Requests] /\ ui.source \in Sources
  BY DEF Clients
<1>3. \A a \in Requests : LET b == [a EXCEPT !.st = "failed"] IN
        b \in Requests /\ b.st = "failed" /\ b.kind = a.kind /\ b.since = a.since /\ b.ep = a.ep
  BY DEF Requests
<1>4. f \in [Slots -> Requests]
  BY <1>2, <1>3
<1>5. n \in Nat
  BY <1>2 DEF Sources, FeedTypeOK
<1>6. ui' = [ui EXCEPT !.req = f, !.source = w]
  <2>1. ui' = [ui EXCEPT !.req = f, !.source.sent = n]
    BY <1>1
  <2>. QED BY <2>1 DEF Clients
<1>7. \A s \in Slots : /\ f[s].st = "answered" => ui.req[s].st = "answered"
                       /\ ui.req[s].st = "none" <=> f[s].st = "none"
                       /\ f[s].kind = ui.req[s].kind /\ f[s].since = ui.req[s].since
                       /\ f[s].ep = ui.req[s].ep
  BY <1>2, <1>3
<1> HIDE DEF f, n
<1>8. w \in Sources /\ w.st = ui.source.st /\ w.ep = ui.source.ep /\ w.pos = ui.source.pos
  BY <1>2, <1>5 DEF Sources
<1> HIDE DEF w
<1>9. ui' \in Clients
  <2>1. [ui EXCEPT !.req = f] \in Clients
    BY <1>4, SetField
  <2>2. \A v \in Clients : [v EXCEPT !.source = w] \in Clients
    BY <1>8, SetField
  <2>. QED BY <1>6, <2>1, <2>2
<1>10. Same(ui, ui', {"req", "source"}) /\ ui'.req = f /\ ui'.source = w
  BY <1>6 DEF Same, Fields, Clients
<1>. QED BY <1>7, <1>8, <1>9, <1>10

(* An accepted stream starts behind the cursor it was given or the window. *)
LEMMA AcceptParts ==
  ASSUME FeedTypeOK, epoch <= MaxEpoch, ui \in Clients, Accept
  PROVE  /\ ui' \in Clients /\ Same(ui, ui', {"source"})
         /\ ui.source.st = "connecting" /\ online
         /\ ui'.source.st = "open" /\ ui'.source.ep = epoch
         /\ ui'.source.pos = IF ui.source.pos > floor THEN ui.source.pos ELSE floor
<1> DEFINE n == MaxOf(ui.source.pos, floor)
           w == [ui.source EXCEPT !.st = "open", !.ep = epoch, !.pos = n]
<1>1. ui.source \in Sources /\ ui.source.st = "connecting" /\ online
  BY DEF Clients, Accept
<1>2. ui.source.pos \in Nat /\ floor \in Nat /\ epoch \in 0..MaxEpoch
  BY <1>1, ClientAssumption DEF Sources, FeedTypeOK
<1>3. n \in Nat /\ n = IF ui.source.pos > floor THEN ui.source.pos ELSE floor
  BY <1>2 DEF MaxOf
<1>4. ui' = [ui EXCEPT !.source = w]
  BY DEF Accept
<1> HIDE DEF n
<1>5. w \in Sources /\ w.st = "open" /\ w.ep = epoch /\ w.pos = n
  BY <1>1, <1>2, <1>3 DEF Sources
<1> HIDE DEF w
<1>6. ui' \in Clients
  BY <1>4, <1>5, SetField
<1>7. Same(ui, ui', {"source"}) /\ ui'.source = w
  BY <1>4 DEF Same, Fields, Clients
<1>. QED BY <1>1, <1>3, <1>5, <1>6, <1>7

(* The epoch frame of a stream that is trusted. *)
LEMMA GreetParts ==
  ASSUME NEW u \in Clients
  PROVE  LET v == [u EXCEPT !.source.st = "greeted"] IN
         /\ v \in Clients /\ Same(u, v, {"source"})
         /\ v.source.st = "greeted" /\ v.source.ep = u.source.ep /\ v.source.pos = u.source.pos
<1> DEFINE w == [u.source EXCEPT !.st = "greeted"]
           v == [u EXCEPT !.source.st = "greeted"]
<1>1. u.source \in Sources
  BY DEF Clients
<1>2. w \in Sources /\ w.st = "greeted" /\ w.ep = u.source.ep /\ w.pos = u.source.pos
  BY <1>1 DEF Sources
<1>3. v = [u EXCEPT !.source = w]
  BY DEF Clients
<1> HIDE DEF w
<1>4. v \in Clients
  BY <1>2, <1>3, SetField
<1>5. Same(u, v, {"source"}) /\ v.source = w
  BY <1>3 DEF Same, Fields, Clients
<1>. QED BY <1>2, <1>4, <1>5

(* A delivered frame puts its event in the store and moves cursor and stream. *)
LEMMA FrameParts ==
  ASSUME Typed(ui), RunEventFrame
  PROVE  LET seq == ui.source.pos + 1
             x == ui.source.ep IN
         /\ ui' \in Clients
         /\ Same(ui, ui', {"store", "polls", "handle", "failures", "upgrade", "reconnect",
                           "cursor", "source"})
         /\ ~ui'.handle /\ (ui.polls = 0 => ui'.polls = 0) /\ ~ui'.reconnect /\ ~ui'.upgrade
         /\ ui.source.st = "greeted" /\ seq \in Nat
         /\ ui'.cursor = IF ui.cursor > seq THEN ui.cursor ELSE seq
         /\ ui'.source.pos = seq /\ ui'.source.st = "greeted" /\ ui'.source.ep = x
         /\ \A i \in Nums : ui'.store[i] =
              IF i = seq /\ ui.store[i] = 0 THEN x ELSE ui.store[i]
<1> DEFINE seq == ui.source.pos + 1
           x == ui.source.ep
           a == Insert(ui, x, seq, seq)
           b == ClearPollTimer(a)
           w == [b.source EXCEPT !.pos = seq]
           c == [b EXCEPT !.failures = 0, !.upgrade = FALSE, !.reconnect = FALSE,
                          !.cursor = MaxOf(b.cursor, seq), !.source = w]
<1>1. ui \in Clients /\ (ui.handle => ui.polls > 0) /\ ui.source \in Sources
  BY DEF Typed, Clients
<1>2. seq \in Nat /\ x \in 0..MaxEpoch
  BY <1>1 DEF Sources
<1>3. ui.source.st = "greeted"
  BY DEF RunEventFrame
<1>4. ui' = c
  BY DEF RunEventFrame
<1>16. x = ui.source.ep
  OBVIOUS
<1> HIDE DEF seq, x
<1>5. /\ a \in Clients /\ Same(ui, a, {"store"})
      /\ \A i \in Nums : a.store[i] = IF i \in seq..seq /\ ui.store[i] = 0 THEN x ELSE ui.store[i]
  BY <1>1, <1>2, InsertParts
<1>6. a.handle = ui.handle /\ a.polls = ui.polls
  BY <1>5 DEF Same, Fields
<1> HIDE DEF a
<1>7. /\ b \in Clients /\ Same(a, b, {"polls", "handle"})
      /\ ~b.handle /\ (ui.polls = 0 => b.polls = 0)
  BY <1>1, <1>5, <1>6, ClearParts
<1>8. b.source = ui.source /\ b.cursor = ui.cursor /\ b.store = a.store
  BY <1>5, <1>7 DEF Same, Fields
<1> HIDE DEF b
<1>9. /\ MaxOf(b.cursor, seq) \in Nat
      /\ MaxOf(b.cursor, seq) = IF ui.cursor > seq THEN ui.cursor ELSE seq
  BY <1>2, <1>7, <1>8 DEF MaxOf, Clients
<1>10. w \in Sources /\ w.pos = seq /\ w.st = "greeted" /\ w.ep = x
  BY <1>1, <1>2, <1>3, <1>8, <1>16 DEF Sources
<1> HIDE DEF w
<1>11. c \in Clients
  <2>1. [b EXCEPT !.failures = 0] \in Clients
    <3>1. \A z \in Clients : [z EXCEPT !.failures = 0] \in Clients
      BY SetField
    <3>. QED BY <1>7, <3>1
  <2>2. \A z \in Clients : [z EXCEPT !.upgrade = FALSE] \in Clients
    BY SetField
  <2>3. \A z \in Clients : [z EXCEPT !.reconnect = FALSE] \in Clients
    BY SetField
  <2>4. \A z \in Clients : [z EXCEPT !.cursor = MaxOf(b.cursor, seq)] \in Clients
    BY <1>9, SetField
  <2>5. \A z \in Clients : [z EXCEPT !.source = w] \in Clients
    BY <1>10, SetField
  <2>. QED BY <2>1, <2>2, <2>3, <2>4, <2>5
<1>12. /\ Same(b, c, {"failures", "upgrade", "reconnect", "cursor", "source"})
       /\ c.cursor = MaxOf(b.cursor, seq) /\ c.source = w /\ ~c.reconnect /\ ~c.upgrade
  BY <1>7 DEF Same, Fields, Clients
<1>13. c.handle = b.handle /\ c.polls = b.polls /\ c.store = b.store
  BY <1>7 DEF Clients
<1> HIDE DEF c
<1>14. Same(ui, c, {"store", "polls", "handle", "failures", "upgrade", "reconnect",
                    "cursor", "source"})
  BY <1>5, <1>7, <1>12 DEF Same
<1>15. \A i \in Nums : c.store[i] = IF i = seq /\ ui.store[i] = 0 THEN x ELSE ui.store[i]
  <2>1. \A i \in Nums : i \in seq..seq <=> i = seq
    BY <1>2 DEF Nums
  <2>. QED BY <1>5, <1>8, <1>13, <2>1
<1>. QED BY <1>2, <1>3, <1>4, <1>7, <1>9, <1>10, <1>11, <1>12, <1>13, <1>14, <1>15 DEF seq, x

(* A poll timer fires: the one that is named, or one that is not. *)
LEMMA PollParts ==
  ASSUME Typed(ui), PollTimer
  PROVE  /\ ui' \in Clients /\ Same(ui, ui', {"polls", "handle", "req", "waiting"})
         /\ Ticked(ui, ui') /\ ui.polls > 0 /\ (ui'.handle => ui'.polls > 0)
<1>1. PICK known \in {ui.handle, ui.handle /\ ui.polls = 1} :
        ui' = Loop([ui EXCEPT !.polls = @ - 1, !.handle = @ /\ ~known])
  BY DEF PollTimer
<1> DEFINE h == ui.handle /\ ~known
           d == [ui EXCEPT !.polls = ui.polls - 1, !.handle = h]
<1>2. /\ ui \in Clients /\ ui.polls \in Nat /\ ui.polls > 0 /\ ui.handle \in BOOLEAN
      /\ ui.polls - 1 \in Nat
  BY DEF Typed, Clients, PollTimer
<1>3. h \in BOOLEAN /\ (h => ui.polls - 1 > 0)
  BY <1>2
<1>4. ui' = Loop(d)
  BY <1>1
<1> HIDE DEF h
<1>5. d \in Clients
  <2>1. [ui EXCEPT !.polls = ui.polls - 1] \in Clients
    BY <1>2, SetField
  <2>2. \A x \in Clients : [x EXCEPT !.handle = h] \in Clients
    BY <1>3, SetField
  <2>. QED BY <2>1, <2>2
<1>6. Same(ui, d, {"polls", "handle"}) /\ d.polls = ui.polls - 1 /\ d.handle = h
  BY <1>2 DEF Same, Fields, Clients
<1> HIDE DEF d
<1>7. ui' \in Clients /\ Same(d, ui', {"req", "waiting"}) /\ Ticked(d, ui')
  BY <1>4, <1>5, LoopParts
<1>8. Same(ui, ui', {"polls", "handle", "req", "waiting"})
  BY <1>6, <1>7 DEF Same
<1>9. /\ ui'.polls = d.polls /\ ui'.handle = d.handle
      /\ d.req = ui.req /\ d.hydrated = ui.hydrated /\ d.cursor = ui.cursor
  BY <1>6, <1>7 DEF Same, Fields
<1>10. Ticked(ui, ui')
  BY <1>7, <1>9 DEF Ticked
<1>. QED BY <1>2, <1>3, <1>6, <1>7, <1>8, <1>9, <1>10

(* The first snapshot of a cycle is followed by a fetch from its cursor. *)
LEMMA FirstParts ==
  ASSUME NEW u \in Clients, NEW r \in Requests
  PROVE  LET v == FirstSnapshot(u, r) IN
         /\ v \in Clients /\ Same(u, v, SnapshotFields \cup {"req"})
         /\ v.hydrated /\ v.cursor = r.n /\ v.base = r.ep /\ v.crossed = (r.ep < u.gate)
         /\ \A i \in Nums : v.store[i] = IF i <= r.n THEN r.ep ELSE 0
         /\ v.req["cycle"].st = "sent" /\ v.req["cycle"].since = v.cursor
         /\ \A q \in Slots : q # "cycle" => v.req[q] = u.req[q]
<1> DEFINE h == Hydrate(u, r)
           v == Send(h, "cycle", "events", h.cursor)
<1>1. /\ h \in Clients /\ Same(u, h, SnapshotFields)
      /\ h.hydrated /\ h.cursor = r.n /\ h.base = r.ep /\ h.crossed = (r.ep < u.gate)
      /\ \A i \in Nums : h.store[i] = IF i <= r.n THEN r.ep ELSE 0
  BY HydrateParts
<1>2. FirstSnapshot(u, r) = v
  BY DEF FirstSnapshot
<1> HIDE DEF h
<1>3. h.cursor \in Nat /\ "cycle" \in Slots /\ "events" \in Questions
  BY <1>1 DEF Clients, Slots, Questions
<1>4. /\ v \in Clients /\ Same(h, v, {"req"})
      /\ v.req["cycle"].st = "sent" /\ v.req["cycle"].since = h.cursor
      /\ \A q \in Slots : q # "cycle" => v.req[q] = h.req[q]
  BY <1>1, <1>3, SendParts
<1> HIDE DEF v
<1>5. /\ v.hydrated = h.hydrated /\ v.cursor = h.cursor /\ v.store = h.store /\ h.req = u.req
      /\ v.base = h.base /\ v.crossed = h.crossed
  BY <1>1, <1>4 DEF Same, Fields
<1>6. Same(u, v, SnapshotFields \cup {"req"})
  BY <1>1, <1>4 DEF Same
<1>. QED BY <1>1, <1>2, <1>4, <1>5, <1>6

(* An answer with events either forgets everything, brings what follows the
   question's cursor, or brings nothing.                                     *)
LEMMA ArrivedParts ==
  ASSUME NEW u \in Clients, u.handle => u.polls > 0, NEW r \in Requests
  PROVE  LET v == EventsArrived(u, r) IN
         /\ v \in Clients
         /\ Same(u, v, ArrivalFields)
         /\ v.handle => v.polls > 0
         /\ v.gate = r.ep
         /\ \A q \in Slots : q # "cycle" => v.req[q] = u.req[q]
         /\ \/ /\ ~v.hydrated /\ v.req["cycle"].st = "sent"
            \/ /\ ~Mismatch(u, r.ep) /\ v.hydrated = u.hydrated /\ v.req["cycle"].st = "none"
               /\ v.crossed = Crossing(u, r.ep)
               /\ r.n > r.since /\ v.cursor = IF u.cursor > r.n THEN u.cursor ELSE r.n
               /\ \A i \in Nums : v.store[i] =
                    IF i \in (r.since + 1)..r.n /\ u.store[i] = 0 THEN r.ep ELSE u.store[i]
            \/ /\ ~Mismatch(u, r.ep) /\ v.hydrated = u.hydrated /\ v.req["cycle"].st = "none"
               /\ v.crossed = Crossing(u, r.ep)
               /\ v.cursor = u.cursor /\ v.store = u.store
<1> DEFINE a == Adopt(u, r.ep)
<1>1. r.ep \in 0..MaxEpoch /\ r.n \in Nat /\ r.since \in Nat /\ r.since + 1 \in Nat
  BY DEF Requests
<1>2. /\ a \in Clients /\ Same(u, a, {"gate", "crossed"}) /\ a.gate = r.ep
      /\ a.crossed = Crossing(u, r.ep)
  BY <1>1, AdoptParts
<1>3. EventsArrived(u, r) =
        IF Mismatch(u, r.ep) \/ r.resync THEN Send(Invalidate(a), "cycle", "again", 0)
        ELSE IF r.n > r.since
          THEN CycleDone([Insert(a, r.ep, r.since + 1, r.n) EXCEPT !.cursor = MaxOf(@, r.n)])
        ELSE CycleDone(a)
  BY DEF EventsArrived
<1>4. /\ a.hydrated = u.hydrated /\ a.cursor = u.cursor /\ a.store = u.store /\ a.req = u.req
      /\ a.polls = u.polls /\ a.handle = u.handle
  BY <1>2 DEF Same, Fields
<1> HIDE DEF a
<1>5. CASE Mismatch(u, r.ep) \/ r.resync
  <2> DEFINE i == Invalidate(a)
             v == Send(i, "cycle", "again", 0)
  <2>1. i \in Clients /\ Same(a, i, {"cursor", "hydrated"}) /\ ~i.hydrated
    BY <1>2, InvalidateParts
  <2>2. "cycle" \in Slots /\ "again" \in Questions /\ 0 \in Nat
    BY DEF Slots, Questions
  <2> HIDE DEF i
  <2>3. /\ v \in Clients /\ Same(i, v, {"req"}) /\ v.req["cycle"].st = "sent"
        /\ \A q \in Slots : q # "cycle" => v.req[q] = i.req[q]
    BY <2>1, <2>2, SendParts
  <2> HIDE DEF v
  <2>4. Same(u, v, ArrivalFields)
    BY <1>2, <2>1, <2>3 DEF Same
  <2>5. /\ v.hydrated = i.hydrated /\ i.req = u.req /\ v.gate = r.ep
        /\ v.polls = u.polls /\ v.handle = u.handle
    BY <1>2, <1>4, <2>1, <2>3 DEF Same, Fields
  <2>6. EventsArrived(u, r) = v
    BY <1>3, <1>5 DEF v, i
  <2>. QED BY <2>1, <2>3, <2>4, <2>5, <2>6
<1>6. CASE ~(Mismatch(u, r.ep) \/ r.resync) /\ r.n > r.since
  <2> DEFINE b == Insert(a, r.ep, r.since + 1, r.n)
             c == [b EXCEPT !.cursor = MaxOf(b.cursor, r.n)]
             v == CycleDone(c)
  <2>1. /\ b \in Clients /\ Same(a, b, {"store"})
        /\ \A i \in Nums : b.store[i] =
             IF i \in (r.since + 1)..r.n /\ a.store[i] = 0 THEN r.ep ELSE a.store[i]
    <3>1. \A x \in 0..MaxEpoch, f, n \in Nat :
            /\ Insert(a, x, f, n) \in Clients /\ Same(a, Insert(a, x, f, n), {"store"})
            /\ \A i \in Nums : Insert(a, x, f, n).store[i] =
                 IF i \in f..n /\ a.store[i] = 0 THEN x ELSE a.store[i]
      BY <1>2, InsertParts
    <3>. QED BY <1>1, <3>1
  <2>2. EventsArrived(u, r) = v
    BY <1>3, <1>6
  <2> HIDE DEF b
  <2>3. b.cursor = u.cursor /\ b.cursor \in Nat
    BY <1>4, <2>1 DEF Same, Fields, Clients
  <2>4. MaxOf(b.cursor, r.n) \in Nat /\ MaxOf(b.cursor, r.n) = IF u.cursor > r.n THEN u.cursor ELSE r.n
    BY <1>1, <2>3 DEF MaxOf
  <2>5. c \in Clients
    BY <2>1, <2>4, SetField
  <2>6. Same(b, c, {"cursor"}) /\ c.cursor = MaxOf(b.cursor, r.n)
    BY <2>1 DEF Same, Fields, Clients
  <2> HIDE DEF c
  <2>7. c.handle = u.handle /\ c.polls = u.polls /\ c.req = u.req /\ c.store = b.store
    BY <1>4, <2>1, <2>6 DEF Same, Fields
  <2>8. /\ v \in Clients /\ Same(c, v, {"req", "polls", "handle", "waiting"})
        /\ v.req["cycle"].st = "none"
        /\ \A q \in Slots : q # "cycle" => v.req[q] = u.req[q]
        /\ v.handle => v.polls > 0
    BY <2>5, <2>7, CycleDoneParts
  <2> HIDE DEF v
  <2>9. Same(u, v, ArrivalFields)
    BY <1>2, <2>1, <2>6, <2>8 DEF Same
  <2>10. /\ v.hydrated = u.hydrated /\ v.gate = r.ep /\ v.cursor = c.cursor /\ v.store = b.store
         /\ v.crossed = Crossing(u, r.ep)
    BY <1>2, <1>4, <2>1, <2>6, <2>7, <2>8 DEF Same, Fields
  <2>11. \A i \in Nums : v.store[i] =
           IF i \in (r.since + 1)..r.n /\ u.store[i] = 0 THEN r.ep ELSE u.store[i]
    BY <1>4, <2>1, <2>10
  <2>12. v.cursor = IF u.cursor > r.n THEN u.cursor ELSE r.n
    BY <2>4, <2>6, <2>10
  <2>. QED BY <1>6, <2>2, <2>8, <2>9, <2>10, <2>11, <2>12
<1>7. CASE ~(Mismatch(u, r.ep) \/ r.resync) /\ ~(r.n > r.since)
  <2> DEFINE v == CycleDone(a)
  <2>1. EventsArrived(u, r) = v
    BY <1>3, <1>7
  <2>2. /\ v \in Clients /\ Same(a, v, {"req", "polls", "handle", "waiting"})
        /\ v.req["cycle"].st = "none"
        /\ \A q \in Slots : q # "cycle" => v.req[q] = u.req[q]
        /\ v.handle => v.polls > 0
    BY <1>2, <1>4, CycleDoneParts
  <2> HIDE DEF v
  <2>3. Same(u, v, ArrivalFields)
    BY <1>2, <2>2 DEF Same
  <2>4. /\ v.hydrated = u.hydrated /\ v.gate = r.ep /\ v.cursor = u.cursor /\ v.store = u.store
        /\ v.crossed = Crossing(u, r.ep)
    BY <1>2, <1>4, <2>2 DEF Same, Fields
  <2>. QED BY <1>7, <2>1, <2>2, <2>3, <2>4
<1>. QED BY <1>5, <1>6, <1>7

(* A new epoch makes the client forget its log and ask for a snapshot. *)
LEMMA ObserveParts ==
  ASSUME NEW u \in Clients, u.handle => u.polls > 0, FreeCalls(u) # {}, NEW x \in 0..MaxEpoch
  PROVE  LET v == ObserveEpoch(u, x) IN
         /\ v \in Clients /\ v.gate = x
         /\ \/ /\ ~Mismatch(u, x) /\ Same(u, v, {"gate", "crossed"})
               /\ v.crossed = Crossing(u, x)
            \/ /\ UseSse /\ ~v.hydrated /\ v.source.st = "none"
               /\ Same(u, v, RestartFields)
               /\ \E s \in SseCalls :
                    v.req[s].st = "sent" /\ \A q \in Slots : q # s => v.req[q] = u.req[q]
            \/ /\ ~UseSse /\ ~v.hydrated
               /\ Same(u, v, {"gate", "crossed", "cursor", "hydrated", "req"})
               /\ \A q \in Slots : q # "cycle" => v.req[q] = u.req[q]
               /\ v.req["cycle"] = u.req["cycle"] \/ v.req["cycle"].st = "sent"
<1> DEFINE a == Adopt(u, x)
           i == Invalidate(a)
           c == CloseSource(i)
<1>1. /\ a \in Clients /\ Same(u, a, {"gate", "crossed"}) /\ a.gate = x
      /\ a.crossed = Crossing(u, x)
  BY AdoptParts
<1>2. ObserveEpoch(u, x) = IF ~Mismatch(u, x) THEN a ELSE IF UseSse THEN StartSse(c) ELSE Tick(i)
  BY DEF ObserveEpoch
<1> HIDE DEF a
<1>3. i \in Clients /\ Same(a, i, {"cursor", "hydrated"}) /\ ~i.hydrated
  BY <1>1, InvalidateParts
<1> HIDE DEF i
<1>4. c \in Clients /\ Same(i, c, {"source"}) /\ c.source.st = "none"
  BY <1>3, CloseParts
<1> HIDE DEF c
<1>5. CASE ~Mismatch(u, x)
  BY <1>1, <1>2, <1>5
<1>6. CASE Mismatch(u, x) /\ UseSse
  <2> DEFINE v == StartSse(c)
  <2>1. /\ c.handle = u.handle /\ c.polls = u.polls /\ c.req = u.req /\ ~c.hydrated
        /\ c.gate = x
    BY <1>1, <1>3, <1>4 DEF Same, Fields
  <2>2. FreeCalls(c) # {}
    BY <2>1 DEF FreeCalls
  <2>3. /\ v \in Clients /\ Same(c, v, {"reconnect", "req"})
        /\ \E s \in SseCalls :
             v.req[s].st = "sent" /\ \A q \in Slots : q # s => v.req[q] = c.req[q]
    BY <1>4, <2>1, <2>2, StartParts
  <2> HIDE DEF v
  <2>4. Same(u, v, RestartFields)
    BY <1>1, <1>3, <1>4, <2>3 DEF Same
  <2>5. v.gate = x /\ v.hydrated = c.hydrated /\ v.source = c.source
    BY <2>1, <2>3 DEF Same, Fields
  <2>. QED BY <1>2, <1>4, <1>6, <2>1, <2>3, <2>4, <2>5 DEF v
<1>7. CASE Mismatch(u, x) /\ ~UseSse
  <2> DEFINE v == Tick(i)
  <2>1. v \in Clients /\ Same(i, v, {"req"}) /\ Ticked(i, v)
    BY <1>3, TickParts
  <2> HIDE DEF v
  <2>2. Same(u, v, {"gate", "crossed", "cursor", "hydrated", "req"})
    BY <1>1, <1>3, <2>1 DEF Same
  <2>3. v.gate = x /\ v.hydrated = i.hydrated /\ i.req = u.req
    BY <1>1, <1>3, <2>1 DEF Same, Fields
  <2>. QED BY <1>2, <1>3, <1>7, <2>1, <2>2, <2>3 DEF v, Ticked
<1>. QED BY <1>5, <1>6, <1>7

(* The epoch frame greets the client, or makes it start over. *)
LEMMA EpochParts ==
  ASSUME Typed(ui), EpochFrame
  PROVE  LET x == ui.source.ep IN
         /\ ui' \in Clients /\ ui'.gate = x /\ ui.source.st = "open"
         /\ \/ /\ ~Mismatch(ui, x) /\ Same(ui, ui', {"gate", "crossed", "source"})
               /\ ui'.crossed = Crossing(ui, x)
               /\ ui'.source.st = "greeted" /\ ui'.source.ep = x
               /\ ui'.source.pos = ui.source.pos
            \/ /\ ~ui'.hydrated /\ ui'.source.st = "none"
               /\ Same(ui, ui', RestartFields)
               /\ \E s \in SseCalls :
                    ui'.req[s].st = "sent" /\ \A q \in Slots : q # s => ui'.req[q] = ui.req[q]
<1> DEFINE x == ui.source.ep
           a == Adopt(ui, x)
           c == CloseSource(a)
           i == Invalidate(c)
<1>1. ui \in Clients /\ x \in 0..MaxEpoch /\ ui.source.st = "open"
  BY DEF Typed, EpochFrame, Clients, Sources
<1>2. /\ a \in Clients /\ Same(ui, a, {"gate", "crossed"}) /\ a.gate = x
      /\ a.crossed = Crossing(ui, x)
  BY <1>1, AdoptParts
<1>3. ui' = IF Mismatch(ui, x) THEN StartSse(i) ELSE [a EXCEPT !.source.st = "greeted"]
  BY DEF EpochFrame
<1> HIDE DEF a
<1>4. c \in Clients /\ Same(a, c, {"source"}) /\ c.source.st = "none"
  BY <1>2, CloseParts
<1> HIDE DEF c
<1>5. i \in Clients /\ Same(c, i, {"cursor", "hydrated"}) /\ ~i.hydrated
  BY <1>4, InvalidateParts
<1> HIDE DEF i
<1>6. CASE ~Mismatch(ui, x)
  <2>1. a.source = ui.source
    BY <1>2 DEF Same, Fields
  <2>2. /\ ui' \in Clients /\ Same(a, ui', {"source"})
        /\ ui'.source.st = "greeted" /\ ui'.source.ep = a.source.ep
        /\ ui'.source.pos = a.source.pos
    BY <1>2, <1>3, <1>6, GreetParts
  <2>3. /\ Same(ui, ui', {"gate", "crossed", "source"}) /\ ui'.gate = x
        /\ ui'.crossed = Crossing(ui, x)
    BY <1>2, <2>2 DEF Same, Fields
  <2>. QED BY <1>1, <1>6, <2>1, <2>2, <2>3
<1>7. CASE Mismatch(ui, x)
  <2>1. /\ i.handle = ui.handle /\ i.polls = ui.polls /\ i.req = ui.req /\ i.gate = x
        /\ i.source = c.source
    BY <1>2, <1>4, <1>5 DEF Same, Fields
  <2>2. FreeCalls(i) # {} /\ (i.handle => i.polls > 0)
    BY <2>1 DEF FreeCalls, EpochFrame, Typed
  <2>3. /\ ui' \in Clients /\ Same(i, ui', {"reconnect", "req"})
        /\ \E s \in SseCalls :
             ui'.req[s].st = "sent" /\ \A q \in Slots : q # s => ui'.req[q] = i.req[q]
    BY <1>3, <1>5, <1>7, <2>2, StartParts
  <2>4. Same(ui, ui', RestartFields)
    BY <1>2, <1>4, <1>5, <2>3 DEF Same
  <2>5. ui'.gate = x /\ ui'.hydrated = i.hydrated /\ ui'.source = c.source
    BY <2>1, <2>3 DEF Same, Fields
  <2>. QED BY <1>1, <1>4, <1>5, <2>1, <2>3, <2>4, <2>5
<1>. QED BY <1>6, <1>7

-----------------------------------------------------------------------------
(* A client stays typed if its timers and its stream are as they were, or its
   named timer exists and its stream belongs to its mode.                     *)
LEMMA Retyped ==
  ASSUME NEW u, Typed(u), NEW v \in Clients,
         (v.handle = u.handle /\ v.polls = u.polls) \/ (v.handle => v.polls > 0),
         (v.source = u.source /\ v.mode = u.mode) \/ v.source.st = "none" \/ v.mode = "sse"
  PROVE  Typed(v)
BY DEF Typed

(* Types depend on the timers, the mode and the stream only. *)
LEMMA SameTyped ==
  ASSUME NEW u, Typed(u), NEW v \in Clients, NEW F, Same(u, v, F),
         F \cap {"handle", "polls", "source", "mode"} = {}
  PROVE  Typed(v)
<1>1. v.handle = u.handle /\ v.polls = u.polls /\ v.source = u.source /\ v.mode = u.mode
  BY DEF Same, Fields
<1>. QED BY <1>1, Retyped

(* The step of a poll cycle keeps the types. *)
LEMMA CycleTyped ==
  ASSUME Served, CycleStep
  PROVE  Typed(ui')
<1> DEFINE r == ui.req["cycle"]
<1>1. Typed(ui) /\ ui \in Clients /\ (ui.handle => ui.polls > 0) /\ r \in Requests
  BY DEF Served, Typed, Clients, Slots
<1>2. ui' = CASE r.st = "failed" -> CycleDone(ui)
             [] r.st = "answered" /\ r.kind = "first" -> FirstSnapshot(ui, r)
             [] r.st = "answered" /\ r.kind = "events" -> EventsArrived(ui, r)
             [] OTHER -> CycleDone(Hydrate(ui, r))
  BY DEF CycleStep
<1> HIDE DEF r
<1>3. \/ ui' = CycleDone(ui) \/ ui' = FirstSnapshot(ui, r)
      \/ ui' = EventsArrived(ui, r) \/ ui' = CycleDone(Hydrate(ui, r))
  BY <1>2
<1>4. CASE ui' = CycleDone(ui)
  <2>1. /\ ui' \in Clients /\ Same(ui, ui', {"req", "polls", "handle", "waiting"})
        /\ ui'.handle => ui'.polls > 0
    BY <1>1, <1>4, CycleDoneParts
  <2>2. ui'.source = ui.source /\ ui'.mode = ui.mode
    BY <2>1 DEF Same, Fields
  <2>. QED BY <1>1, <2>1, <2>2, Retyped
<1>5. CASE ui' = FirstSnapshot(ui, r)
  <2>1. ui' \in Clients /\ Same(ui, ui', SnapshotFields \cup {"req"})
    BY <1>1, <1>5, FirstParts
  <2>. QED BY <1>1, <2>1, SameTyped
<1>6. CASE ui' = EventsArrived(ui, r)
  <2>1. /\ ui' \in Clients /\ (ui'.handle => ui'.polls > 0)
        /\ Same(ui, ui', ArrivalFields)
    BY <1>1, <1>6, ArrivedParts
  <2>2. ui'.source = ui.source /\ ui'.mode = ui.mode
    BY <2>1 DEF Same, Fields
  <2>. QED BY <1>1, <2>1, <2>2, Retyped
<1>7. CASE ui' = CycleDone(Hydrate(ui, r))
  <2> DEFINE h == Hydrate(ui, r)
  <2>1. h \in Clients /\ Same(ui, h, SnapshotFields)
    BY <1>1, HydrateParts
  <2>2. Typed(h) /\ (h.handle => h.polls > 0)
    BY <1>1, <2>1, SameTyped DEF Typed
  <2> HIDE DEF h
  <2>3. /\ ui' \in Clients /\ Same(h, ui', {"req", "polls", "handle", "waiting"})
        /\ ui'.handle => ui'.polls > 0
    BY <1>7, <2>1, <2>2, CycleDoneParts DEF h
  <2>4. ui'.source = h.source /\ ui'.mode = h.mode
    BY <2>3 DEF Same, Fields
  <2>. QED BY <2>2, <2>3, <2>4, Retyped
<1>. QED BY <1>3, <1>4, <1>5, <1>6, <1>7

(* So does starting the stream. *)
LEMMA StartTyped ==
  ASSUME NEW u, Typed(u), FreeCalls(u) # {}
  PROVE  Typed(StartSse(u))
<1> DEFINE v == StartSse(u)
<1>1. u \in Clients /\ (u.handle => u.polls > 0)
  BY DEF Typed
<1>2. /\ v \in Clients
      /\ \/ v.mode = "sse" /\ ~v.handle
         \/ Same(u, v, {"reconnect", "req"})
  BY <1>1, StartParts
<1> HIDE DEF v
<1>3. ASSUME v.mode = "sse", ~v.handle PROVE Typed(v)
  BY <1>2, <1>3, Retyped
<1>4. ASSUME Same(u, v, {"reconnect", "req"}) PROVE Typed(v)
  BY <1>2, <1>4, SameTyped
<1>. QED BY <1>2, <1>3, <1>4 DEF v

(* So does losing it. *)
LEMMA BrokenTyped ==
  ASSUME NEW u, Typed(u)
  PROVE  Typed(SseBroken(u))
<1> DEFINE v == SseBroken(u)
<1>1. /\ v \in Clients /\ v.source.st = "none"
      /\ Same(u, v, {"source", "reconnect", "mode", "upgrade", "failures", "req", "waiting"})
  BY BrokenParts DEF Typed
<1> HIDE DEF v
<1>2. v.handle = u.handle /\ v.polls = u.polls
  BY <1>1 DEF Same, Fields
<1>3. Typed(v)
  BY <1>1, <1>2, Retyped
<1>. QED BY <1>3 DEF v

(* The window begins at a number. *)
LEMMA FloorType == \A n \in Nat : FloorOf(n) \in Nat
BY FeedAssumption DEF FloorOf

(* The client after its start. *)
LEMMA FirstClient ==
  /\ Typed(UiInit) /\ UiInit.gate = 0 /\ ~UiInit.hydrated /\ UiInit.source.st = "none"
  /\ UiInit.polls = 0 /\ ~UiInit.reconnect /\ ~UiInit.upgrade
  /\ \A s \in Slots : UiInit.req[s].st = "none"
  /\ FreeCalls(UiInit) # {}
<1> DEFINE m == [i \in Nums |-> 0]
           q == [s \in Slots |-> NoRequest]
<1>1. /\ m \in [Nums -> 0..MaxEpoch] /\ q \in [Slots -> Requests] /\ NoSource \in Sources
      /\ 0 \in 0..MaxEpoch
  BY Sentinels, ClientAssumption
<1>2. UiInit = [gate |-> 0, cursor |-> 0, hydrated |-> FALSE, mode |-> "polling", polls |-> 0,
                handle |-> FALSE, waiting |-> 0, reconnect |-> FALSE, upgrade |-> FALSE,
                failures |-> 0, source |-> NoSource, store |-> m, req |-> q,
                base |-> 0, crossed |-> FALSE]
  BY DEF UiInit
<1>3. \A s \in Slots : q[s].st = "none"
  BY DEF NoRequest
<1>4. NoSource.st = "none"
  BY DEF NoSource
<1> HIDE DEF m, q
<1>5. UiInit \in Clients
  BY <1>1, <1>2 DEF Clients
<1>6. /\ UiInit.gate = 0 /\ ~UiInit.hydrated /\ UiInit.source = NoSource /\ UiInit.polls = 0
      /\ ~UiInit.reconnect /\ ~UiInit.upgrade /\ ~UiInit.handle /\ UiInit.req = q
  BY <1>2
<1>7. "sse1" \in FreeCalls(UiInit)
  BY <1>3, <1>6 DEF FreeCalls, SseCalls, Slots
<1>. QED BY <1>3, <1>4, <1>5, <1>6, <1>7 DEF Typed

(* Every step of the client leaves it typed. *)
LEMMA ClientTyped ==
  ASSUME Served, Next
  PROVE  Typed(ui')
<1>1. Typed(ui) /\ ui \in Clients /\ FeedTypeOK /\ epoch <= MaxEpoch
  BY DEF Served, Typed
<1>2. ASSUME NEW s \in Slots, Serve(s) PROVE Typed(ui')
  <2>1. ui' \in Clients /\ Same(ui, ui', {"req"})
    BY <1>1, <1>2, ServeParts
  <2>. QED BY <1>1, <2>1, SameTyped
<1>3. ASSUME NEW s \in Slots, Refuse(s) PROVE Typed(ui')
  <2>1. ui' \in Clients /\ Same(ui, ui', {"req"})
    BY <1>1, <1>3, RefuseParts
  <2>. QED BY <1>1, <2>1, SameTyped
<1>4. CASE CycleStep
  BY <1>4, CycleTyped
<1>5. ASSUME NEW s \in SseCalls, SseStep(s) PROVE Typed(ui')
  <2> DEFINE d == Done(ui, s)
             r == ui.req[s]
             h == Hydrate(d, r)
  <2>1. s \in Slots /\ r \in Requests
    BY <1>1, <1>5 DEF Slots, Clients
  <2>2. d \in Clients /\ Same(ui, d, {"req"})
    BY <1>1, <2>1, DoneParts
  <2>3. Typed(d)
    BY <1>1, <2>2, SameTyped
  <2>4. ui' = IF r.st = "answered" THEN OpenStream(h) ELSE SseBroken(d)
    BY <1>5 DEF SseStep
  <2> HIDE DEF d, r
  <2>5. h \in Clients /\ Same(d, h, SnapshotFields)
    BY <2>1, <2>2, HydrateParts
  <2>6. Typed(h)
    BY <2>3, <2>5, SameTyped
  <2> HIDE DEF h
  <2>7. ASSUME ui' = OpenStream(h) PROVE Typed(ui')
    <3>1. ui' \in Clients /\ ui'.mode = "sse" /\ ~ui'.handle
      BY <2>5, <2>6, <2>7, OpenParts DEF Typed
    <3>. QED BY <2>6, <3>1, Retyped
  <2>8. ASSUME ui' = SseBroken(d) PROVE Typed(ui')
    BY <2>3, <2>8, BrokenTyped
  <2>. QED BY <2>4, <2>7, <2>8
<1>6. CASE HealthStep
  <2> DEFINE d == Done(ui, "health")
             r == ui.req["health"]
  <2>1. "health" \in Slots /\ r \in Requests /\ r.ep \in 0..MaxEpoch
    BY <1>1 DEF Slots, Clients, Requests
  <2>2. d \in Clients /\ Same(ui, d, {"req"}) /\ \A q \in Slots : q # "health" => d.req[q] = ui.req[q]
    BY <1>1, <2>1, DoneParts
  <2>3. Typed(d) /\ (d.handle => d.polls > 0)
    BY <1>1, <2>2, SameTyped DEF Typed
  <2>4. FreeCalls(d) # {}
    <3>1. \A s \in SseCalls : d.req[s] = ui.req[s]
      BY <2>2 DEF Slots, SseCalls
    <3>. QED BY <1>6, <3>1 DEF FreeCalls, HealthStep
  <2>5. ui' = IF r.st = "answered" THEN ObserveEpoch(d, r.ep) ELSE d
    BY <1>6 DEF HealthStep
  <2> HIDE DEF d, r
  <2>6. ASSUME ui' = ObserveEpoch(d, r.ep) PROVE Typed(ui')
    <3>1. /\ ui' \in Clients
          /\ \/ Same(d, ui', {"gate", "crossed"})
             \/ /\ Same(d, ui', RestartFields)
                /\ ui'.source.st = "none"
             \/ Same(d, ui', {"gate", "crossed", "cursor", "hydrated", "req"})
      BY <2>1, <2>2, <2>3, <2>4, <2>6, ObserveParts
    <3>2. ASSUME Same(d, ui', RestartFields),
                 ui'.source.st = "none"
          PROVE  Typed(ui')
      <4>1. ui'.handle = d.handle /\ ui'.polls = d.polls
        BY <3>2 DEF Same, Fields
      <4>. QED BY <2>3, <3>1, <3>2, <4>1, Retyped
    <3>3. ASSUME Same(d, ui', {"gate", "crossed"}) PROVE Typed(ui')
      BY <2>3, <3>1, <3>3, SameTyped
    <3>4. ASSUME Same(d, ui', {"gate", "crossed", "cursor", "hydrated", "req"}) PROVE Typed(ui')
      BY <2>3, <3>1, <3>4, SameTyped
    <3>. QED BY <3>1, <3>2, <3>3, <3>4
  <2>. QED BY <2>3, <2>5, <2>6
<1>7. CASE Accept
  <2>1. ui' \in Clients /\ Same(ui, ui', {"source"}) /\ ui.source.st = "connecting"
    BY <1>1, <1>7, AcceptParts
  <2>2. ui'.handle = ui.handle /\ ui'.polls = ui.polls /\ ui'.mode = ui.mode /\ ui.mode = "sse"
    BY <1>1, <2>1 DEF Same, Fields, Typed
  <2>. QED BY <1>1, <2>1, <2>2, Retyped
<1>8. CASE EpochFrame
  <2>1. /\ ui' \in Clients
        /\ \/ Same(ui, ui', {"gate", "crossed", "source"}) /\ ui.source.st = "open"
           \/ /\ ui'.source.st = "none"
              /\ Same(ui, ui', RestartFields)
    BY <1>1, <1>8, EpochParts
  <2>2. ui'.handle = ui.handle /\ ui'.polls = ui.polls /\ ui'.mode = ui.mode
    BY <2>1 DEF Same, Fields
  <2>3. ui.source.st = "open" => ui.mode = "sse"
    BY <1>1 DEF Typed
  <2>. QED BY <1>1, <2>1, <2>2, <2>3, Retyped
<1>9. CASE RunEventFrame
  <2>1. /\ ui' \in Clients /\ ~ui'.handle /\ ui.source.st = "greeted"
        /\ Same(ui, ui', {"store", "polls", "handle", "failures", "upgrade", "reconnect",
                          "cursor", "source"})
    BY <1>1, <1>9, FrameParts
  <2>2. ui'.mode = ui.mode /\ ui.mode = "sse"
    BY <1>1, <2>1 DEF Same, Fields, Typed
  <2>. QED BY <1>1, <2>1, <2>2, Retyped
<1>10. CASE StreamDies
  BY <1>1, <1>10, BrokenTyped DEF StreamDies
<1>11. CASE StreamDrops
  BY <1>1, <1>11, BrokenTyped DEF StreamDrops
<1>12. CASE PollTimer
  <2>1. /\ ui' \in Clients /\ Same(ui, ui', {"polls", "handle", "req", "waiting"})
        /\ ui'.handle => ui'.polls > 0
    BY <1>1, <1>12, PollParts
  <2>2. ui'.source = ui.source /\ ui'.mode = ui.mode
    BY <2>1 DEF Same, Fields
  <2>. QED BY <1>1, <2>1, <2>2, Retyped
<1>13. CASE ReconnectTimer
  BY <1>1, <1>13, StartTyped DEF ReconnectTimer
<1>14. CASE UpgradeTimer
  BY <1>1, <1>14, StartTyped DEF UpgradeTimer
<1>15. CASE HealthTimer
  <2>1. ui' \in Clients /\ Same(ui, ui', {"req"})
    <3>1. "health" \in Slots /\ "health" \in Questions /\ 0 \in Nat
      BY DEF Slots, Questions
    <3>. QED BY <1>1, <1>15, <3>1, SendParts DEF HealthTimer
  <2>. QED BY <1>1, <2>1, SameTyped
<1>16. CASE RunStarted
  <2>1. ui' \in Clients /\ Same(ui, ui', {"req"})
    BY <1>1, <1>16, TickParts DEF RunStarted
  <2>. QED BY <1>1, <2>1, SameTyped
<1>17. CASE ServerDies
  <2>1. ui' \in Clients /\ Same(ui, ui', {"req", "source"}) /\ ui'.source.st = ui.source.st
    BY <1>1, <1>17, DiesParts
  <2>2. ui'.handle = ui.handle /\ ui'.polls = ui.polls /\ ui'.mode = ui.mode
    BY <2>1 DEF Same, Fields
  <2>. QED BY <1>1, <2>1, <2>2 DEF Typed
<1>18. CASE ServerBoots
  BY <1>1, <1>18 DEF ServerBoots
<1>19. CASE ServerPublishes
  BY <1>1, <1>19 DEF ServerPublishes
<1>. QED BY <1>2, <1>3, <1>4, <1>5, <1>6, <1>7, <1>8, <1>9, <1>10, <1>11, <1>12, <1>13, <1>14,
            <1>15, <1>16, <1>17, <1>18, <1>19 DEF Next

(* The server's part: a step of the client leaves it, the others are its own. *)
LEMMA FeedSteps ==
  ASSUME Next
  PROVE  \/ UNCHANGED feedVars
         \/ ServerDies \/ ServerBoots \/ ServerPublishes
BY DEF Next, Serve, Refuse, CycleStep, SseStep, HealthStep, Accept, EpochFrame, RunEventFrame,
       StreamDies, StreamDrops, PollTimer, ReconnectTimer, UpgradeTimer, HealthTimer, RunStarted

(* Connections are dropped MaxDrops times at most. *)
LEMMA DropsTyped ==
  ASSUME drops \in 0..MaxDrops, Next
  PROVE  drops' \in 0..MaxDrops
<1>1. drops' = drops \/ StreamDrops
  BY DEF Next, Serve, Refuse, CycleStep, SseStep, HealthStep, Accept, EpochFrame, RunEventFrame,
         StreamDies, PollTimer, ReconnectTimer, UpgradeTimer, HealthTimer, RunStarted,
         ServerDies, ServerBoots, ServerPublishes
<1>2. CASE StreamDrops
  <2>1. drops' = drops + 1 /\ drops < MaxDrops
    BY <1>2 DEF StreamDrops
  <2>. QED BY <2>1, ClientAssumption
<1>. QED BY <1>1, <1>2

(* Types and answers hold after every step. *)
LEMMA ServedStep ==
  ASSUME Served, [Next]_vars
  PROVE  Served'
<1>1. CASE UNCHANGED vars
  BY <1>1 DEF vars, feedVars, Served, FeedTypeOK, Typed
<1>2. CASE Next
  <2>1. Typed(ui') /\ drops' \in 0..MaxDrops
    BY <1>2, ClientTyped, DropsTyped DEF Served
  <2>2. FeedTypeOK' /\ epoch' <= MaxEpoch
    <3>1. FeedTypeOK /\ epoch <= MaxEpoch /\ MaxEpoch \in Nat
      BY ClientAssumption DEF Served
    <3>2. CASE UNCHANGED feedVars
      BY <3>1, <3>2 DEF feedVars, FeedTypeOK
    <3>3. CASE ServerDies
      BY <3>1, <3>3 DEF ServerDies, Kill, FeedTypeOK
    <3>4. CASE ServerBoots
      BY <3>1, <3>4, FloorType DEF ServerBoots, BootFeed, FeedTypeOK
    <3>5. CASE ServerPublishes
      BY <3>1, <3>5, FloorType DEF ServerPublishes, Publish, FeedTypeOK
    <3>. QED BY <1>2, <3>2, <3>3, <3>4, <3>5, FeedSteps
  <2>. QED BY <2>1, <2>2 DEF Served, Typed
<1>. QED BY <1>1, <1>2

(* They hold at the start. *)
LEMMA ServedInit == Init => Served
<1> SUFFICES ASSUME Init PROVE Served
  OBVIOUS
<1>1. FeedTypeOK /\ epoch <= MaxEpoch /\ drops \in 0..MaxDrops
  <2>1. online = FALSE /\ epoch = 0 /\ len = 0 /\ floor = 0 /\ drops = 0
    BY DEF Init, FeedInit
  <2>2. MaxEpoch \in Nat /\ MaxDrops \in Nat
    BY ClientAssumption
  <2>3. FeedTypeOK
    BY <2>1 DEF FeedTypeOK
  <2>4. 0 <= MaxEpoch /\ 0 \in 0..MaxDrops
    BY <2>2
  <2>. QED BY <2>1, <2>3, <2>4
<1>2. Typed(StartSse(UiInit))
  BY FirstClient, StartTyped
<1>3. Typed(Loop(UiInit))
  <2> DEFINE v == Loop(UiInit)
  <2>1. v \in Clients /\ Same(UiInit, v, {"req", "waiting"})
    BY FirstClient, LoopParts DEF Typed
  <2> HIDE DEF v
  <2>2. Typed(v)
    BY <2>1, FirstClient, SameTyped
  <2>. QED BY <2>2 DEF v
<1>. QED BY <1>1, <1>2, <1>3 DEF Init, Served

(* The client's state has its types under every transport, a named poll timer
   exists, and a stream is held in the streaming mode only (api.ts,
   createEventPoller).                                                        *)
THEOREM TypeCorrect == Spec => []TypeOK
<1>1. Served => TypeOK
  <2> SUFFICES ASSUME Served PROVE TypeOK
    OBVIOUS
  <2>1. ui \in Clients /\ Typed(ui)
    BY DEF Served, Typed
  <2>2. DOMAIN ui = DOMAIN UiInit
    BY <2>1 DEF Clients, UiInit
  <2>3. \A f \in Counters : ui[f] \in Nat
    BY <2>1, ClientAssumption DEF Clients, Counters
  <2>. QED BY <2>1, <2>2, <2>3 DEF Served, Typed, Clients, TypeOK
<1>2. Spec => []Served
  BY ServedInit, ServedStep, PTL DEF Spec
<1>. QED BY <1>1, <1>2, PTL


-----------------------------------------------------------------------------
(***************************************************************************)
(* No silent gap.  The beliefs hold of every client the steps produce.     *)
(***************************************************************************)
Holds(u) == Believes(u) /\ Streamed(u)

(* A poll that is asked for asks from the cursor. *)
LEMMA TickHolds ==
  ASSUME ~UseSse, NEW u \in Clients, NEW v \in Clients, Holds(u), Ticked(u, v),
         Same(u, v, {"polls", "handle", "req", "waiting"})
  PROVE  Holds(v)
<1>1. /\ v.gate = u.gate /\ v.cursor = u.cursor /\ v.hydrated = u.hydrated /\ v.store = u.store
      /\ v.source = u.source /\ v.reconnect = u.reconnect /\ v.upgrade = u.upgrade
      /\ v.base = u.base /\ v.crossed = u.crossed
  BY DEF Same, Fields
<1>2. Answered(u) /\ Exact(u) /\ Asked(u) /\ Pure(u) /\ Streamed(u)
  BY DEF Holds, Believes
<1>3. Exact(v) /\ Streamed(v)
  BY <1>1, <1>2 DEF Exact, Streamed
<1>4. Answered(v)
  BY <1>2 DEF Ticked, Answered
<1>5. Asked(v)
  BY <1>1, <1>2 DEF Ticked, Asked
<1>6. Pure(v)
  BY <1>1, <1>2 DEF Ticked, Pure, SseCalls, Slots
<1>. QED BY <1>3, <1>4, <1>5, <1>6 DEF Holds, Believes

(* A stream that is lost takes nothing else with it. *)
LEMMA BrokenHolds ==
  ASSUME UseSse, NEW u \in Clients, NEW v \in Clients, Holds(u),
         Same(u, v, {"source", "reconnect", "failures"}), v.source.st = "none"
  PROVE  Holds(v)
<1>1. /\ v.gate = u.gate /\ v.cursor = u.cursor /\ v.hydrated = u.hydrated /\ v.store = u.store
      /\ v.req = u.req /\ v.polls = u.polls /\ v.base = u.base /\ v.crossed = u.crossed
  BY DEF Same, Fields
<1>. QED BY <1>1 DEF Holds, Believes, Answered, Exact, Asked, Pure, Streamed

(* A hydrated client opens a stream at its cursor. *)
LEMMA OpenHolds ==
  ASSUME UseSse, NEW u \in Clients, NEW v \in Clients, Believes(u), u.hydrated,
         Same(u, v, {"reconnect", "polls", "handle", "mode", "source"}),
         v.source.st = "connecting", v.source.pos = u.cursor, u.polls = 0 => v.polls = 0
  PROVE  Holds(v)
<1>1. /\ v.gate = u.gate /\ v.cursor = u.cursor /\ v.hydrated = u.hydrated /\ v.store = u.store
      /\ v.req = u.req /\ v.base = u.base /\ v.crossed = u.crossed
  BY DEF Same, Fields
<1>. QED BY <1>1 DEF Holds, Believes, Answered, Exact, Asked, Pure, Streamed

(* A client that is not hydrated believes nothing of its log; it asks. *)
LEMMA AskingHolds ==
  ASSUME NEW u \in Clients, NEW v \in Clients, Pure(u), Answered(u), ~v.hydrated,
         v.source.st = "none",
         \/ /\ UseSse /\ v.polls = u.polls
            /\ \E s \in SseCalls :
                 v.req[s].st = "sent" /\ \A q \in Slots : q # s => v.req[q] = u.req[q]
         \/ /\ ~UseSse /\ v.reconnect = u.reconnect /\ v.upgrade = u.upgrade
            /\ \A q \in Slots : q # "cycle" => v.req[q] = u.req[q]
            /\ v.req["cycle"] = u.req["cycle"] \/ v.req["cycle"].st = "sent"
  PROVE  Holds(v)
<1>1. Exact(v) /\ Asked(v) /\ Streamed(v)
  BY DEF Exact, Asked, Streamed
<1>2. Answered(v)
  BY DEF Answered
<1>3. Pure(v)
  BY DEF Pure, SseCalls, Slots
<1>. QED BY <1>1, <1>2, <1>3 DEF Holds, Believes

(* startSse() *)
LEMMA StartHolds ==
  ASSUME UseSse, NEW u, Typed(u), FreeCalls(u) # {}, Holds(u)
  PROVE  Holds(StartSse(u))
<1> DEFINE v == StartSse(u)
<1>1. u \in Clients /\ (u.handle => u.polls > 0)
  BY DEF Typed
<1>2. /\ v \in Clients
      /\ \/ /\ u.hydrated
            /\ Same(u, v, {"reconnect", "polls", "handle", "mode", "source"})
            /\ v.source.st = "connecting" /\ v.source.pos = u.cursor
            /\ u.polls = 0 => v.polls = 0
         \/ /\ ~u.hydrated /\ Same(u, v, {"reconnect", "req"})
            /\ \E s \in SseCalls :
                 v.req[s].st = "sent" /\ \A q \in Slots : q # s => v.req[q] = u.req[q]
  BY <1>1, StartParts
<1> HIDE DEF v
<1>3. CASE u.hydrated
  BY <1>1, <1>2, <1>3, OpenHolds DEF Holds, v
<1>4. CASE ~u.hydrated
  <2>1. /\ v.gate = u.gate /\ v.hydrated = u.hydrated /\ v.source = u.source /\ v.polls = u.polls
    BY <1>2, <1>4 DEF Same, Fields
  <2>2. Pure(u) /\ Answered(u) /\ v.source.st = "none"
    BY <1>4, <2>1 DEF Holds, Believes, Streamed
  <2>3. Holds(v)
    BY <1>1, <1>2, <1>4, <2>1, <2>2, AskingHolds
  <2>. QED BY <2>3 DEF v
<1>. QED BY <1>3, <1>4

(* A request that is sent or ends changes nothing believed of the log. *)
LEMMA RequestHolds ==
  ASSUME NEW u \in Clients, NEW v \in Clients, Holds(u), Same(u, v, {"req"}),
         Answered(v), Asked(v),
         \A s \in Slots \ {"health"} : u.req[s].st = "none" => v.req[s].st = "none"
  PROVE  Holds(v)
<1>1. /\ v.gate = u.gate /\ v.cursor = u.cursor /\ v.hydrated = u.hydrated /\ v.store = u.store
      /\ v.source = u.source /\ v.polls = u.polls
      /\ v.reconnect = u.reconnect /\ v.upgrade = u.upgrade
      /\ v.base = u.base /\ v.crossed = u.crossed
  BY DEF Same, Fields
<1>2. Exact(v) /\ Streamed(v)
  BY <1>1 DEF Holds, Believes, Exact, Streamed
<1>3. Pure(v)
  BY <1>1 DEF Holds, Believes, Pure, SseCalls, Slots
<1>. QED BY <1>2, <1>3 DEF Holds, Believes

(* Ending a request disturbs no belief. *)
LEMMA DoneHolds ==
  ASSUME NEW u \in Clients, NEW s \in Slots, Holds(u)
  PROVE  Holds(Done(u, s))
<1> DEFINE d == Done(u, s)
<1>1. /\ d \in Clients /\ Same(u, d, {"req"}) /\ d.req[s].st = "none"
      /\ \A q \in Slots : q # s => d.req[q] = u.req[q]
  BY DoneParts
<1> HIDE DEF d
<1>2. d.hydrated = u.hydrated /\ d.cursor = u.cursor
  BY <1>1 DEF Same, Fields
<1>3. Answered(d)
  BY <1>1 DEF Holds, Believes, Answered
<1>4. Asked(d)
  BY <1>1, <1>2 DEF Holds, Believes, Asked, Slots
<1>5. \A q \in Slots \ {"health"} : u.req[q].st = "none" => d.req[q].st = "none"
  BY <1>1
<1>6. Holds(d)
  BY <1>1, <1>3, <1>4, <1>5, RequestHolds
<1>. QED BY <1>6 DEF d

(* A client that shows a snapshot holds the log of the process it came from. *)
LEMMA HydratedExact ==
  ASSUME NEW v, NEW r \in Requests, v.gate \in Nat, 0 < r.ep, r.ep <= epoch,
         v.cursor = r.n, v.base = r.ep, v.crossed = (r.ep < v.gate),
         \A i \in Nums : v.store[i] = IF i <= r.n THEN r.ep ELSE 0
  PROVE  Exact(v)
<1>1. r.ep \in Nat
  BY ClientAssumption DEF Requests
<1>2. ~v.crossed => v.gate <= r.ep
  <2>1. ~(r.ep < v.gate) => v.gate <= r.ep
    BY <1>1
  <2>. QED BY <2>1
<1>. QED BY <1>2 DEF Exact

(* A client that takes an epoch without a mismatch and is not stranded by it
   still holds the log of its snapshot's process.                            *)
LEMMA AdoptedExact ==
  ASSUME NEW u, NEW v, NEW x \in Nat, Exact(u), 0 < x, u.gate \in {0, x}, u.base \in Nat,
         v.gate = x, v.crossed = Crossing(u, x), v.hydrated = u.hydrated,
         v.base = u.base, v.cursor = u.cursor, v.store = u.store
  PROVE  Exact(v)
<1> SUFFICES ASSUME v.hydrated, ~v.crossed
             PROVE  /\ x <= u.base /\ 0 < u.base /\ u.base <= epoch
                    /\ x = u.base =>
                         \A i \in Nums : u.store[i] = IF i <= u.cursor THEN u.base ELSE 0
  BY DEF Exact
<1>1. u.hydrated /\ ~u.crossed /\ ~(u.gate = 0 /\ u.base < x)
  BY DEF Crossing
<1>2. u.gate <= u.base /\ 0 < u.base /\ u.base <= epoch
  BY <1>1 DEF Exact
<1>3. x <= u.base
  BY <1>1, <1>2
<1>. QED BY <1>1, <1>2, <1>3 DEF Exact

(* An answer to the cycle: a failure, the first snapshot, events, a snapshot
   asked for again.                                                          *)
LEMMA CycleHolds ==
  ASSUME Served, Sound, CycleStep
  PROVE  Holds(ui')
<1> DEFINE r == ui.req["cycle"]
<1>1. /\ Typed(ui) /\ ui \in Clients /\ (ui.handle => ui.polls > 0) /\ r \in Requests
      /\ "cycle" \in Slots
  BY DEF Served, Typed, Clients, Slots
<1>2. Answered(ui) /\ Exact(ui) /\ Asked(ui) /\ Pure(ui) /\ Streamed(ui)
  BY DEF Sound, Believes
<1>3. r.st \in {"answered", "failed"}
  BY DEF CycleStep
<1>4. ~UseSse /\ ui.source.st = "none" /\ epoch \in Nat
  BY <1>2, <1>3 DEF Pure, Served, FeedTypeOK
<1>5. /\ r.st = "answered" => 0 < r.ep /\ r.ep <= epoch
      /\ r.ep \in Nat /\ ui.gate \in Nat /\ ui.base \in Nat /\ ui.crossed \in BOOLEAN
  BY <1>1, <1>2, ClientAssumption DEF Answered, Requests, Clients
<1>6. r.kind = "events" /\ ui.hydrated => r.since = ui.cursor
  BY <1>2, <1>3 DEF Asked
<1>7. ui' = CASE r.st = "failed" -> CycleDone(ui)
             [] r.st = "answered" /\ r.kind = "first" -> FirstSnapshot(ui, r)
             [] r.st = "answered" /\ r.kind = "events" -> EventsArrived(ui, r)
             [] OTHER -> CycleDone(Hydrate(ui, r))
  BY DEF CycleStep
<1>8. \A v \in Clients : v.source = ui.source /\ v.reconnect = ui.reconnect /\ v.upgrade = ui.upgrade
         /\ (\A q \in Slots : q # "cycle" => v.req[q] = ui.req[q]) => Pure(v) /\ Streamed(v)
  BY <1>2, <1>4 DEF Pure, Streamed, SseCalls, Slots
<1> HIDE DEF r
<1>9. ASSUME ui' = CycleDone(ui) PROVE Holds(ui')
  <2>1. /\ ui' \in Clients /\ Same(ui, ui', {"req", "polls", "handle", "waiting"})
        /\ ui'.req["cycle"].st = "none"
        /\ \A q \in Slots : q # "cycle" => ui'.req[q] = ui.req[q]
    BY <1>1, <1>9, CycleDoneParts
  <2>2. /\ ui'.gate = ui.gate /\ ui'.cursor = ui.cursor /\ ui'.hydrated = ui.hydrated
        /\ ui'.store = ui.store /\ ui'.source = ui.source
        /\ ui'.reconnect = ui.reconnect /\ ui'.upgrade = ui.upgrade
        /\ ui'.base = ui.base /\ ui'.crossed = ui.crossed
    BY <2>1 DEF Same, Fields
  <2>3. Pure(ui') /\ Streamed(ui')
    BY <1>8, <2>1, <2>2
  <2>4. Exact(ui')
    BY <1>2, <2>2 DEF Exact
  <2>5. Answered(ui') /\ Asked(ui')
    BY <1>2, <2>1 DEF Answered, Asked
  <2>. QED BY <2>3, <2>4, <2>5 DEF Holds, Believes
<1>10. ASSUME r.st = "answered", ui' = FirstSnapshot(ui, r) PROVE Holds(ui')
  <2>1. /\ ui' \in Clients /\ Same(ui, ui', SnapshotFields \cup {"req"})
        /\ ui'.cursor = r.n /\ ui'.base = r.ep /\ ui'.crossed = (r.ep < ui.gate)
        /\ \A i \in Nums : ui'.store[i] = IF i <= r.n THEN r.ep ELSE 0
        /\ ui'.req["cycle"].st = "sent" /\ ui'.req["cycle"].since = ui'.cursor
        /\ \A q \in Slots : q # "cycle" => ui'.req[q] = ui.req[q]
    BY <1>1, <1>10, FirstParts
  <2>2. /\ ui'.gate = ui.gate /\ ui'.source = ui.source
        /\ ui'.reconnect = ui.reconnect /\ ui'.upgrade = ui.upgrade
    BY <2>1 DEF Same, Fields
  <2>3. Pure(ui') /\ Streamed(ui')
    BY <1>8, <2>1, <2>2
  <2>4. Exact(ui')
    BY <1>1, <1>5, <1>10, <2>1, <2>2, HydratedExact
  <2>5. Answered(ui') /\ Asked(ui')
    BY <1>2, <2>1 DEF Answered, Asked
  <2>. QED BY <2>3, <2>4, <2>5 DEF Holds, Believes
<1>11. ASSUME r.st = "answered", r.kind = "events", ui' = EventsArrived(ui, r) PROVE Holds(ui')
  <2>1. /\ ui' \in Clients
        /\ Same(ui, ui', ArrivalFields)
        /\ ui'.gate = r.ep
        /\ \A q \in Slots : q # "cycle" => ui'.req[q] = ui.req[q]
        /\ \/ /\ ~ui'.hydrated /\ ui'.req["cycle"].st = "sent"
           \/ /\ ~Mismatch(ui, r.ep) /\ ui'.hydrated = ui.hydrated /\ ui'.req["cycle"].st = "none"
              /\ ui'.crossed = Crossing(ui, r.ep)
              /\ r.n > r.since /\ ui'.cursor = IF ui.cursor > r.n THEN ui.cursor ELSE r.n
              /\ \A i \in Nums : ui'.store[i] =
                   IF i \in (r.since + 1)..r.n /\ ui.store[i] = 0 THEN r.ep ELSE ui.store[i]
           \/ /\ ~Mismatch(ui, r.ep) /\ ui'.hydrated = ui.hydrated /\ ui'.req["cycle"].st = "none"
              /\ ui'.crossed = Crossing(ui, r.ep)
              /\ ui'.cursor = ui.cursor /\ ui'.store = ui.store
    BY <1>1, <1>11, ArrivedParts
  <2>2. /\ ui'.source = ui.source /\ ui'.base = ui.base
        /\ ui'.reconnect = ui.reconnect /\ ui'.upgrade = ui.upgrade
    BY <2>1 DEF Same, Fields
  <2>3. Pure(ui') /\ Streamed(ui')
    BY <1>8, <2>1, <2>2
  <2>5. Answered(ui') /\ Asked(ui')
    BY <1>2, <2>1 DEF Answered, Asked
  <2>6. Exact(ui')
    <3>1. CASE ~(ui'.hydrated /\ ~ui'.crossed)
      BY <3>1 DEF Exact
    <3>2. CASE ui'.hydrated /\ ~ui'.crossed
      <4>1. /\ ~Mismatch(ui, r.ep) /\ ui.hydrated /\ ~Crossing(ui, r.ep)
            /\ \/ /\ r.n > r.since /\ ui'.cursor = IF ui.cursor > r.n THEN ui.cursor ELSE r.n
                  /\ \A i \in Nums : ui'.store[i] =
                       IF i \in (r.since + 1)..r.n /\ ui.store[i] = 0 THEN r.ep ELSE ui.store[i]
               \/ ui'.cursor = ui.cursor /\ ui'.store = ui.store
        BY <2>1, <3>2
      <4>2. /\ ui.gate \in {0, r.ep} /\ r.ep <= ui.base /\ 0 < ui.base /\ ui.base <= epoch
            /\ 0 < r.ep /\ r.since = ui.cursor
        BY <1>2, <1>5, <1>6, <1>11, <4>1 DEF Mismatch, Crossing, Exact
      <4> SUFFICES ASSUME r.ep = ui.base
                   PROVE  \A i \in Nums : ui'.store[i] = IF i <= ui'.cursor THEN ui.base ELSE 0
        BY <2>1, <2>2, <4>2 DEF Exact
      <4> DEFINE e == ui.base
      <4>3. \A i \in Nums : ui.store[i] = IF i <= ui.cursor THEN e ELSE 0
        BY <1>2, <4>1, <4>2 DEF Exact, Crossing
      <4>4. r.n \in Nat /\ ui.cursor \in Nat /\ Nums \subseteq Nat
        BY <1>1, ClientAssumption DEF Requests, Clients, Nums
      <4>5. \A i \in Nums : ui'.store[i] = IF i <= ui'.cursor THEN e ELSE 0
        <5>1. CASE ui'.cursor = ui.cursor /\ ui'.store = ui.store
          BY <4>3, <5>1
        <5>2. CASE /\ r.n > r.since /\ ui'.cursor = IF ui.cursor > r.n THEN ui.cursor ELSE r.n
                   /\ \A i \in Nums : ui'.store[i] =
                        IF i \in (r.since + 1)..r.n /\ ui.store[i] = 0 THEN r.ep ELSE ui.store[i]
          <6>1. ui'.cursor = r.n /\ r.n > ui.cursor
            BY <4>2, <4>4, <5>2
          <6>2. \A i \in Nums : ui'.store[i] =
                  IF i \in (ui.cursor + 1)..r.n /\ ui.store[i] = 0 THEN e ELSE ui.store[i]
            BY <4>2, <5>2
          <6> SUFFICES ASSUME NEW i \in Nums
                       PROVE  ui'.store[i] = IF i <= r.n THEN e ELSE 0
            BY <6>1
          <6>3. i \in Nat
            BY <4>4
          <6>4. ui.store[i] = IF i <= ui.cursor THEN e ELSE 0
            BY <4>3
          <6>5. ui'.store[i] =
                  IF i \in (ui.cursor + 1)..r.n /\ ui.store[i] = 0 THEN e ELSE ui.store[i]
            BY <6>2
          <6> DEFINE a == ui.store[i]
                     b == ui'.store[i]
                     c == ui.cursor
                     n == r.n
          <6>6. /\ a = (IF i <= c THEN e ELSE 0)
                /\ b = (IF i \in (c + 1)..n /\ a = 0 THEN e ELSE a)
                /\ c \in Nat /\ n \in Nat /\ n > c
            BY <4>4, <6>1, <6>4, <6>5
          <6>8. e \in Nat /\ e > 0
            BY <1>5, <4>2
          <6> HIDE DEF a, b, c, n, e
          <6>7. b = IF i <= n THEN e ELSE 0
            BY <6>3, <6>6, <6>8
          <6>. QED BY <6>7 DEF b, n, e
        <5>. QED BY <4>1, <5>1, <5>2
      <4>. QED BY <4>5
    <3>. QED BY <3>1, <3>2
  <2>. QED BY <2>3, <2>5, <2>6 DEF Holds, Believes
<1>12. ASSUME r.st = "answered", ui' = CycleDone(Hydrate(ui, r)) PROVE Holds(ui')
  <2> DEFINE h == Hydrate(ui, r)
  <2>1. /\ h \in Clients /\ Same(ui, h, SnapshotFields)
        /\ h.cursor = r.n /\ h.base = r.ep /\ h.crossed = (r.ep < ui.gate)
        /\ \A i \in Nums : h.store[i] = IF i <= r.n THEN r.ep ELSE 0
    BY <1>1, HydrateParts
  <2>2. ui' = CycleDone(h)
    BY <1>12
  <2> HIDE DEF h
  <2>3. /\ ui' \in Clients /\ Same(h, ui', {"req", "polls", "handle", "waiting"})
        /\ ui'.req["cycle"].st = "none"
        /\ \A q \in Slots : q # "cycle" => ui'.req[q] = h.req[q]
    BY <2>1, <2>2, CycleDoneParts
  <2>4. /\ ui'.gate = ui.gate /\ ui'.cursor = r.n
        /\ ui'.store = h.store /\ ui'.source = ui.source /\ h.req = ui.req
        /\ ui'.reconnect = ui.reconnect /\ ui'.upgrade = ui.upgrade
        /\ ui'.base = r.ep /\ ui'.crossed = (r.ep < ui.gate)
    BY <2>1, <2>3 DEF Same, Fields
  <2>5. Pure(ui') /\ Streamed(ui')
    BY <1>8, <2>3, <2>4
  <2>6. Exact(ui')
    <3>1. /\ ui'.gate \in Nat /\ ui'.cursor = r.n /\ ui'.base = r.ep
          /\ ui'.crossed = (r.ep < ui'.gate)
          /\ \A i \in Nums : ui'.store[i] = IF i <= r.n THEN r.ep ELSE 0
      BY <1>5, <2>1, <2>4
    <3>. QED BY <1>1, <1>5, <1>12, <3>1, HydratedExact
  <2>7. Answered(ui') /\ Asked(ui')
    BY <1>2, <2>3, <2>4 DEF Answered, Asked
  <2>. QED BY <2>5, <2>6, <2>7 DEF Holds, Believes
<1>. QED BY <1>3, <1>7, <1>9, <1>10, <1>11, <1>12

(* The snapshot of a stream that is started. *)
LEMMA SseHolds ==
  ASSUME UseSse => RetriesSuffice, Served, Sound, NEW s \in SseCalls, SseStep(s)
  PROVE  Holds(ui')
<1> DEFINE d == Done(ui, s)
           r == ui.req[s]
           h == Hydrate(d, r)
<1>1. /\ s \in Slots /\ r \in Requests /\ ui \in Clients /\ r.st \in {"answered", "failed"}
      /\ Typed(ui)
  BY DEF Slots, Served, Typed, Clients, SseStep
<1>2. UseSse
  BY <1>1 DEF Sound, Believes, Pure
<1>3. r.st = "answered" => 0 < r.ep /\ r.ep <= epoch
  BY <1>1 DEF Sound, Believes, Answered
<1>4. d \in Clients /\ Holds(d) /\ Same(ui, d, {"req"})
  BY <1>1, DoneParts, DoneHolds DEF Sound, Holds
<1>5. Typed(d) /\ (d.handle => d.polls > 0)
  BY <1>1, <1>4, SameTyped DEF Typed
<1>6. ui' = IF r.st = "answered" THEN OpenStream(h) ELSE SseBroken(d)
  BY DEF SseStep
<1> HIDE DEF d, r
<1>7. ASSUME r.st = "answered", ui' = OpenStream(h) PROVE Holds(ui')
  <2>1. /\ h \in Clients /\ Same(d, h, SnapshotFields)
        /\ h.hydrated /\ h.cursor = r.n /\ h.base = r.ep /\ h.crossed = (r.ep < d.gate)
        /\ \A i \in Nums : h.store[i] = IF i <= r.n THEN r.ep ELSE 0
    BY <1>1, <1>4, HydrateParts
  <2> HIDE DEF h
  <2>2. /\ h.gate = d.gate /\ h.req = d.req /\ h.polls = d.polls /\ h.handle = d.handle
    BY <2>1 DEF Same, Fields
  <2>3. Answered(h)
    BY <1>4, <2>2 DEF Holds, Believes, Answered
  <2>4. Pure(h) /\ Asked(h)
    BY <1>2, <1>4, <2>2 DEF Holds, Believes, Pure, Asked
  <2>5. Exact(h)
    <3>1. r.ep \in Nat /\ d.gate \in Nat
      BY <1>1, <1>4, ClientAssumption DEF Requests, Clients
    <3>. QED BY <1>1, <1>3, <1>7, <2>1, <2>2, <3>1, HydratedExact
  <2>6. /\ ui' \in Clients /\ Same(h, ui', {"polls", "handle", "mode", "source"})
        /\ ui'.source.st = "connecting" /\ ui'.source.pos = h.cursor
        /\ (h.polls = 0 => ui'.polls = 0)
    BY <1>5, <1>7, <2>1, <2>2, OpenParts
  <2>7. Same(h, ui', {"reconnect", "polls", "handle", "mode", "source"})
    BY <2>6 DEF Same
  <2>. QED BY <1>2, <2>1, <2>3, <2>4, <2>5, <2>6, <2>7, OpenHolds DEF Believes
<1>8. ASSUME ui' = SseBroken(d) PROVE Holds(ui')
  <2>1. /\ ui' \in Clients /\ Same(d, ui', {"source", "reconnect", "failures"})
        /\ ui'.source.st = "none"
    BY <1>2, <1>4, <1>8, BrokenParts
  <2>. QED BY <1>2, <1>4, <2>1, BrokenHolds
<1>. QED BY <1>1, <1>6, <1>7, <1>8

(* A health answer. *)
LEMMA HealthHolds ==
  ASSUME Served, Sound, HealthStep
  PROVE  Holds(ui')
<1> DEFINE d == Done(ui, "health")
           r == ui.req["health"]
<1>1. "health" \in Slots /\ r \in Requests /\ r.ep \in 0..MaxEpoch /\ ui \in Clients /\ Typed(ui)
  BY DEF Slots, Served, Typed, Clients, Requests
<1>2. r.st = "answered" => 0 < r.ep /\ r.ep <= epoch
  BY <1>1 DEF Sound, Believes, Answered
<1>3. /\ d \in Clients /\ Holds(d) /\ Same(ui, d, {"req"})
      /\ \A q \in Slots : q # "health" => d.req[q] = ui.req[q]
  BY <1>1, DoneParts, DoneHolds DEF Sound, Holds
<1>4. Typed(d) /\ (d.handle => d.polls > 0)
  BY <1>1, <1>3, SameTyped DEF Typed
<1>5. FreeCalls(d) # {}
  <2>1. \A s \in SseCalls : d.req[s] = ui.req[s]
    BY <1>3 DEF Slots, SseCalls
  <2>. QED BY <2>1 DEF FreeCalls, HealthStep
<1>6. ui' = IF r.st = "answered" THEN ObserveEpoch(d, r.ep) ELSE d
  BY DEF HealthStep
<1> HIDE DEF d, r
<1>7. ASSUME r.st = "answered", ui' = ObserveEpoch(d, r.ep) PROVE Holds(ui')
  <2>1. /\ ui' \in Clients /\ ui'.gate = r.ep
        /\ \/ /\ ~Mismatch(d, r.ep) /\ Same(d, ui', {"gate", "crossed"})
              /\ ui'.crossed = Crossing(d, r.ep)
           \/ /\ UseSse /\ ~ui'.hydrated /\ ui'.source.st = "none"
              /\ Same(d, ui', RestartFields)
              /\ \E s \in SseCalls :
                   ui'.req[s].st = "sent" /\ \A q \in Slots : q # s => ui'.req[q] = d.req[q]
           \/ /\ ~UseSse /\ ~ui'.hydrated
              /\ Same(d, ui', {"gate", "crossed", "cursor", "hydrated", "req"})
              /\ \A q \in Slots : q # "cycle" => ui'.req[q] = d.req[q]
              /\ ui'.req["cycle"] = d.req["cycle"] \/ ui'.req["cycle"].st = "sent"
    BY <1>1, <1>3, <1>4, <1>5, <1>7, ObserveParts
  <2>3. Pure(d) /\ Answered(d)
    BY <1>3 DEF Holds, Believes
  <2>4. ASSUME ~Mismatch(d, r.ep), Same(d, ui', {"gate", "crossed"}),
               ui'.crossed = Crossing(d, r.ep)
        PROVE  Holds(ui')
    <3>1. /\ ui'.cursor = d.cursor /\ ui'.hydrated = d.hydrated /\ ui'.store = d.store
          /\ ui'.source = d.source /\ ui'.reconnect = d.reconnect /\ ui'.upgrade = d.upgrade
          /\ ui'.req = d.req /\ ui'.polls = d.polls /\ ui'.base = d.base
      BY <2>4 DEF Same, Fields
    <3>2. /\ d.gate \in {0, r.ep} /\ 0 < r.ep /\ r.ep <= epoch
          /\ d.gate \in Nat /\ d.base \in Nat /\ r.ep \in Nat
      <4>1. d.gate \in Nat /\ d.base \in Nat
        BY <1>3, ClientAssumption DEF Clients
      <4>2. r.ep \in Nat
        BY <1>1, ClientAssumption
      <4>. QED BY <1>2, <1>7, <2>4, <4>1, <4>2 DEF Mismatch
    <3>3. Exact(ui')
      BY <1>3, <2>1, <2>4, <3>1, <3>2, AdoptedExact DEF Holds, Believes
    <3>4. Streamed(ui')
      BY <1>3, <2>1, <3>1, <3>2 DEF Holds, Streamed
    <3>. QED BY <1>3, <3>1, <3>3, <3>4 DEF Holds, Believes, Answered, Asked, Pure
  <2>5. ASSUME UseSse, ~ui'.hydrated, ui'.source.st = "none",
               Same(d, ui', RestartFields),
               \E s \in SseCalls :
                 ui'.req[s].st = "sent" /\ \A q \in Slots : q # s => ui'.req[q] = d.req[q]
        PROVE  Holds(ui')
    <3>1. ui'.polls = d.polls
      BY <2>5 DEF Same, Fields
    <3>. QED BY <1>3, <2>1, <2>3, <2>5, <3>1, AskingHolds
  <2>6. ASSUME ~UseSse, ~ui'.hydrated, Same(d, ui', {"gate", "crossed", "cursor", "hydrated", "req"}),
               \A q \in Slots : q # "cycle" => ui'.req[q] = d.req[q],
               ui'.req["cycle"] = d.req["cycle"] \/ ui'.req["cycle"].st = "sent"
        PROVE  Holds(ui')
    <3>1. ui'.source = d.source /\ ui'.reconnect = d.reconnect /\ ui'.upgrade = d.upgrade
      BY <2>6 DEF Same, Fields
    <3>2. ui'.source.st = "none"
      BY <2>3, <2>6, <3>1 DEF Pure
    <3>. QED BY <1>3, <2>1, <2>3, <2>6, <3>1, <3>2, AskingHolds
  <2>. QED BY <2>1, <2>4, <2>5, <2>6
<1>. QED BY <1>3, <1>6, <1>7

(* The epoch frame. *)
LEMMA EpochHolds ==
  ASSUME Served, Sound, EpochFrame
  PROVE  Holds(ui')
<1> DEFINE x == ui.source.ep
<1>1. /\ ui' \in Clients /\ ui'.gate = x /\ ui.source.st = "open"
      /\ \/ /\ ~Mismatch(ui, x) /\ Same(ui, ui', {"gate", "crossed", "source"})
            /\ ui'.crossed = Crossing(ui, x)
            /\ ui'.source.st = "greeted" /\ ui'.source.ep = x
            /\ ui'.source.pos = ui.source.pos
         \/ /\ ~ui'.hydrated /\ ui'.source.st = "none"
            /\ Same(ui, ui', RestartFields)
            /\ \E s \in SseCalls :
                 ui'.req[s].st = "sent" /\ \A q \in Slots : q # s => ui'.req[q] = ui.req[q]
  BY EpochParts DEF Served
<1>2. /\ ui \in Clients /\ Answered(ui) /\ Exact(ui) /\ Asked(ui) /\ Pure(ui) /\ Streamed(ui)
  BY DEF Served, Typed, Sound, Believes
<1>3. UseSse
  BY <1>1, <1>2 DEF Pure
<1>4. ASSUME ~Mismatch(ui, x), Same(ui, ui', {"gate", "crossed", "source"}),
             ui'.crossed = Crossing(ui, x), ui'.source.st = "greeted", ui'.source.ep = x,
             ui'.source.pos = ui.source.pos
      PROVE  Holds(ui')
  <2>1. /\ ui'.cursor = ui.cursor /\ ui'.hydrated = ui.hydrated /\ ui'.store = ui.store
        /\ ui'.req = ui.req /\ ui'.polls = ui.polls /\ ui'.base = ui.base
    BY <1>4 DEF Same, Fields
  <2>2. /\ ui.gate \in {0, x} /\ 0 < x /\ ui.hydrated /\ ui.source.pos = ui.cursor
        /\ ui.gate \in Nat /\ ui.base \in Nat /\ x \in Nat
    <3>1. ui.gate \in Nat /\ ui.base \in Nat /\ ui.source \in Sources
      BY <1>2, ClientAssumption DEF Clients
    <3>2. x \in Nat
      BY <3>1, ClientAssumption DEF Sources
    <3>. QED BY <1>1, <1>2, <1>4, <3>1, <3>2 DEF Mismatch, Streamed
  <2>3. Exact(ui')
    BY <1>1, <1>2, <1>4, <2>1, <2>2, AdoptedExact
  <2>4. Streamed(ui')
    BY <1>1, <1>4, <2>1, <2>2 DEF Streamed
  <2>5. Answered(ui') /\ Asked(ui') /\ Pure(ui')
    BY <1>2, <1>3, <2>1 DEF Answered, Asked, Pure
  <2>. QED BY <2>3, <2>4, <2>5 DEF Holds, Believes
<1>5. ASSUME ~ui'.hydrated, ui'.source.st = "none",
             Same(ui, ui', RestartFields),
             \E s \in SseCalls :
               ui'.req[s].st = "sent" /\ \A q \in Slots : q # s => ui'.req[q] = ui.req[q]
      PROVE  Holds(ui')
  <2>1. ui'.polls = ui.polls
    BY <1>5 DEF Same, Fields
  <2>. QED BY <1>1, <1>2, <1>3, <1>5, <2>1, AskingHolds
<1>. QED BY <1>1, <1>4, <1>5

(* A stream is accepted where it asked: the buffer still holds what follows. *)
LEMMA AcceptHolds ==
  ASSUME UseSse => MaxLen <= MaxEvents, Served, Sound, Accept
  PROVE  Holds(ui')
<1>1. /\ ui' \in Clients /\ Same(ui, ui', {"source"}) /\ ui.source.st = "connecting"
      /\ online /\ ui'.source.st = "open" /\ ui'.source.ep = epoch
      /\ ui'.source.pos = IF ui.source.pos > floor THEN ui.source.pos ELSE floor
  BY AcceptParts DEF Served, Typed
<1>2. UseSse
  BY <1>1 DEF Sound, Believes, Pure
<1>3. floor = 0
  BY <1>2, ClientAssumption, FeedAssumption DEF Sound, FloorOf, Served, FeedTypeOK
<1>4. ui.source.pos \in Nat
  BY DEF Served, Typed, Clients, Sources
<1>5. ui'.source.pos = ui.source.pos
  BY <1>1, <1>3, <1>4
<1>6. /\ ui'.gate = ui.gate /\ ui'.cursor = ui.cursor /\ ui'.hydrated = ui.hydrated
      /\ ui'.store = ui.store /\ ui'.req = ui.req /\ ui'.polls = ui.polls
      /\ ui'.base = ui.base /\ ui'.crossed = ui.crossed
  BY <1>1 DEF Same, Fields
<1>7. Streamed(ui')
  BY <1>1, <1>5, <1>6 DEF Sound, Streamed
<1>. QED BY <1>2, <1>6, <1>7
         DEF Sound, Holds, Believes, Answered, Exact, Asked, Pure

(* A delivered frame is the event after the cursor. *)
LEMMA FrameHolds ==
  ASSUME Served, Sound, RunEventFrame
  PROVE  Holds(ui')
<1> DEFINE seq == ui.source.pos + 1
           x == ui.source.ep
<1>1. /\ ui' \in Clients
      /\ Same(ui, ui', {"store", "polls", "handle", "failures", "upgrade", "reconnect",
                        "cursor", "source"})
      /\ ui.polls = 0 => ui'.polls = 0
      /\ ui.source.st = "greeted"
      /\ ui'.cursor = IF ui.cursor > seq THEN ui.cursor ELSE seq
      /\ ui'.source.pos = seq /\ ui'.source.st = "greeted" /\ ui'.source.ep = x
      /\ \A i \in Nums : ui'.store[i] =
           IF i = seq /\ ui.store[i] = 0 THEN x ELSE ui.store[i]
  BY FrameParts DEF Served
<1>2. /\ Answered(ui) /\ Exact(ui) /\ Asked(ui) /\ Pure(ui)
      /\ ui.hydrated /\ ui.source.pos = ui.cursor /\ x = ui.gate /\ x > 0
  BY <1>1 DEF Sound, Believes, Streamed
<1>3. UseSse /\ ui.cursor \in Nat /\ Nums \subseteq Nat /\ x \in Nat
  <2>1. ui.source \in Sources /\ ui.cursor \in Nat
    BY DEF Served, Typed, Clients
  <2>2. x \in Nat
    BY <2>1, ClientAssumption DEF Sources
  <2>. QED BY <1>1, <1>2, <2>1, <2>2 DEF Pure, Nums
<1>4. ui'.cursor = ui.cursor + 1 /\ ui'.source.pos = ui.cursor + 1
  BY <1>1, <1>2, <1>3
<1>5. /\ ui'.gate = ui.gate /\ ui'.hydrated = ui.hydrated /\ ui'.req = ui.req
      /\ ui'.base = ui.base /\ ui'.crossed = ui.crossed
  BY <1>1 DEF Same, Fields
<1> HIDE DEF x
<1>6. Exact(ui')
  <2> SUFFICES ASSUME ~ui.crossed, x = ui.base, NEW i \in Nums
               PROVE  ui'.store[i] = IF i <= ui'.cursor THEN x ELSE 0
    BY <1>2, <1>3, <1>5 DEF Exact
  <2>1. ui.store[i] = IF i <= ui.cursor THEN x ELSE 0
    BY <1>2 DEF Exact
  <2>2. ui'.store[i] = IF i = ui.cursor + 1 /\ ui.store[i] = 0 THEN x ELSE ui.store[i]
    BY <1>1, <1>2
  <2> DEFINE a == ui.store[i]
             b == ui'.store[i]
             c == ui.cursor
  <2>3. /\ a = (IF i <= c THEN x ELSE 0) /\ c \in Nat /\ i \in Nat
        /\ b = (IF i = c + 1 /\ a = 0 THEN x ELSE a)
    BY <1>3, <2>1, <2>2
  <2> HIDE DEF a, b, c
  <2>4. b = IF i <= c + 1 THEN x ELSE 0
    BY <1>2, <1>3, <2>3
  <2>. QED BY <1>4, <2>4 DEF b, c
<1>7. Streamed(ui')
  BY <1>1, <1>2, <1>4, <1>5 DEF Streamed
<1>8. Answered(ui') /\ Asked(ui') /\ Pure(ui')
  BY <1>1, <1>2, <1>3, <1>5 DEF Answered, Asked, Pure
<1>. QED BY <1>6, <1>7, <1>8 DEF Holds, Believes

(* The server answers, or refuses, a request. *)
LEMMA ServeHolds ==
  ASSUME Served, Sound, NEW s \in Slots, Serve(s) \/ Refuse(s)
  PROVE  Holds(ui')
<1>1. /\ ui \in Clients /\ Answered(ui) /\ Asked(ui) /\ Holds(ui)
  BY DEF Served, Typed, Sound, Believes, Holds
<1>2. ui.req[s].st = "sent"
  BY DEF Serve, Refuse
<1>3. /\ ui' \in Clients /\ Same(ui, ui', {"req"})
      /\ \/ ui'.req[s].st = "failed"
         \/ ui'.req[s].st = "answered" /\ ui'.req[s].ep = epoch /\ 0 < epoch
      /\ ui'.req[s].kind = ui.req[s].kind /\ ui'.req[s].since = ui.req[s].since
      /\ \A q \in Slots : q # s => ui'.req[q] = ui.req[q]
  <2>1. CASE Serve(s)
    <3>1. 0 < epoch
      BY <2>1 DEF Serve, Sound
    <3>. QED BY <1>1, <2>1, <3>1, ServeParts DEF Served
  <2>2. CASE Refuse(s)
    BY <1>1, <2>2, RefuseParts
  <2>. QED BY <2>1, <2>2
<1>4. Answered(ui')
  BY <1>1, <1>3 DEF Answered, Served, FeedTypeOK
<1>5. ui'.hydrated = ui.hydrated /\ ui'.cursor = ui.cursor
  BY <1>3 DEF Same, Fields
<1>6. Asked(ui')
  BY <1>1, <1>2, <1>3, <1>5 DEF Asked, Slots
<1>7. \A q \in Slots \ {"health"} : ui.req[q].st = "none" => ui'.req[q].st = "none"
  BY <1>2, <1>3
<1>. QED BY <1>1, <1>3, <1>4, <1>6, <1>7, RequestHolds

(* Every step of the client keeps its beliefs. *)
LEMMA ClientHolds ==
  ASSUME OneTransport, Served, Sound, Next, UNCHANGED feedVars
  PROVE  Holds(ui') \/ ServerDies \/ ServerBoots \/ ServerPublishes
<1>1. /\ Typed(ui) /\ ui \in Clients /\ Holds(ui) /\ Pure(ui)
      /\ UseSse => RetriesSuffice /\ ~OnDemand /\ MaxLen <= MaxEvents
  BY DEF OneTransport, Served, Typed, Sound, Believes, Holds
<1>2. ASSUME NEW s \in Slots, Serve(s) \/ Refuse(s) PROVE Holds(ui')
  BY <1>2, ServeHolds
<1>3. CASE CycleStep
  BY <1>3, CycleHolds
<1>4. ASSUME NEW s \in SseCalls, SseStep(s) PROVE Holds(ui')
  BY <1>1, <1>4, SseHolds
<1>5. CASE HealthStep
  BY <1>5, HealthHolds
<1>6. CASE Accept
  BY <1>1, <1>6, AcceptHolds
<1>7. CASE EpochFrame
  BY <1>7, EpochHolds
<1>8. CASE RunEventFrame
  BY <1>8, FrameHolds
<1>9. ASSUME ui.source.st # "none", ui' = SseBroken(ui) PROVE Holds(ui')
  <2>1. UseSse
    BY <1>1, <1>9 DEF Pure
  <2>2. /\ ui' \in Clients /\ Same(ui, ui', {"source", "reconnect", "failures"})
        /\ ui'.source.st = "none"
    BY <1>1, <1>9, <2>1, BrokenParts
  <2>. QED BY <1>1, <2>1, <2>2, BrokenHolds
<1>10. CASE StreamDies \/ StreamDrops
  BY <1>9, <1>10 DEF StreamDies, StreamDrops
<1>11. CASE PollTimer
  <2>1. /\ ui' \in Clients /\ Same(ui, ui', {"polls", "handle", "req", "waiting"})
        /\ Ticked(ui, ui') /\ ui.polls > 0
    BY <1>1, <1>11, PollParts
  <2>2. ~UseSse
    BY <1>1, <2>1 DEF Pure
  <2>. QED BY <1>1, <2>1, <2>2, TickHolds
<1>12. CASE ReconnectTimer \/ UpgradeTimer
  <2>1. UseSse
    BY <1>1, <1>12 DEF Pure, ReconnectTimer, UpgradeTimer
  <2>2. FreeCalls(ui) # {} /\ ui' = StartSse(ui)
    BY <1>12 DEF ReconnectTimer, UpgradeTimer
  <2>. QED BY <1>1, <2>1, <2>2, StartHolds
<1>13. CASE HealthTimer
  <2>1. /\ ui' \in Clients /\ Same(ui, ui', {"req"}) /\ ui'.req["health"].st = "sent"
        /\ \A q \in Slots : q # "health" => ui'.req[q] = ui.req[q]
    <3>1. "health" \in Slots /\ "health" \in Questions /\ 0 \in Nat
      BY DEF Slots, Questions
    <3>. QED BY <1>1, <1>13, <3>1, SendParts DEF HealthTimer
  <2>2. Answered(ui')
    BY <1>1, <2>1 DEF Holds, Believes, Answered
  <2>3. ui'.hydrated = ui.hydrated /\ ui'.cursor = ui.cursor
    BY <2>1 DEF Same, Fields
  <2>4. Asked(ui')
    BY <1>1, <2>1, <2>3 DEF Holds, Believes, Asked, Slots
  <2>. QED BY <1>1, <2>1, <2>2, <2>4, RequestHolds
<1>14. CASE RunStarted
  <2>1. ~UseSse /\ ui' = Tick(ui)
    BY <1>1, <1>14 DEF RunStarted
  <2>2. ui' \in Clients /\ Same(ui, ui', {"req"}) /\ Ticked(ui, ui')
    BY <1>1, <2>1, TickParts
  <2>3. Same(ui, ui', {"polls", "handle", "req", "waiting"})
    BY <2>2 DEF Same
  <2>. QED BY <1>1, <2>1, <2>2, <2>3, TickHolds
<1>. QED BY <1>2, <1>3, <1>4, <1>5, <1>6, <1>7, <1>8, <1>10, <1>11, <1>12, <1>13, <1>14 DEF Next

(* Every step, of the client and of the server, keeps the beliefs true. *)
LEMMA SoundStep ==
  ASSUME OneTransport, Served, Sound, [Next]_vars
  PROVE  Sound'
<1> USE DEF Sound, Believes
<1>1. /\ ui \in Clients /\ epoch \in Nat /\ len \in Nat /\ online \in BOOLEAN
      /\ ui.gate \in Nat /\ ui.base \in Nat /\ FeedTypeOK
      /\ \A s \in Slots : ui.req[s].ep \in Nat
  BY ClientAssumption DEF Served, Typed, Clients, Requests, FeedTypeOK
<1>2. ASSUME UNCHANGED feedVars, Holds(ui') PROVE Sound'
  BY <1>2 DEF feedVars, Holds, Answered, Exact, Asked, Pure, Streamed
<1>3. CASE UNCHANGED vars
  BY <1>3 DEF vars, feedVars, Answered, Exact, Asked, Pure, Streamed
<1>4. CASE ServerDies
  <2>1. /\ ui' \in Clients /\ Same(ui, ui', {"req", "source"})
        /\ \A s \in Slots : /\ ui'.req[s].st = "answered" => ui.req[s].st = "answered"
                            /\ ui.req[s].st = "none" <=> ui'.req[s].st = "none"
                            /\ ui'.req[s].kind = ui.req[s].kind
                            /\ ui'.req[s].since = ui.req[s].since
                            /\ ui'.req[s].ep = ui.req[s].ep
        /\ ui'.source.st = ui.source.st /\ ui'.source.ep = ui.source.ep
        /\ ui'.source.pos = ui.source.pos
    BY <1>1, <1>4, DiesParts
  <2>2. /\ ui'.gate = ui.gate /\ ui'.cursor = ui.cursor /\ ui'.hydrated = ui.hydrated
        /\ ui'.store = ui.store /\ ui'.polls = ui.polls
        /\ ui'.reconnect = ui.reconnect /\ ui'.upgrade = ui.upgrade
        /\ ui'.base = ui.base /\ ui'.crossed = ui.crossed
    BY <2>1 DEF Same, Fields
  <2>3. ~online' /\ epoch' = epoch /\ len' = 0 /\ floor' = 0
    BY <1>4 DEF ServerDies, Kill
  <2>4. floor' = FloorOf(len') /\ len' <= MaxLen
    BY <2>3, FeedAssumption, ClientAssumption DEF FloorOf
  <2>5. Answered(ui)' /\ Exact(ui)' /\ Streamed(ui)'
    BY <2>1, <2>2, <2>3 DEF Answered, Exact, Streamed
  <2>6. Asked(ui)' /\ Pure(ui)'
    BY <2>1, <2>2 DEF Asked, Pure, Slots, SseCalls
  <2>. QED BY <2>3, <2>4, <2>5, <2>6
<1>5. CASE ServerBoots
  <2>1. /\ ~online /\ online' = TRUE /\ epoch' = epoch + 1 /\ floor' = FloorOf(len')
        /\ len' \in 0..MaxLen /\ ui' = ui
    BY <1>5 DEF ServerBoots, BootFeed
  <2>2. Asked(ui)' /\ Pure(ui)' /\ Streamed(ui)'
    BY <2>1 DEF Asked, Pure, Streamed
  <2>3. Answered(ui)' /\ Exact(ui)'
    BY <1>1, <2>1 DEF Answered, Exact
  <2>. QED BY <1>1, <2>1, <2>2, <2>3
<1>6. CASE ServerPublishes
  <2>1. /\ len' = len + 1 /\ len < MaxLen /\ floor' = FloorOf(len') /\ ui' = ui
        /\ online' = online /\ epoch' = epoch
    BY <1>6 DEF ServerPublishes, Publish
  <2>2. len' <= MaxLen
    BY <1>1, <2>1, ClientAssumption
  <2>3. Answered(ui)' /\ Exact(ui)' /\ Asked(ui)' /\ Pure(ui)' /\ Streamed(ui)'
    BY <2>1 DEF Answered, Exact, Asked, Pure, Streamed
  <2>. QED BY <2>1, <2>2, <2>3
<1>. QED BY <1>2, <1>3, <1>4, <1>5, <1>6, FeedSteps, ClientHolds

(* At the start the client believes nothing. *)
LEMMA SoundInit ==
  ASSUME Init
  PROVE  Sound
<1>1. online = FALSE /\ epoch = 0 /\ len = 0 /\ floor = 0
  BY DEF Init, FeedInit
<1>2. floor = FloorOf(len) /\ len <= MaxLen
  BY <1>1, FeedAssumption, ClientAssumption DEF FloorOf
<1>3. UiInit \in Clients /\ Typed(UiInit)
  BY FirstClient DEF Typed
<1>4. Holds(UiInit)
  BY <1>1, FirstClient
     DEF Holds, Believes, Answered, Exact, Asked, Pure, Streamed, SseCalls, Slots
<1>5. CASE UseSse
  <2>1. ui = StartSse(UiInit)
    BY <1>5 DEF Init
  <2>. QED BY <1>1, <1>2, <1>3, <1>4, <1>5, <2>1, FirstClient, StartHolds DEF Sound, Holds
<1>6. CASE ~UseSse
  <2> DEFINE v == Loop(UiInit)
  <2>1. ui = v
    BY <1>6 DEF Init
  <2>2. v \in Clients /\ Same(UiInit, v, {"req", "waiting"}) /\ Ticked(UiInit, v)
    BY <1>3, LoopParts
  <2> HIDE DEF v
  <2>3. Same(UiInit, v, {"polls", "handle", "req", "waiting"})
    BY <2>2 DEF Same
  <2>4. Holds(v)
    BY <1>3, <1>4, <1>6, <2>2, <2>3, TickHolds
  <2>. QED BY <1>1, <1>2, <2>1, <2>4 DEF Sound, Holds
<1>. QED BY <1>5, <1>6

(* A dashboard that uses one transport, is hydrated and trusts the process
   that runs holds every event of it up to the cursor and none of a dead one
   there, whatever dies, restarts, is evicted or arrives late, unless it shows
   a snapshot of an older process than the one it trusts (api.ts: cursor,
   epoch gate, resync).                                                      *)
THEOREM NeverASilentGap ==
  ASSUME OneTransport
  PROVE  Spec => []NoSilentGap
<1>1. Served /\ Sound => NoSilentGap
  <2> SUFFICES ASSUME Served, Sound PROVE NoSilentGap
    OBVIOUS
  <2>1. ui.base \in Nat /\ ui.gate \in Nat /\ epoch \in Nat
    BY ClientAssumption DEF Served, Typed, Clients, FeedTypeOK
  <2>. QED BY <2>1 DEF Sound, Believes, Exact, NoSilentGap, Stranded
<1>2. Init => Served /\ Sound
  BY ServedInit, SoundInit
<1>3. Served /\ Sound /\ [Next]_vars => (Served /\ Sound)'
  BY ServedStep, SoundStep
<1>. QED BY <1>1, <1>2, <1>3, PTL DEF Spec
=============================================================================
