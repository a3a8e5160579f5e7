--------------------------- MODULE EventLogProofs ---------------------------
(***************************************************************************)
(* Proofs about EventLog, for every set of runs and webhooks, every buffer *)
(* capacity and every bound: types, the delivery contract a client's       *)
(* cursor relies on, the survival of a run's evidence over crashes and     *)
(* recoveries, and the two abstract specifications the log implements.     *)
(***************************************************************************)
EXTENDS EventLog, TLAPS

(* Appending to a sequence: its length, its last element, the others. *)
LEMMA AppendProps ==
  ASSUME NEW S, NEW s \in Seq(S), NEW e \in S
  PROVE  /\ Append(s, e) \in Seq(S)
         /\ Len(Append(s, e)) = Len(s) + 1
         /\ \A i \in 1..Len(s) : Append(s, e)[i] = s[i]
         /\ Append(s, e)[Len(s) + 1] = e
  OBVIOUS

(* The tail of a non-empty sequence: its elements move down by one. *)
LEMMA TailProps ==
  ASSUME NEW S, NEW s \in Seq(S), Len(s) > 0
  PROVE  /\ Tail(s) \in Seq(S)
         /\ Len(Tail(s)) = Len(s) - 1
         /\ \A i \in 1..Len(Tail(s)) : Tail(s)[i] = s[i + 1]
         /\ Head(s) = s[1]
         /\ Head(s) \in S
  <1>1. s # <<>>
    OBVIOUS
  <1>2. QED
    BY <1>1

(* The events a run can be given are events. *)
LEMMA KindFacts ==
  /\ "started" \in Kinds /\ "step" \in Kinds
  /\ Verdicts \subseteq Kinds /\ Webhooks \subseteq Kinds
  BY DEF Kinds, Verdicts

(* A renumbered event is an event. *)
LEMMA RenumberType ==
  ASSUME NEW e \in Events, NEW n \in Nat
  PROVE  [e EXCEPT !.seq = n] \in Events /\ [e EXCEPT !.seq = n].seq = n
  BY DEF Events

(* What is pending names recorded events. *)
LEMMA LineType ==
  ASSUME TypeOK, NEW x \in pending
  PROVE  Line(x) \in Events
  <1>1. /\ x[1] \in Runs /\ x[2] \in 1..Len(file[x[1]])
        /\ file[x[1]] \in Seq(Events)
    BY DEF TypeOK
  <1>2. QED
    BY <1>1 DEF Line

(* Taking an event in keeps the registry well-typed and its buffer bounded. *)
LEMMA IngestType ==
  ASSUME TypeOK, NEW e \in Events, NEW h \in BOOLEAN, Ingest(e, h)
  PROVE  /\ buffer' \in Seq(Events) /\ Len(buffer') <= MaxEvents
         /\ log' \in Seq(Events)
         /\ dropped' \in Nat
         /\ runs' \in [Runs -> RunEntries]
  <1> USE CapacityAssumption
  <1>1. log' \in Seq(Events)
    BY DEF TypeOK, Ingest
  <1> DEFINE full == Append(buffer, e)
  <1>2. /\ full \in Seq(Events) /\ Len(full) = Len(buffer) + 1
    BY AppendProps DEF TypeOK
  <1>3. /\ Tail(full) \in Seq(Events) /\ Len(Tail(full)) = Len(full) - 1
        /\ Head(full) \in Events
    <2> HIDE DEF full
    <2>1. Len(buffer) \in Nat
      BY DEF TypeOK
    <2>2. QED
      BY <1>2, <2>1, TailProps
  <1>4. Head(full).seq \in Nat
    <2> HIDE DEF full
    <2>1. QED
      BY <1>3 DEF Events
  <1>5. buffer' \in Seq(Events) /\ Len(buffer') <= MaxEvents
    <2>1. buffer' = IF Len(full) > MaxEvents THEN Tail(full) ELSE full
      BY DEF Ingest, PushDelivery, Overfull
    <2>2. Len(buffer) \in Nat /\ Len(buffer) <= MaxEvents
      BY DEF TypeOK
    <2> HIDE DEF full
    <2>3. QED
      BY <2>1, <2>2, <1>2, <1>3
  <1>6. dropped' \in Nat
    <2>1. dropped' = IF Len(full) > MaxEvents THEN EvictedUpTo(Head(full)) ELSE dropped
      BY DEF Ingest, PushDelivery, Overfull
    <2>2. dropped \in Nat
      BY DEF TypeOK
    <2> HIDE DEF full
    <2>3. QED
      BY <2>1, <2>2, <1>4 DEF EvictedUpTo, MaxOf
  <1>7. runs' \in [Runs -> RunEntries]
    <2>1. runs \in [Runs -> RunEntries] /\ e.run \in Runs /\ e.kind \in Kinds
      BY DEF TypeOK, Events
    <2>2. Entry(e, h) \in RunEntries
      BY DEF Entry, RunEntries
    <2>3. ASSUME NEW r \in RunEntries
          PROVE  [events |-> Append(r.events, e),
                  completed |-> IF e.kind \in Verdicts THEN e.kind ELSE r.completed,
                  rehydrated |-> r.rehydrated] \in RunEntries
      BY <2>3 DEF RunEntries
    <2>4. CASE e.kind = "started"
      BY <2>1, <2>2, <2>4 DEF Ingest, Attach
    <2>5. CASE e.kind # "started" /\ Known(e.run)
      BY <2>1, <2>3, <2>5 DEF Ingest, Attach
    <2>6. CASE e.kind # "started" /\ ~Known(e.run)
      BY <2>1, <2>6 DEF Ingest, Attach
    <2>7. QED
      BY <2>4, <2>5, <2>6
  <1>8. QED
    BY <1>1, <1>5, <1>6, <1>7

(* Recording keeps the files well-typed and never shortens one. *)
LEMMA RecordType ==
  ASSUME TypeOK, NEW e \in Events, Record(e)
  PROVE  /\ file' \in [Runs -> Seq(Events)]
         /\ torn' \subseteq Runs /\ lossy' \subseteq Runs
         /\ \A r \in Runs : Len(file'[r]) >= Len(file[r])
  <1>1. e.run \in Runs
    BY DEF Events
  <1>2. CASE Write(e)
    <2>1. CASE e.run \in torn
      BY <1>1, <1>2, <2>1 DEF TypeOK, Write
    <2>2. CASE e.run \notin torn
      <3>1. file' = [file EXCEPT ![e.run] = Append(@, e)]
        BY <1>2, <2>2 DEF Write
      <3>2. /\ Append(file[e.run], e) \in Seq(Events)
            /\ Len(Append(file[e.run], e)) = Len(file[e.run]) + 1
        BY <1>1, AppendProps DEF TypeOK
      <3>3. \A r \in Runs : Len(file[r]) \in Nat
        BY DEF TypeOK
      <3>4. file' \in [Runs -> Seq(Events)]
        BY <1>1, <3>1, <3>2 DEF TypeOK
      <3>5. \A r \in Runs : Len(file'[r]) >= Len(file[r])
        BY <1>1, <3>1, <3>2, <3>3 DEF TypeOK
      <3>6. QED
        BY <1>2, <3>4, <3>5 DEF TypeOK, Write
    <2>3. QED
      BY <2>1, <2>2
  <1>3. CASE GiveUp(e)
    BY <1>1, <1>3 DEF TypeOK, GiveUp
  <1>4. QED
    BY <1>2, <1>3 DEF Record

(* An emission keeps every variable it may change well-typed. *)
LEMMA EmitType ==
  ASSUME TypeOK, NEW r \in Runs, NEW k \in Kinds, Emit(r, k),
         emitted' \subseteq Webhooks,
         runner' \in [Runs -> {"idle", "active", "done", "dead"}]
  PROVE  TypeOK'
  <1> DEFINE e == [seq |-> nextSeq, run |-> r, kind |-> k, ts |-> clock]
  <1>1. e \in Events
    BY DEF TypeOK, Events
  <1>2. Ingest(e, FALSE) /\ Record(e)
    BY DEF Emit
  <1> HIDE DEF e
  <1>3. /\ buffer' \in Seq(Events) /\ Len(buffer') <= MaxEvents
        /\ log' \in Seq(Events) /\ dropped' \in Nat
        /\ runs' \in [Runs -> RunEntries]
    BY <1>1, <1>2, IngestType
  <1>4. /\ file' \in [Runs -> Seq(Events)]
        /\ torn' \subseteq Runs /\ lossy' \subseteq Runs
        /\ \A q \in Runs : Len(file'[q]) >= Len(file[q])
    BY <1>1, <1>2, RecordType
  <1>5. \A x \in pending' : x[2] \in 1..Len(file'[x[1]])
    <2>1. ASSUME NEW x \in pending
          PROVE  x[2] \in 1..Len(file'[x[1]])
      <3>1. x[1] \in Runs /\ x[2] \in 1..Len(file[x[1]])
        BY <2>1 DEF TypeOK
      <3>2. Len(file[x[1]]) \in Nat /\ Len(file'[x[1]]) \in Nat
        BY <3>1, <1>4 DEF TypeOK
      <3>3. QED
        BY <3>1, <3>2, <1>4
    <2>2. QED
      BY <2>1 DEF Emit
  <1>6. told' \in [Runs -> Seq(Kinds)]
    BY DEF TypeOK, Emit
  <1>7. nextSeq' \in Nat /\ UNCHANGED <<phase, epoch, clock, pending, maxSeq, crashes>>
    BY DEF TypeOK, Emit
  <1>8. QED
    BY <1>3, <1>4, <1>5, <1>6, <1>7 DEF TypeOK

(* Every state of the log has its type, and its buffer its bound. *)
THEOREM TypeCorrect == Spec => []TypeOK
  <1>1. Init => TypeOK
    BY BoundsAssumption, CapacityAssumption DEF Init, TypeOK, NoRun, RunEntries
  <1>2. TypeOK /\ [Next]_vars => TypeOK'
    <2> SUFFICES ASSUME TypeOK, [Next]_vars PROVE TypeOK'
      OBVIOUS
    <2>1. ASSUME NEW r \in Runs, StartRun(r) PROVE TypeOK'
      <3>1. /\ Emit(r, "started") /\ emitted' = emitted
            /\ runner' = [runner EXCEPT ![r] = "active"]
        BY <2>1 DEF StartRun
      <3>2. QED
        BY <3>1, KindFacts, EmitType DEF TypeOK
    <2>2. ASSUME NEW r \in Runs, ObserveStep(r) PROVE TypeOK'
      BY <2>2, KindFacts, EmitType DEF ObserveStep, TypeOK
    <2>3. ASSUME NEW r \in Runs, NEW v \in Verdicts, CompleteRun(r, v) PROVE TypeOK'
      <3>1. /\ Emit(r, v) /\ emitted' = emitted /\ v \in Kinds
            /\ runner' = [runner EXCEPT ![r] = "done"]
        BY <2>3, KindFacts DEF CompleteRun
      <3>2. QED
        BY <3>1, EmitType DEF TypeOK
    <2>4. ASSUME NEW w \in Webhooks, Correlate(w) PROVE TypeOK'
      <3>1. /\ Target[w] \in Runs /\ w \in Kinds
        BY WebhooksAssumption, KindFacts
      <3>2. /\ Emit(Target[w], w) /\ emitted' = emitted \cup {w} /\ runner' = runner
        BY <2>4 DEF Correlate, Remember
      <3>3. QED
        BY <3>1, <3>2, EmitType DEF TypeOK
    <2>5. CASE Crash
      <3>1. <<>> \in Seq(Events) /\ Len(<<>>) <= MaxEvents
        BY CapacityAssumption
      <3>2. NoRun \in RunEntries
        BY DEF NoRun, RunEntries
      <3>3. torn' \subseteq Runs
        BY <2>5 DEF TypeOK, Crash
      <3>4. runner' \in [Runs -> {"idle", "active", "done", "dead"}]
        BY <2>5 DEF TypeOK, Crash
      <3>5. QED
        BY <2>5, <3>1, <3>2, <3>3, <3>4 DEF TypeOK, Crash
    <2>6. CASE Boot
      <3>1. \A r \in Runs : Len(file[r]) \in Nat
        BY DEF TypeOK
      <3>2. pending' = UNION {{<<r, i>> : i \in 1..Len(file[r])} : r \in Runs}
        BY <2>6 DEF Boot
      <3>3. /\ pending' \subseteq Runs \X Nat
            /\ \A x \in pending' : x[2] \in 1..Len(file[x[1]])
        BY <3>1, <3>2
      <3>4. QED
        BY <2>6, <3>3 DEF TypeOK, Boot, registryVars, diskVars
    <2>7. CASE Hydrate
      <3>1. PICK x \in pending :
              /\ pending' = pending \ {x} /\ maxSeq' = maxSeq + 1
              /\ Ingest([Line(x) EXCEPT !.seq = maxSeq + 1], TRUE)
        BY <2>7 DEF Hydrate
      <3>2. Line(x) \in Events /\ maxSeq \in Nat
        BY <3>1, LineType DEF TypeOK
      <3>3. [Line(x) EXCEPT !.seq = maxSeq + 1] \in Events
        BY <3>2, RenumberType
      <3>4. /\ buffer' \in Seq(Events) /\ Len(buffer') <= MaxEvents
            /\ log' \in Seq(Events) /\ dropped' \in Nat
            /\ runs' \in [Runs -> RunEntries]
        BY <3>1, <3>3, IngestType
      <3>5. /\ pending' \subseteq Runs \X Nat /\ maxSeq' \in Nat
            /\ UNCHANGED <<phase, epoch, clock, nextSeq, emitted, file, torn,
                           lossy, runner, told, crashes>>
        BY <2>7, <3>1 DEF TypeOK, Hydrate, diskVars
      <3>6. \A y \in pending' : y[2] \in 1..Len(file'[y[1]])
        BY <3>1, <3>5 DEF TypeOK
      <3>7. QED
        BY <3>4, <3>5, <3>6 DEF TypeOK
    <2>8. CASE Listen
      BY <2>8 DEF TypeOK, Listen, StartSeq, FreshEpoch, MaxOf, registryVars, diskVars
    <2>9. CASE Tick
      BY <2>9 DEF TypeOK, Tick, registryVars, diskVars
    <2>10. CASE UNCHANGED vars
      BY <2>10 DEF TypeOK, vars
    <2>11. QED
      BY <2>1, <2>2, <2>3, <2>4, <2>5, <2>6, <2>7, <2>8, <2>9, <2>10 DEF Next
  <1>3. QED
    BY <1>1, <1>2, PTL DEF Spec

-----------------------------------------------------------------------------
(***************************************************************************)
(* The inductive invariant behind the delivery contract: an event's number *)
(* is its position in the process's log, the bus (or, while loading, the   *)
(* renumbering) is one ahead of it, and the buffer is what the log has     *)
(* behind droppedBefore.                                                   *)
(***************************************************************************)
Numbered ==
  /\ \A i \in 1..Len(log) : log[i].seq = i
  /\ phase = "up" => nextSeq = Len(log) + 1
  /\ phase = "loading" => maxSeq = Len(log)
  /\ phase = "down" => Len(log) = 0 /\ maxSeq = 0

Window ==
  /\ dropped + Len(buffer) = Len(log)
  /\ dropped > 0 => Len(buffer) = MaxEvents
  /\ \A i \in 1..Len(buffer) : buffer[i] = log[dropped + i]

IInv == TypeOK /\ Numbered /\ Window

(* Taking in the event numbered next keeps log and window in step. *)
LEMMA IngestWindow ==
  ASSUME IInv, NEW e \in Events, e.seq = Len(log) + 1, NEW h \in BOOLEAN, Ingest(e, h)
  PROVE  /\ Len(log') = Len(log) + 1
         /\ \A i \in 1..Len(log') : log'[i].seq = i
         /\ Window'
  <1> USE CapacityAssumption
  <1> DEFINE full == Append(buffer, e)
  <1>1. /\ log \in Seq(Events) /\ buffer \in Seq(Events)
        /\ Len(log) \in Nat /\ Len(buffer) \in Nat /\ dropped \in Nat
    BY DEF IInv, TypeOK
  <1>2. log' = Append(log, e)
    BY DEF Ingest
  <1>3. /\ Len(log') = Len(log) + 1
        /\ \A i \in 1..Len(log) : log'[i] = log[i]
        /\ log'[Len(log) + 1] = e
    BY <1>1, <1>2, AppendProps
  <1>4. \A i \in 1..Len(log') : log'[i].seq = i
    BY <1>1, <1>3 DEF IInv, Numbered
  <1>5. /\ full \in Seq(Events) /\ Len(full) = Len(buffer) + 1
        /\ \A i \in 1..Len(buffer) : full[i] = buffer[i]
        /\ full[Len(buffer) + 1] = e
    BY <1>1, AppendProps
  <1>6. /\ dropped + Len(full) = Len(log')
        /\ \A i \in 1..Len(full) : full[i] = log'[dropped + i]
    <2>1. dropped + Len(buffer) = Len(log)
      BY DEF IInv, Window
    <2>2. ASSUME NEW i \in 1..Len(buffer) PROVE full[i] = log'[dropped + i]
      <3>1. full[i] = log[dropped + i]
        BY <1>5 DEF IInv, Window
      <3>2. dropped + i \in 1..Len(log)
        BY <1>1, <2>1
      <3>3. QED
        BY <3>1, <3>2, <1>3
    <2>3. full[Len(buffer) + 1] = log'[dropped + (Len(buffer) + 1)]
      BY <1>1, <1>3, <1>5, <2>1
    <2>4. ASSUME NEW i \in 1..Len(full) PROVE full[i] = log'[dropped + i]
      <3>1. i \in 1..Len(buffer) \/ i = Len(buffer) + 1
        BY <1>1, <1>5
      <3>2. QED
        BY <2>2, <2>3, <3>1
    <2>5. dropped + Len(full) = Len(log')
      BY <1>1, <1>3, <1>5, <2>1
    <2>6. QED
      BY <2>4, <2>5
  <1>7. CASE ~Overfull(full)
    <2>1. buffer' = full /\ dropped' = dropped /\ Len(full) <= MaxEvents
      BY <1>1, <1>5, <1>7 DEF Ingest, PushDelivery, Overfull
    <2>2. dropped' = 0 \/ Len(buffer) = MaxEvents
      BY <1>1, <2>1 DEF IInv, Window
    <2>3. dropped' > 0 => Len(buffer') = MaxEvents
      <3> HIDE DEF full
      <3>1. QED
        BY <1>1, <1>5, <2>1, <2>2
    <2> HIDE DEF full
    <2>4. QED
      BY <1>3, <1>4, <1>6, <2>1, <2>3 DEF Window
  <1>8. CASE Overfull(full)
    <2>1. buffer' = Tail(full) /\ dropped' = EvictedUpTo(Head(full))
      BY <1>8 DEF Ingest, PushDelivery
    <2> HIDE DEF full
    <2>2. /\ Len(Tail(full)) = Len(full) - 1 /\ Head(full) = full[1]
          /\ \A i \in 1..Len(Tail(full)) : Tail(full)[i] = full[i + 1]
      BY <1>1, <1>5, TailProps
    <2>3. Head(full).seq = dropped + 1
      <3>1. full[1] = log'[dropped + 1]
        BY <1>1, <1>5, <1>6
      <3>2. dropped + 1 \in 1..Len(log')
        BY <1>1, <1>5, <1>6
      <3>3. QED
        BY <1>4, <2>2, <3>1, <3>2
    <2>4. dropped' = dropped + 1
      BY <1>1, <2>1, <2>3 DEF EvictedUpTo, MaxOf
    <2>5. ASSUME NEW i \in 1..Len(buffer') PROVE buffer'[i] = log'[dropped' + i]
      <3>1. i \in 1..Len(buffer) /\ buffer'[i] = full[i + 1]
        BY <1>1, <1>5, <2>1, <2>2
      <3>2. i + 1 \in 1..Len(full) /\ dropped' + i = dropped + (i + 1)
        BY <1>1, <1>5, <2>4, <3>1
      <3>3. QED
        BY <3>1, <3>2, <1>6
    <2>6. dropped' + Len(buffer') = Len(log')
      BY <1>1, <1>5, <1>6, <2>1, <2>2, <2>4
    <2>7. Len(buffer') = MaxEvents
      <3>1. Len(full) > MaxEvents /\ Len(buffer) <= MaxEvents
        BY <1>8 DEF Overfull, IInv, TypeOK
      <3>2. QED
        BY <1>1, <1>5, <2>1, <2>2, <3>1
    <2>8. QED
      BY <1>3, <1>4, <2>5, <2>6, <2>7 DEF Window
  <1>9. QED
    BY <1>3, <1>4, <1>7, <1>8

(* An emission takes the next number and keeps the delivery invariant. *)
LEMMA EmitWindow ==
  ASSUME IInv, TypeOK', NEW r \in Runs, NEW k \in Kinds, Emit(r, k)
  PROVE  IInv'
  <1> DEFINE e == [seq |-> nextSeq, run |-> r, kind |-> k, ts |-> clock]
  <1>1. e \in Events /\ e.seq = nextSeq
    BY DEF IInv, TypeOK, Events
  <1>2. /\ phase = "up" /\ phase' = "up" /\ nextSeq' = nextSeq + 1
        /\ Ingest(e, FALSE)
    BY DEF Emit
  <1> HIDE DEF e
  <1>3. nextSeq = Len(log) + 1
    BY <1>2 DEF IInv, Numbered
  <1>4. /\ Len(log') = Len(log) + 1
        /\ \A i \in 1..Len(log') : log'[i].seq = i
        /\ Window'
    BY <1>1, <1>2, <1>3, IngestWindow
  <1>5. QED
    BY <1>2, <1>3, <1>4 DEF IInv, Numbered

(* The delivery invariant holds in every state. *)
THEOREM DeliveryInvariant == Spec => []IInv
  <1>1. Init => Numbered /\ Window
    BY DEF Init, Numbered, Window
  <1>2. IInv /\ TypeOK' /\ [Next]_vars => IInv'
    <2> SUFFICES ASSUME IInv, TypeOK', [Next]_vars PROVE IInv'
      OBVIOUS
    <2> USE KindFacts
    <2>1. ASSUME NEW r \in Runs, StartRun(r) PROVE IInv'
      BY <2>1, EmitWindow DEF StartRun
    <2>2. ASSUME NEW r \in Runs, ObserveStep(r) PROVE IInv'
      BY <2>2, EmitWindow DEF ObserveStep
    <2>3. ASSUME NEW r \in Runs, NEW v \in Verdicts, CompleteRun(r, v) PROVE IInv'
      BY <2>3, EmitWindow DEF CompleteRun
    <2>4. ASSUME NEW w \in Webhooks, Correlate(w) PROVE IInv'
      BY <2>4, EmitWindow, WebhooksAssumption DEF Correlate
    <2>5. CASE Crash
      <3>1. phase' = "down" /\ maxSeq' = 0 /\ dropped' = 0
        BY <2>5 DEF Crash
      <3>2. log' = <<>> /\ buffer' = <<>>
        BY <2>5 DEF Crash
      <3>3. Len(log') = 0 /\ Len(buffer') = 0
        BY <3>2
      <3>4. Numbered'
        BY <3>1, <3>3 DEF Numbered
      <3>5. Window'
        BY <3>1, <3>3 DEF Window
      <3>6. QED
        BY <3>4, <3>5 DEF IInv
    <2>6. CASE Boot
      BY <2>6 DEF IInv, Numbered, Window, Boot, registryVars
    <2>7. CASE Hydrate
      <3>1. PICK x \in pending :
              /\ maxSeq' = maxSeq + 1
              /\ Ingest([Line(x) EXCEPT !.seq = maxSeq + 1], TRUE)
        BY <2>7 DEF Hydrate
      <3>2. TypeOK
        BY DEF IInv
      <3>3. Line(x) \in Events /\ maxSeq \in Nat
        BY <3>1, <3>2, LineType DEF TypeOK
      <3>4. /\ [Line(x) EXCEPT !.seq = maxSeq + 1] \in Events
            /\ [Line(x) EXCEPT !.seq = maxSeq + 1].seq = maxSeq + 1
        BY <3>3, RenumberType
      <3>5. phase = "loading" /\ phase' = "loading" /\ maxSeq = Len(log)
        BY <2>7 DEF Hydrate, IInv, Numbered
      <3>6. /\ Len(log') = Len(log) + 1
            /\ \A i \in 1..Len(log') : log'[i].seq = i
            /\ Window'
        BY <3>1, <3>4, <3>5, IngestWindow
      <3>7. QED
        BY <3>1, <3>5, <3>6 DEF IInv, Numbered
    <2>8. CASE Listen
      <3>1. phase = "loading" /\ phase' = "up" /\ nextSeq' = StartSeq(maxSeq)
        BY <2>8 DEF Listen
      <3>2. nextSeq' = Len(log) + 1
        BY <3>1 DEF IInv, TypeOK, Numbered, StartSeq, MaxOf
      <3>3. QED
        BY <2>8, <3>1, <3>2 DEF IInv, Numbered, Window, Listen, registryVars
    <2>9. CASE Tick
      BY <2>9 DEF IInv, Numbered, Window, Tick, registryVars
    <2>10. CASE UNCHANGED vars
      BY <2>10 DEF IInv, Numbered, Window, vars
    <2>11. QED
      BY <2>1, <2>2, <2>3, <2>4, <2>5, <2>6, <2>7, <2>8, <2>9, <2>10 DEF Next
  <1>3. QED
    <2>1. Init /\ TypeOK => IInv
      BY <1>1 DEF IInv
    <2>2. QED
      BY <1>2, <2>1, TypeCorrect, PTL DEF Spec

(* Whatever the capacity of the buffer, a fetch that is not told to
   resynchronise is given every event after its cursor (eventsSince,
   resyncNeeded).                                                            *)
THEOREM DeliveryIsComplete == Spec => []DeliveryComplete
  <1>1. IInv => DeliveryComplete
    <2> DEFINE After(c) == {log[i] : i \in {j \in 1..Len(log) : log[j].seq > c}}
    <2> SUFFICES ASSUME IInv, NEW c \in 0..Len(log), ~ (c < dropped)
                 PROVE  EventsSince(c) = After(c)
      BY DEF DeliveryComplete, ResyncNeeded
    <2>1. /\ Len(log) \in Nat /\ Len(buffer) \in Nat /\ dropped \in Nat
          /\ dropped + Len(buffer) = Len(log) /\ c \in Nat /\ c >= dropped
      BY DEF IInv, TypeOK, Window
    <2>2. \A i \in 1..Len(buffer) : buffer[i] = log[dropped + i]
      BY DEF IInv, Window
    <2>3. \A i \in 1..Len(log) : log[i].seq = i
      BY DEF IInv, Numbered
    <2>4. ASSUME NEW i \in 1..Len(buffer), buffer[i].seq > c
          PROVE  \E j \in 1..Len(log) : log[j].seq > c /\ log[j] = buffer[i]
      <3>1. dropped + i \in 1..Len(log)
        BY <2>1
      <3>2. QED
        BY <2>2, <2>4, <3>1
    <2>5. ASSUME NEW j \in 1..Len(log), log[j].seq > c
          PROVE  \E i \in 1..Len(buffer) : buffer[i].seq > c /\ buffer[i] = log[j]
      <3>1. j > c
        BY <2>3, <2>5
      <3>2. j - dropped \in 1..Len(buffer) /\ dropped + (j - dropped) = j
        BY <2>1, <3>1
      <3>3. QED
        BY <2>2, <2>5, <3>2
    <2>6. EventsSince(c) \subseteq After(c)
      BY <2>4 DEF EventsSince
    <2>7. After(c) \subseteq EventsSince(c)
      BY <2>5 DEF EventsSince
    <2>8. QED
      BY <2>6, <2>7
  <1>2. QED
    BY <1>1, DeliveryInvariant, PTL

(* Sequence numbers follow the order of arrival across the boundary between
   recovered and live events (createBus' startSeq, loadRecordedEvents).      *)
THEOREM CursorsAlwaysSeparate == Spec => []CursorsSeparate
  <1>1. IInv => CursorsSeparate
    BY DEF IInv, TypeOK, Numbered, CursorsSeparate
  <1>2. QED
    BY <1>1, DeliveryInvariant, PTL

(***************************************************************************)
(* The log implements the feed: while a process is up, the number of its   *)
(* events and the highest evicted number determine each other.             *)
(***************************************************************************)
LEMMA FloorArithmetic ==
  ASSUME NEW n \in Nat, NEW m \in Nat, NEW d \in Nat,
         m <= MaxEvents, d + m = n, d > 0 => m = MaxEvents
  PROVE  d = Feed!FloorOf(n)
  BY CapacityAssumption DEF Feed!FloorOf

(* Under the invariant the last evicted number is the one the feed prescribes
   for a log of that length (registry.ts pushDelivery).                        *)
LEMMA FloorFollowsLog ==
  ASSUME IInv
  PROVE  Len(log) \in Nat /\ dropped = Feed!FloorOf(Len(log))
  <1>1. /\ Len(log) \in Nat /\ Len(buffer) \in Nat /\ Len(buffer) <= MaxEvents
        /\ dropped \in Nat /\ dropped + Len(buffer) = Len(log)
        /\ dropped > 0 => Len(buffer) = MaxEvents
    BY DEF IInv, TypeOK, Window
  <1>2. QED
    BY <1>1, FloorArithmetic

(* An emission publishes one event on the feed. *)
LEMMA EmitPublishes ==
  ASSUME IInv, IInv', NEW r \in Runs, NEW k \in Kinds, Emit(r, k)
  PROVE  Feed!Publish
  <1>1. /\ phase = "up" /\ phase' = "up" /\ epoch' = epoch
        /\ nextSeq' = nextSeq + 1
    BY DEF Emit
  <1>2. nextSeq = Len(log) + 1 /\ nextSeq' = Len(log') + 1
    BY <1>1 DEF IInv, Numbered
  <1>3. Len(log') = Len(log) + 1
    <2>1. Len(log) \in Nat /\ Len(log') \in Nat
      BY DEF IInv, TypeOK
    <2>2. QED
      BY <1>1, <1>2, <2>1
  <1>4. dropped' = Feed!FloorOf(Len(log'))
    <2>1. TypeOK' /\ Window'
      BY DEF IInv
    <2>2. /\ Len(log') \in Nat /\ Len(buffer') \in Nat /\ Len(buffer') <= MaxEvents
          /\ dropped' \in Nat
      BY <2>1 DEF TypeOK
    <2>3. /\ dropped' + Len(buffer') = Len(log')
          /\ dropped' > 0 => Len(buffer') = MaxEvents
      BY <2>1 DEF Window
    <2>4. QED
      BY <2>2, <2>3, FloorArithmetic
  <1>5. QED
    BY <1>1, <1>3, <1>4 DEF Feed!Publish, Feed!FloorOf

(* Every server lifetime, crash and recovery included, is a feed lifetime: the
   log refines the abstract feed (createBus, createRunRegistry,
   loadRecordedEvents, createHttpServer).                                     *)
THEOREM LogImplementsFeed == Spec => ImplementsFeed
  <1>1. Init => Feed!FeedInit
    BY DEF Init, Feed!FeedInit
  <1>2. IInv /\ IInv' /\ [Next]_vars => [Feed!FeedNext]_(Feed!feedVars)
    <2> SUFFICES ASSUME IInv, IInv', [Next]_vars
                 PROVE  Feed!FeedNext \/ UNCHANGED Feed!feedVars
      OBVIOUS
    <2> USE KindFacts
    <2>1. ASSUME NEW r \in Runs, StartRun(r) PROVE Feed!FeedNext
      BY <2>1, EmitPublishes DEF StartRun, Feed!FeedNext
    <2>2. ASSUME NEW r \in Runs, ObserveStep(r) PROVE Feed!FeedNext
      BY <2>2, EmitPublishes DEF ObserveStep, Feed!FeedNext
    <2>3. ASSUME NEW r \in Runs, NEW v \in Verdicts, CompleteRun(r, v)
          PROVE  Feed!FeedNext
      BY <2>3, EmitPublishes DEF CompleteRun, Feed!FeedNext
    <2>4. ASSUME NEW w \in Webhooks, Correlate(w) PROVE Feed!FeedNext
      BY <2>4, EmitPublishes, WebhooksAssumption DEF Correlate, Feed!FeedNext
    <2>5. CASE Crash
      <3>1. phase # "down" /\ phase' = "down" /\ epoch' = epoch
        BY <2>5 DEF Crash
      <3>2. CASE phase = "up"
        BY <3>1, <3>2 DEF Feed!FeedNext, Feed!Kill
      <3>3. CASE phase # "up"
        BY <3>1, <3>3 DEF Feed!feedVars
      <3>4. QED
        BY <3>2, <3>3
    <2>6. CASE Boot
      BY <2>6 DEF Boot, Feed!feedVars
    <2>7. CASE Hydrate
      BY <2>7 DEF Hydrate, Feed!feedVars
    <2>8. CASE Listen
      <3>1. /\ phase = "loading" /\ phase' = "up" /\ epoch' = epoch + 1
            /\ log' = log /\ dropped' = dropped
        BY <2>8 DEF Listen, FreshEpoch, registryVars
      <3>2. Len(log) \in Nat /\ dropped = Feed!FloorOf(Len(log))
        BY FloorFollowsLog
      <3>3. QED
        BY <3>1, <3>2 DEF Feed!FeedNext, Feed!BootFeed, Feed!FloorOf
    <2>9. CASE Tick
      BY <2>9 DEF Tick, registryVars, Feed!feedVars
    <2>10. CASE UNCHANGED vars
      BY <2>10 DEF vars, Feed!feedVars
    <2>11. QED
      BY <2>1, <2>2, <2>3, <2>4, <2>5, <2>6, <2>7, <2>8, <2>9, <2>10 DEF Next
  <1>3. QED
    BY <1>1, <1>2, DeliveryInvariant, PTL DEF Spec, ImplementsFeed, Feed!FeedSpec

-----------------------------------------------------------------------------
(***************************************************************************)
(* What a later process shows of a run.  The evidence survives because the *)
(* recording of an undamaged run is its history line by line, stamped by a *)
(* clock that does not go back, so that the loader cannot take its lines   *)
(* in any other order.                                                     *)
(***************************************************************************)
Damaged == lossy \cup torn
Count(s) == 1..Len(s)

(* A run's history is its runner's: it starts once, it ends at most once. *)
Lives ==
  \A r \in Runs :
    /\ runner[r] = "idle" <=> Len(told[r]) = 0
    /\ runner[r] = "active" => phase = "up"
    /\ \A i \in Count(told[r]) : told[r][i] = "started" <=> i = 1
    /\ runner[r] = "done" <=> \E i \in Count(told[r]) : told[r][i] \in Verdicts
    /\ \A i, j \in Count(told[r]) :
         told[r][i] \in Verdicts /\ told[r][j] \in Verdicts => i = j

(* A recording has nothing that was not told, in the order of the clock, and
   an undamaged one has all of it.                                           *)
Recordings ==
  \A r \in Runs :
    /\ \A i \in Count(file[r]) :
         /\ file[r][i].run = r /\ file[r][i].ts <= clock
         /\ \E j \in Count(told[r]) : told[r][j] = file[r][i].kind
    /\ \A i, j \in Count(file[r]) : i < j => file[r][i].ts <= file[r][j].ts
    /\ r \notin Damaged =>
         /\ Len(file[r]) = Len(told[r])
         /\ \A i \in Count(file[r]) : file[r][i].kind = told[r][i]

(* An entry of the registry has only what was told, and its verdict is that of
   its events.                                                               *)
Entries ==
  \A r \in Runs :
    /\ \A i \in Count(runs[r].events) :
         \E j \in Count(told[r]) : told[r][j] = runs[r].events[i].kind
    /\ runs[r].completed # "none" =>
         \E j \in Count(told[r]) : told[r][j] = runs[r].completed
    /\ \A i \in Count(runs[r].events) :
         runs[r].events[i].kind \in Verdicts => runs[r].completed # "none"

(* While it loads, the entry of an undamaged run is the part of its recording
   that is no longer pending.                                                *)
Loaded(r) ==
  /\ Len(runs[r].events) <= Len(file[r])
  /\ \A i \in Count(file[r]) : <<r, i>> \in pending <=> i > Len(runs[r].events)
  /\ \A i \in Count(runs[r].events) : runs[r].events[i].kind = file[r][i].kind

Loading ==
  phase = "loading" =>
    \A r \in Runs :
      /\ Len(runs[r].events) > 0 => runs[r].rehydrated
      /\ r \notin Damaged => Loaded(r)

(* Once it serves, a run that began under this process is shown as it is, one
   that did not is marked as recovered.                                      *)
Serving ==
  phase = "up" =>
    \A r \in Runs :
      /\ runner[r] = "active" =>
           Len(runs[r].events) > 0 /\ ~runs[r].rehydrated /\ runs[r].completed = "none"
      /\ runner[r] = "dead" /\ Len(runs[r].events) > 0 => runs[r].rehydrated
      /\ r \notin Damaged =>
           /\ Len(runs[r].events) = Len(told[r])
           /\ \A i \in Count(told[r]) : runs[r].events[i].kind = told[r][i]

Down == phase = "down" => \A r \in Runs : runs[r] = NoRun

History == Lives /\ Recordings /\ Entries /\ Loading /\ Serving /\ Down

(* What types say of one run. *)
LEMMA EvidenceTypes ==
  ASSUME TypeOK
  PROVE  \A r \in Runs :
           /\ file[r] \in Seq(Events) /\ Len(file[r]) \in Nat
           /\ told[r] \in Seq(Kinds) /\ Len(told[r]) \in Nat
           /\ runs[r] \in RunEntries /\ runs[r].events \in Seq(Events)
           /\ Len(runs[r].events) \in Nat
           /\ Known(r) <=> Len(runs[r].events) > 0
<1>1. ASSUME NEW r \in Runs PROVE runs[r] \in RunEntries /\ runs[r].events \in Seq(Events)
  BY DEF TypeOK, RunEntries
<1>2. ASSUME NEW s \in Seq(Events) PROVE Len(s) \in Nat /\ (s # <<>> <=> Len(s) > 0)
  OBVIOUS
<1>3. ASSUME NEW r \in Runs PROVE file[r] \in Seq(Events) /\ told[r] \in Seq(Kinds) /\ Len(told[r]) \in Nat
  BY DEF TypeOK
<1>. QED BY <1>1, <1>2, <1>3 DEF Known

(* Taking an event in touches the entry of its run only: a start makes it anew,
   anything else goes to its end or, without an entry, is dropped (registry.ts
   attachToRun).                                                             *)
Grown(old, e, new) ==
  /\ Len(new.events) = Len(old.events) + 1
  /\ \A i \in Count(old.events) : new.events[i] = old.events[i]
  /\ new.events[Len(old.events) + 1] = e
  /\ new.completed = IF e.kind \in Verdicts THEN e.kind ELSE old.completed
  /\ new.rehydrated = old.rehydrated

Begun(e, historical, new) ==
  /\ Len(new.events) = 1 /\ new.events[1] = e
  /\ new.completed = "none" /\ new.rehydrated = historical

(* What Attach does, in those terms. *)
LEMMA Attached ==
  ASSUME TypeOK, NEW e \in Events, NEW h \in BOOLEAN, Attach(e, h)
  PROVE  /\ \A q \in Runs : q # e.run => runs'[q] = runs[q]
         /\ e.kind = "started" => Begun(e, h, runs'[e.run])
         /\ e.kind # "started" /\ Len(runs[e.run].events) > 0 =>
              Grown(runs[e.run], e, runs'[e.run])
         /\ e.kind # "started" /\ Len(runs[e.run].events) = 0 =>
              runs'[e.run] = runs[e.run]
<1>1. e.run \in Runs /\ runs \in [Runs -> RunEntries]
  BY DEF Events, TypeOK
<1>2. CASE e.kind = "started"
  <2>1. runs' = [runs EXCEPT ![e.run] = Entry(e, h)]
    BY <1>2 DEF Attach
  <2>2. Begun(e, h, Entry(e, h))
    BY DEF Begun, Entry
  <2>. QED BY <1>1, <1>2, <2>1, <2>2
<1>3. CASE e.kind # "started" /\ Known(e.run)
  <2> DEFINE old == runs[e.run]
             new == [events |-> Append(old.events, e),
                     completed |-> IF e.kind \in Verdicts THEN e.kind ELSE old.completed,
                     rehydrated |-> old.rehydrated]
  <2>1. runs' = [runs EXCEPT ![e.run] = new]
    BY <1>1, <1>3 DEF Attach
  <2>2. old.events \in Seq(Events) /\ Len(old.events) > 0
    BY <1>1, <1>3, EvidenceTypes
  <2>3. Grown(old, e, new)
    BY <2>2, AppendProps DEF Grown, Count
  <2> HIDE DEF new
  <2>4. runs'[e.run] = new /\ \A q \in Runs : q # e.run => runs'[q] = runs[q]
    BY <1>1, <2>1
  <2>. QED BY <1>3, <2>2, <2>3, <2>4
<1>4. CASE e.kind # "started" /\ ~Known(e.run)
  <2>1. runs' = runs /\ ~(Len(runs[e.run].events) > 0)
    BY <1>1, <1>4, EvidenceTypes DEF Attach
  <2>. QED BY <1>4, <2>1
<1>. QED BY <1>2, <1>3, <1>4

(* Nothing told is forgotten. *)
Remembers ==
  \A r \in Runs : \A j \in Count(told[r]) : j \in Count(told'[r]) /\ told'[r][j] = told[r][j]

(* An entry stays within what was told when a told event is taken in. *)
LEMMA EntriesKept ==
  ASSUME TypeOK, TypeOK', Entries, NEW e \in Events, NEW h \in BOOLEAN, Attach(e, h), Remembers,
         \E j \in Count(told'[e.run]) : told'[e.run][j] = e.kind
  PROVE  Entries'
<1> DEFINE Within(r, entry, tale) ==
             /\ \A i \in Count(entry.events) :
                  \E j \in Count(tale) : tale[j] = entry.events[i].kind
             /\ entry.completed # "none" => \E j \in Count(tale) : tale[j] = entry.completed
             /\ \A i \in Count(entry.events) :
                  entry.events[i].kind \in Verdicts => entry.completed # "none"
<1>1. \A r \in Runs : Within(r, runs[r], told'[r])
  BY DEF Entries, Remembers
<1>2. e.run \in Runs
  BY DEF Events
<1>3. CASE e.kind = "started"
  <2>1. Begun(e, h, runs'[e.run])
    BY <1>3, Attached
  <2>2. Within(e.run, runs'[e.run], told'[e.run])
    BY <1>3, <2>1 DEF Begun, Count, Verdicts
  <2>3. \A r \in Runs : Within(r, runs'[r], told'[r])
    BY <1>1, <2>2, Attached
  <2>. QED BY <2>3 DEF Entries
<1>4. CASE e.kind # "started" /\ Len(runs[e.run].events) > 0
  <2>1. Grown(runs[e.run], e, runs'[e.run])
    BY <1>4, Attached
  <2>2. Len(runs[e.run].events) \in Nat
    BY <1>2, EvidenceTypes
  <2>3. \A i \in Count(runs'[e.run].events) : i \in Count(runs[e.run].events) \/ runs'[e.run].events[i] = e
    BY <2>1, <2>2 DEF Grown, Count
  <2>4. e.kind \in Verdicts => e.kind # "none"
    BY DEF Verdicts
  <2>5. Within(e.run, runs'[e.run], told'[e.run])
    <3>1. \A i \in Count(runs'[e.run].events) :
            \E j \in Count(told'[e.run]) : told'[e.run][j] = runs'[e.run].events[i].kind
      BY <1>1, <1>2, <2>1, <2>3 DEF Grown
    <3>2. runs'[e.run].completed # "none" =>
            \E j \in Count(told'[e.run]) : told'[e.run][j] = runs'[e.run].completed
      BY <1>1, <1>2, <2>1 DEF Grown
    <3>3. \A i \in Count(runs'[e.run].events) :
            runs'[e.run].events[i].kind \in Verdicts => runs'[e.run].completed # "none"
      BY <1>1, <1>2, <2>1, <2>3, <2>4 DEF Grown
    <3>. QED BY <3>1, <3>2, <3>3
  <2>6. \A r \in Runs : Within(r, runs'[r], told'[r])
    BY <1>1, <2>5, Attached
  <2>. QED BY <2>6 DEF Entries
<1>5. CASE e.kind # "started" /\ Len(runs[e.run].events) = 0
  <2>1. \A r \in Runs : Within(r, runs'[r], told'[r])
    BY <1>1, <1>5, Attached
  <2>. QED BY <2>1 DEF Entries
<1>6. Len(runs[e.run].events) \in Nat
  BY <1>2, EvidenceTypes
<1>. QED BY <1>3, <1>4, <1>5, <1>6

(* What every emission does to what was told, and to the file of its run. *)
Tells(r, k) ==
  /\ Len(told'[r]) = Len(told[r]) + 1
  /\ \A i \in Count(told[r]) : told'[r][i] = told[r][i]
  /\ told'[r][Len(told[r]) + 1] = k
  /\ \A q \in Runs : q # r => told'[q] = told[q]

Writes(r, k) ==
  /\ \A q \in Runs : q # r => file'[q] = file[q]
  /\ lossy \subseteq lossy' /\ torn' = torn
  /\ \/ r \in Damaged' /\ file'[r] = file[r]
     \/ /\ Len(file'[r]) = Len(file[r]) + 1
        /\ \A i \in Count(file[r]) : file'[r][i] = file[r][i]
        /\ LET e == file'[r][Len(file[r]) + 1]
           IN e.run = r /\ e.kind = k /\ e.ts = clock

(* An emission tells the event, and writes its line or gives it up. *)
LEMMA EmitTells ==
  ASSUME TypeOK, NEW r \in Runs, NEW k \in Kinds, Emit(r, k)
  PROVE  Tells(r, k) /\ Writes(r, k) /\ Remembers /\ UNCHANGED <<clock, phase, pending>>
         /\ phase = "up"
<1> DEFINE e == [seq |-> nextSeq, run |-> r, kind |-> k, ts |-> clock]
<1>1. e \in Events /\ e.run = r /\ e.kind = k /\ e.ts = clock
  BY DEF TypeOK, Events
<1>2. told' = [told EXCEPT ![r] = Append(@, k)] /\ Record(e)
      /\ UNCHANGED <<clock, phase, pending>> /\ phase = "up"
  BY DEF Emit
<1> HIDE DEF e
<1>3. Tells(r, k)
  <2>1. /\ Len(Append(told[r], k)) = Len(told[r]) + 1
        /\ \A i \in 1..Len(told[r]) : Append(told[r], k)[i] = told[r][i]
        /\ Append(told[r], k)[Len(told[r]) + 1] = k
    BY EvidenceTypes, AppendProps
  <2>2. told'[r] = Append(told[r], k) /\ \A q \in Runs : q # r => told'[q] = told[q]
    BY <1>2 DEF TypeOK
  <2>. QED BY <2>1, <2>2 DEF Tells, Count
<1>4. Remembers
  <2>1. \A q \in Runs : Len(told[q]) \in Nat
    BY EvidenceTypes
  <2>. QED BY <1>3, <2>1 DEF Remembers, Tells, Count
<1>5. Writes(r, k)
  <2>1. CASE Write(e) /\ r \in torn
    BY <1>1, <2>1 DEF Write, Writes, Damaged
  <2>2. CASE Write(e) /\ r \notin torn
    <3>1. file' = [file EXCEPT ![r] = Append(@, e)] /\ UNCHANGED <<torn, lossy>>
      BY <1>1, <2>2 DEF Write
    <3>2. file'[r] = Append(file[r], e) /\ \A q \in Runs : q # r => file'[q] = file[q]
      BY <3>1 DEF TypeOK
    <3>3. /\ Len(Append(file[r], e)) = Len(file[r]) + 1
          /\ \A i \in 1..Len(file[r]) : Append(file[r], e)[i] = file[r][i]
          /\ Append(file[r], e)[Len(file[r]) + 1] = e
      BY <1>1, EvidenceTypes, AppendProps
    <3>. QED BY <1>1, <3>1, <3>2, <3>3 DEF Writes, Count
  <2>3. CASE GiveUp(e)
    BY <1>1, <2>3 DEF GiveUp, Writes, Damaged
  <2>. QED BY <1>2, <2>1, <2>2, <2>3 DEF Record
<1>. QED BY <1>2, <1>3, <1>4, <1>5

(* Recordings keep to what was told, whatever is emitted. *)
LEMMA RecordingsKept ==
  ASSUME TypeOK, Recordings, NEW r \in Runs, NEW k \in Kinds, Emit(r, k)
  PROVE  Recordings'
<1> DEFINE Faithful(q, lines, tale, damaged, t) ==
      /\ \A i \in Count(lines) :
           /\ lines[i].run = q /\ lines[i].ts <= t
           /\ \E j \in Count(tale) : tale[j] = lines[i].kind
      /\ \A i, j \in Count(lines) : i < j => lines[i].ts <= lines[j].ts
      /\ q \notin damaged =>
           /\ Len(lines) = Len(tale)
           /\ \A i \in Count(lines) : lines[i].kind = tale[i]
<1>1. Tells(r, k) /\ Writes(r, k) /\ Remembers /\ clock' = clock
  BY EmitTells
<1>2. /\ Len(file[r]) \in Nat /\ Len(told[r]) \in Nat /\ clock \in Nat
      /\ \A i \in Count(file[r]) : file[r][i].ts \in Nat
  <2>1. \A i \in Count(file[r]) : file[r][i] \in Events
    BY EvidenceTypes DEF Count
  <2>2. \A i \in Count(file[r]) : file[r][i].ts \in Nat
    BY <2>1, BoundsAssumption DEF Events
  <2>3. clock \in Nat
    BY BoundsAssumption DEF TypeOK
  <2>. QED BY <2>2, <2>3, EvidenceTypes
<1>3. ASSUME NEW q \in Runs, q # r PROVE Faithful(q, file'[q], told'[q], Damaged', clock')
  BY <1>1, <1>3 DEF Recordings, Tells, Writes, Damaged
<1>4. Faithful(r, file'[r], told'[r], Damaged', clock')
  <2>1. CASE r \in Damaged' /\ file'[r] = file[r]
    BY <1>1, <2>1 DEF Recordings, Remembers
  <2>2. CASE file'[r] # file[r] \/ r \notin Damaged'
    <3> DEFINE n == Len(file[r])
    <3>1. /\ Len(file'[r]) = n + 1
          /\ \A i \in Count(file[r]) : file'[r][i] = file[r][i]
          /\ file'[r][n + 1].run = r /\ file'[r][n + 1].kind = k /\ file'[r][n + 1].ts = clock
      BY <1>1, <2>2 DEF Writes
    <3>2. \A i \in Count(file'[r]) : i \in Count(file[r]) \/ i = n + 1
      BY <1>2, <3>1 DEF Count
    <3>3. \A i \in Count(file'[r]) :
            /\ file'[r][i].run = r /\ file'[r][i].ts <= clock'
            /\ \E j \in Count(told'[r]) : told'[r][j] = file'[r][i].kind
      <4>1. Len(told[r]) + 1 \in Count(told'[r]) /\ told'[r][Len(told[r]) + 1] = k
        BY <1>1, <1>2 DEF Tells, Count
      <4>2. ASSUME NEW i \in Count(file[r])
            PROVE  /\ file'[r][i].run = r /\ file'[r][i].ts <= clock
                   /\ \E j \in Count(told'[r]) : told'[r][j] = file'[r][i].kind
        <5>1. PICK j \in Count(told[r]) : told[r][j] = file[r][i].kind
          BY DEF Recordings
        <5>. QED BY <1>1, <3>1, <5>1 DEF Recordings, Remembers
      <4>. QED BY <1>1, <1>2, <3>1, <3>2, <4>1, <4>2
    <3>4. \A i, j \in Count(file'[r]) : i < j => file'[r][i].ts <= file'[r][j].ts
      <4>1. SUFFICES ASSUME NEW i \in Count(file'[r]), NEW j \in Count(file'[r]), i < j
                     PROVE  file'[r][i].ts <= file'[r][j].ts
        OBVIOUS
      <4>2. i \in Count(file[r])
        BY <1>2, <3>1, <4>1 DEF Count
      <4>3. CASE j = n + 1
        BY <3>1, <4>2, <4>3 DEF Recordings
      <4>4. CASE j \in Count(file[r])
        BY <3>1, <4>1, <4>2, <4>4 DEF Recordings
      <4>. QED BY <3>2, <4>3, <4>4
    <3>5. r \notin Damaged' => /\ Len(file'[r]) = Len(told'[r])
                               /\ \A i \in Count(file'[r]) : file'[r][i].kind = told'[r][i]
      <4>1. SUFFICES ASSUME r \notin Damaged'
                     PROVE  /\ Len(file'[r]) = Len(told'[r])
                            /\ \A i \in Count(file'[r]) : file'[r][i].kind = told'[r][i]
        OBVIOUS
      <4>2. r \notin Damaged
        BY <1>1, <4>1 DEF Writes, Damaged
      <4>3. Len(told[r]) = n /\ \A i \in Count(file[r]) : file[r][i].kind = told[r][i]
        BY <4>2 DEF Recordings
      <4>4. Count(told[r]) = Count(file[r])
        BY <4>3 DEF Count
      <4>. QED BY <1>1, <3>1, <3>2, <4>3, <4>4 DEF Tells
    <3>. QED BY <3>3, <3>4, <3>5
  <2>. QED BY <2>1, <2>2
<1>5. \A q \in Runs : Faithful(q, file'[q], told'[q], Damaged', clock')
  BY <1>3, <1>4
<1>. QED BY <1>5 DEF Recordings

(* The events the runner and the correlator emit: a start of a run that is
   idle, and for a run in the registry evidence or the end of one under way.  *)
Moves(r, k) ==
  \/ k = "started" /\ runner[r] = "idle" /\ runner' = [runner EXCEPT ![r] = "active"]
  \/ /\ k # "started" /\ Len(runs[r].events) > 0
     /\ \/ k \notin Verdicts /\ runner' = runner
        \/ k \in Verdicts /\ runner[r] = "active" /\ runner' = [runner EXCEPT ![r] = "done"]

(* A move is one the life of its run allows. *)
LEMMA LivesKept ==
  ASSUME TypeOK, Lives, Entries, NEW r \in Runs, NEW k \in Kinds, Emit(r, k), Moves(r, k)
  PROVE  Lives'
<1> DEFINE n == Len(told[r])
           Life(state, tale, up) ==
             /\ state = "idle" <=> Len(tale) = 0
             /\ state = "active" => up
             /\ \A i \in Count(tale) : tale[i] = "started" <=> i = 1
             /\ state = "done" <=> \E i \in Count(tale) : tale[i] \in Verdicts
             /\ \A i, j \in Count(tale) : tale[i] \in Verdicts /\ tale[j] \in Verdicts => i = j
<1>1. Tells(r, k) /\ phase = "up" /\ phase' = "up"
  BY EmitTells
<1>2. n \in Nat /\ runner \in [Runs -> {"idle", "active", "done", "dead"}]
  BY EvidenceTypes DEF TypeOK
<1>3. Life(runner[r], told[r], TRUE)
  BY DEF Lives
<1>4. \A q \in Runs : q # r => runner'[q] = runner[q]
  BY <1>2 DEF Moves
<1>5. /\ Len(told'[r]) = n + 1 /\ told'[r][n + 1] = k
      /\ \A i \in Count(told'[r]) : i = n + 1 \/ (i \in Count(told[r]) /\ told'[r][i] = told[r][i])
      /\ \A i \in Count(told[r]) : i \in Count(told'[r]) /\ told'[r][i] = told[r][i] /\ i # n + 1
      /\ n + 1 \in Count(told'[r])
  BY <1>1, <1>2 DEF Tells, Count
<1> HIDE DEF n
<1>6. ASSUME k = "started" PROVE Life(runner'[r], told'[r], TRUE)
  <2>1. Len(told[r]) = 0 /\ runner'[r] = "active" /\ k \notin Verdicts
    BY <1>2, <1>3, <1>6 DEF Moves, Verdicts
  <2>2. n = 0 /\ Count(told[r]) = {}
    BY <2>1 DEF n, Count
  <2>. QED BY <1>5, <1>6, <2>1, <2>2
<1>7. ASSUME k # "started" /\ k \notin Verdicts PROVE Life(runner'[r], told'[r], TRUE)
  <2>1. Len(runs[r].events) > 0 /\ runner' = runner
    BY <1>7 DEF Moves
  <2>2. n >= 1
    <3>1. 1 \in Count(runs[r].events)
      BY <2>1, EvidenceTypes DEF Count
    <3>2. PICK j \in Count(told[r]) : TRUE
      BY <3>1 DEF Entries
    <3>. QED BY <1>2, <3>2 DEF Count, n
  <2>3. Life(runner'[r], told'[r], TRUE)
    BY <1>2, <1>3, <1>5, <1>7, <2>1, <2>2 DEF n
  <2>. QED BY <2>3
<1>8. ASSUME k \in Verdicts PROVE Life(runner'[r], told'[r], TRUE)
  <2>1. runner[r] = "active" /\ runner'[r] = "done" /\ k # "started"
    BY <1>2, <1>8 DEF Moves, Verdicts
  <2>2. n >= 1
    BY <1>2, <1>3, <2>1 DEF n
  <2>3. \A i \in Count(told[r]) : told[r][i] \notin Verdicts
    BY <1>3, <2>1
  <2>4. Life(runner'[r], told'[r], TRUE)
    BY <1>2, <1>3, <1>5, <1>8, <2>1, <2>2, <2>3 DEF n
  <2>. QED BY <2>4
<1>9. Life(runner'[r], told'[r], TRUE)
  BY <1>6, <1>7, <1>8
<1>10. ASSUME NEW q \in Runs PROVE Life(runner'[q], told'[q], phase' = "up")
  <2>1. CASE q = r
    BY <1>1, <1>9, <2>1
  <2>2. CASE q # r
    BY <1>1, <1>4, <2>2 DEF Tells, Lives
  <2>. QED BY <2>1, <2>2
<1>. QED BY <1>10 DEF Lives

(* What is served of a run follows its history. *)
LEMMA ServingKept ==
  ASSUME TypeOK, Lives, Serving, NEW r \in Runs, NEW k \in Kinds, Emit(r, k), Moves(r, k)
  PROVE  Serving'
<1> DEFINE e == [seq |-> nextSeq, run |-> r, kind |-> k, ts |-> clock]
           Served(state, entry, tale, damaged) ==
             /\ state = "active" =>
                  Len(entry.events) > 0 /\ ~entry.rehydrated /\ entry.completed = "none"
             /\ state = "dead" /\ Len(entry.events) > 0 => entry.rehydrated
             /\ ~damaged => /\ Len(entry.events) = Len(tale)
                            /\ \A i \in Count(tale) : entry.events[i].kind = tale[i]
<1>1. e \in Events /\ e.run = r /\ e.kind = k
  BY DEF TypeOK, Events
<1>2. Attach(e, FALSE)
  BY DEF Emit, Ingest
<1> HIDE DEF e
<1>3. /\ Tells(r, k) /\ Writes(r, k) /\ phase = "up"
      /\ runner \in [Runs -> {"idle", "active", "done", "dead"}]
  BY EmitTells DEF TypeOK
<1>4. \A q \in Runs : Served(runner[q], runs[q], told[q], q \in Damaged)
  BY <1>3 DEF Serving
<1>5. \A q \in Runs : q \in Damaged => q \in Damaged'
  BY <1>3 DEF Writes, Damaged
<1>6. ASSUME NEW q \in Runs, q # r
      PROVE  Served(runner'[q], runs'[q], told'[q], q \in Damaged')
  <2>1. runs'[q] = runs[q] /\ told'[q] = told[q] /\ runner'[q] = runner[q]
    BY <1>1, <1>2, <1>3, <1>6, Attached DEF Tells, Moves
  <2>. QED BY <1>4, <1>5, <2>1
<1>7. ASSUME k = "started"
      PROVE  Served(runner'[r], runs'[r], told'[r], r \in Damaged')
  <2>1. Begun(e, FALSE, runs'[r]) /\ runner'[r] = "active"
    BY <1>1, <1>2, <1>3, <1>7, Attached DEF Moves, Verdicts
  <2>2. Len(told[r]) = 0
    BY <1>7 DEF Moves, Lives, Verdicts
  <2>3. Len(told'[r]) = 1 /\ told'[r][1] = k
    BY <1>3, <2>2 DEF Tells
  <2>. QED BY <1>1, <2>1, <2>3 DEF Begun, Count
<1>8. ASSUME k # "started"
      PROVE  Served(runner'[r], runs'[r], told'[r], r \in Damaged')
  <2>1. Grown(runs[r], e, runs'[r]) /\ Len(runs[r].events) > 0
    BY <1>1, <1>2, <1>8, Attached DEF Moves
  <2>2. Len(runs[r].events) \in Nat /\ Len(told[r]) \in Nat
    BY EvidenceTypes
  <2>3. /\ runner'[r] = "active" =>
             Len(runs'[r].events) > 0 /\ ~runs'[r].rehydrated /\ runs'[r].completed = "none"
        /\ runner'[r] = "dead" /\ Len(runs'[r].events) > 0 => runs'[r].rehydrated
    BY <1>1, <1>3, <1>4, <1>8, <2>1, <2>2 DEF Grown, Moves
  <2>4. ASSUME r \notin Damaged'
        PROVE  /\ Len(runs'[r].events) = Len(told'[r])
               /\ \A i \in Count(told'[r]) : runs'[r].events[i].kind = told'[r][i]
    <3>1. /\ Len(runs[r].events) = Len(told[r])
          /\ \A i \in Count(told[r]) : runs[r].events[i].kind = told[r][i]
      BY <1>4, <1>5, <2>4
    <3>2. Len(runs'[r].events) = Len(told'[r])
      BY <1>3, <2>1, <3>1 DEF Grown, Tells
    <3>3. ASSUME NEW i \in Count(told'[r]) PROVE runs'[r].events[i].kind = told'[r][i]
      <4>1. i \in Count(told[r]) \/ i = Len(told[r]) + 1
        BY <1>3, <2>2 DEF Tells, Count
      <4>2. CASE i \in Count(told[r])
        BY <1>3, <2>1, <3>1, <4>2 DEF Grown, Tells, Count
      <4>3. CASE i = Len(told[r]) + 1
        BY <1>1, <1>3, <2>1, <3>1, <4>3 DEF Grown, Tells
      <4>. QED BY <4>1, <4>2, <4>3
    <3>. QED BY <3>2, <3>3
  <2>. QED BY <2>3, <2>4
<1>9. \A q \in Runs : Served(runner'[q], runs'[q], told'[q], q \in Damaged')
  BY <1>6, <1>7, <1>8
<1>. QED BY <1>9 DEF Serving

(* An emission keeps the whole of it. *)
LEMMA EmitHistory ==
  ASSUME TypeOK, TypeOK', History, NEW r \in Runs, NEW k \in Kinds, Emit(r, k), Moves(r, k)
  PROVE  History'
<1> DEFINE e == [seq |-> nextSeq, run |-> r, kind |-> k, ts |-> clock]
<1>1. e \in Events /\ e.run = r /\ e.kind = k
  BY DEF TypeOK, Events
<1>2. Attach(e, FALSE)
  BY DEF Emit, Ingest
<1> HIDE DEF e
<1>3. Tells(r, k) /\ Remembers /\ phase' = "up"
  BY EmitTells
<1>4. \E j \in Count(told'[r]) : told'[r][j] = k
  <2>1. Len(told[r]) + 1 \in Count(told'[r])
    BY <1>3, EvidenceTypes DEF Tells, Count
  <2>. QED BY <1>3, <2>1 DEF Tells
<1>5. Entries'
  BY <1>1, <1>2, <1>3, <1>4, EntriesKept DEF History
<1>6. Lives' /\ Recordings' /\ Serving'
  BY LivesKept, RecordingsKept, ServingKept DEF History
<1>7. Loading' /\ Down'
  BY <1>3 DEF Loading, Down
<1>. QED BY <1>5, <1>6, <1>7 DEF History

(* What is pending are lines of recordings. *)
LEMMA PendingLine ==
  ASSUME TypeOK, NEW x \in pending
  PROVE  /\ x[1] \in Runs /\ x[2] \in Nat /\ x = <<x[1], x[2]>>
         /\ x[2] \in 1..Len(file[x[1]])
<1>1. x \in Runs \X Nat
  BY DEF TypeOK
<1>2. x[2] \in 1..Len(file[x[1]])
  BY DEF TypeOK
<1>. QED BY <1>1, <1>2

(* One turn of the loader's loop: of an undamaged run it takes the line that
   comes next, because the clock orders the lines of a run as they were told
   (rehydrate.ts loadRecordedEvents: "a run's own events never reorder").     *)
LEMMA TakesNext ==
  ASSUME TypeOK, Recordings, NEW q \in Runs, NEW k \in Nat, NEW x \in pending,
         x = <<q, k>>, First(x), q \notin Damaged, Loaded(q)
  PROVE  k = Len(runs[q].events) + 1
<1> DEFINE n == Len(runs[q].events)
<1>1. q \in Nat /\ n \in Nat /\ Len(file[q]) \in Nat /\ file[q] \in Seq(Events)
  BY RunsAssumption, EvidenceTypes
<1>2. k \in Count(file[q])
  BY PendingLine DEF Count
<1>3. \A i \in Count(file[q]) : <<q, i>> \in pending <=> i > n
  BY DEF Loaded
<1>4. \A i \in Count(file[q]) : file[q][i].ts \in Nat
  <2>1. \A e \in Events : e.ts \in Nat
    BY BoundsAssumption DEF Events
  <2>. QED BY <1>1, <2>1 DEF Count
<1>5. \A i, j \in Count(file[q]) : i < j => file[q][i].ts <= file[q][j].ts
  BY DEF Recordings
<1> HIDE DEF n
<1>6. ASSUME k > n + 1 PROVE FALSE
  <2>1. n + 1 \in Count(file[q])
    BY <1>1, <1>2, <1>6 DEF Count
  <2>2. <<q, n + 1>> \in pending /\ n + 1 # k
    BY <1>1, <1>3, <1>6, <2>1
  <2>3. Before(<<q, k>>, <<q, n + 1>>)
    <3>1. <<q, n + 1>> # x
      BY <2>2
    <3>. QED BY <2>2, <3>1 DEF First
  <2>4. file[q][n + 1].ts <= file[q][k].ts
    BY <1>2, <1>5, <1>6, <2>1
  <2>5. file[q][n + 1].ts \in Nat /\ file[q][k].ts \in Nat
    BY <1>2, <1>4, <2>1
  <2>6. Line(<<q, k>>) = file[q][k] /\ Line(<<q, n + 1>>) = file[q][n + 1]
    BY DEF Line
  <2>7. \/ file[q][k].ts < file[q][n + 1].ts
        \/ q < q
        \/ k < n + 1
    BY <1>1, <2>3, <2>6 DEF Before
  <2>. QED BY <1>1, <1>6, <2>4, <2>5, <2>7
<1>. QED BY <1>1, <1>2, <1>3, <1>6 DEF n

(* What hydrate takes in keeps the whole of it. *)
LEMMA HydrateHistory ==
  ASSUME TypeOK, TypeOK', History, Hydrate
  PROVE  History'
<1>1. PICK x \in pending :
        /\ First(x) /\ pending' = pending \ {x}
        /\ Ingest([Line(x) EXCEPT !.seq = maxSeq + 1], TRUE)
  BY DEF Hydrate
<1> DEFINE q == x[1]
           k == x[2]
           e == [Line(x) EXCEPT !.seq = maxSeq + 1]
<1>2. q \in Runs /\ k \in Nat /\ k \in Count(file[q]) /\ x = <<q, k>>
  BY PendingLine DEF Count
<1>3. Line(x) \in Events /\ maxSeq + 1 \in Nat
  <2>1. maxSeq + 1 \in Nat
    BY DEF TypeOK
  <2>. QED BY <2>1, LineType
<1>4. e \in Events /\ e.kind = file[q][k].kind /\ e.run = file[q][k].run
  BY <1>3, RenumberType DEF Line, Events
<1>5. Attach(e, TRUE)
  BY <1>1 DEF Ingest
<1>6. e.run = q /\ \E j \in Count(told[q]) : told[q][j] = e.kind
  BY <1>2, <1>4 DEF History, Recordings
<1>7. phase = "loading" /\ UNCHANGED <<phase, clock, file, torn, lossy, runner, told>>
  BY DEF Hydrate, diskVars
<1> HIDE DEF e, q, k
<1>8. Lives' /\ Recordings'
  <2>1. Lives'
    BY <1>7 DEF History, Lives, Count
  <2>. QED BY <1>7, <2>1 DEF History, Recordings, Damaged, Count
<1>9. Entries'
  BY <1>4, <1>5, <1>6, <1>7, EntriesKept DEF History, Remembers
<1>10. /\ \A r \in Runs : r # q => runs'[r] = runs[r]
       /\ e.kind = "started" => Begun(e, TRUE, runs'[q])
       /\ e.kind # "started" /\ Len(runs[q].events) > 0 => Grown(runs[q], e, runs'[q])
       /\ e.kind # "started" /\ Len(runs[q].events) = 0 => runs'[q] = runs[q]
  BY <1>4, <1>5, <1>6, Attached
<1>11. \A r \in Runs :
         /\ Len(runs[r].events) > 0 => runs[r].rehydrated
         /\ r \notin Damaged => Loaded(r)
  BY <1>7 DEF History, Loading
<1>12. Len(runs[q].events) \in Nat /\ Len(file[q]) \in Nat
  BY <1>2, EvidenceTypes
<1>13. ASSUME NEW r \in Runs, r # q
       PROVE  /\ Len(runs'[r].events) > 0 => runs'[r].rehydrated
              /\ r \notin Damaged' => Loaded(r)'
  <2>1. runs'[r] = runs[r] /\ file'[r] = file[r] /\ Damaged' = Damaged
    BY <1>7, <1>10, <1>13 DEF Damaged
  <2>2. \A i : <<r, i>> \in pending' <=> <<r, i>> \in pending
    BY <1>1, <1>2, <1>13
  <2>. QED BY <1>11, <2>1, <2>2 DEF Loaded, Count
<1>14. Len(runs'[q].events) > 0 => runs'[q].rehydrated
  BY <1>2, <1>10, <1>11, <1>12 DEF Begun, Grown
<1>15. ASSUME q \notin Damaged PROVE Loaded(q)'
  <2> DEFINE n == Len(runs[q].events)
  <2>1. Loaded(q)
    BY <1>2, <1>11, <1>15
  <2>2. k = n + 1
    BY <1>1, <1>2, <1>15, <2>1, TakesNext DEF History
  <2>3. e.kind = "started" <=> k = 1
    <3>1. k \in Count(told[q]) /\ told[q][k] = e.kind
      BY <1>2, <1>4, <1>15 DEF History, Recordings, Count
    <3>. QED BY <1>2, <3>1 DEF History, Lives
  <2>4. /\ Len(runs'[q].events) = n + 1
        /\ \A i \in Count(runs[q].events) : runs'[q].events[i] = runs[q].events[i]
        /\ runs'[q].events[n + 1] = e
    <3>1. CASE n = 0
      BY <1>10, <2>2, <2>3, <3>1 DEF Begun, Count
    <3>2. CASE n > 0
      BY <1>10, <1>12, <2>2, <2>3, <3>2 DEF Grown, Count
    <3>. QED BY <1>12, <3>1, <3>2
  <2>5. ASSUME NEW i \in Count(file[q])
        PROVE  <<q, i>> \in pending' <=> i > n + 1
    <3>1. <<q, i>> \in pending' <=> (<<q, i>> \in pending /\ i # k)
      BY <1>1, <1>2
    <3>2. <<q, i>> \in pending <=> i > n
      BY <2>1 DEF Loaded
    <3>. QED BY <1>12, <2>2, <3>1, <3>2 DEF Count
  <2>6. ASSUME NEW i \in 1..(n + 1)
        PROVE  runs'[q].events[i].kind = file[q][i].kind
    <3>1. CASE i = n + 1
      BY <1>4, <2>2, <2>4, <3>1
    <3>2. CASE i # n + 1
      <4>1. i \in Count(runs[q].events)
        BY <1>12, <3>2 DEF Count
      <4>. QED BY <2>1, <2>4, <4>1 DEF Loaded
    <3>. QED BY <3>1, <3>2
  <2>7. n + 1 <= Len(file[q])
    BY <1>2, <1>12, <2>2 DEF Count
  <2>. QED BY <1>7, <2>4, <2>5, <2>6, <2>7 DEF Loaded, Count
<1>16. Loading'
  <2>1. Damaged' = Damaged
    BY <1>7 DEF Damaged
  <2>. QED BY <1>13, <1>14, <1>15, <2>1 DEF Loading
<1>17. Serving' /\ Down'
  BY <1>7 DEF Serving, Down
<1>. QED BY <1>8, <1>9, <1>16, <1>17 DEF History

(* A process that dies leaves the recordings, and no registry. *)
LEMMA CrashHistory ==
  ASSUME TypeOK, History, Crash
  PROVE  History'
<1>1. /\ phase' = "down" /\ UNCHANGED <<clock, file, told, lossy>> /\ torn \subseteq torn'
      /\ runs' = [r \in Runs |-> NoRun]
      /\ runner' = [r \in Runs |-> IF runner[r] = "active" THEN "dead" ELSE runner[r]]
  BY DEF Crash
<1>2. Lives'
  <2>1. \A r \in Runs :
          /\ runner'[r] = "idle" <=> runner[r] = "idle"
          /\ runner'[r] = "done" <=> runner[r] = "done"
          /\ runner'[r] # "active"
    BY <1>1
  <2>. QED BY <1>1, <2>1 DEF History, Lives, Count
<1>3. Recordings'
  <2>1. \A r \in Runs : r \notin Damaged' => r \notin Damaged
    BY <1>1 DEF Damaged
  <2>. QED BY <1>1, <2>1 DEF History, Recordings, Count
<1>4. Entries'
  <2>1. \A r \in Runs : Len(runs'[r].events) = 0 /\ runs'[r].completed = "none"
    BY <1>1 DEF NoRun
  <2>. QED BY <2>1 DEF Entries, Count
<1>5. Loading' /\ Serving' /\ Down'
  BY <1>1 DEF Loading, Serving, Down
<1>. QED BY <1>2, <1>3, <1>4, <1>5 DEF History

(* A process that boots has every line still to take in. *)
LEMMA BootHistory ==
  ASSUME TypeOK, History, Boot
  PROVE  History'
<1>1. /\ phase = "down" /\ phase' = "loading"
      /\ UNCHANGED <<clock, runs, file, torn, lossy, runner, told>>
      /\ pending' = UNION {{<<r, i>> : i \in 1..Len(file[r])} : r \in Runs}
  BY DEF Boot, registryVars, diskVars
<1>2. Lives'
  BY <1>1 DEF History, Lives, Count
<1>3. Recordings'
  BY <1>1 DEF History, Recordings, Count, Damaged
<1>4. Entries'
  BY <1>1 DEF History, Entries, Count
<1>5. ASSUME NEW r \in Runs
      PROVE  Len(runs[r].events) = 0 /\ Loaded(r)'
  <2>1. runs[r] = NoRun
    BY <1>1 DEF History, Down
  <2>2. Len(runs[r].events) = 0
    BY <2>1 DEF NoRun
  <2>3. Len(file[r]) \in Nat
    BY EvidenceTypes
  <2>4. \A i \in Count(file[r]) : <<r, i>> \in pending'
    BY <1>1 DEF Count
  <2>. QED BY <1>1, <2>2, <2>3, <2>4 DEF Loaded, Count
<1>6. Loading'
  BY <1>1, <1>5 DEF Loading
<1>7. Serving' /\ Down'
  BY <1>1 DEF Serving, Down
<1>. QED BY <1>2, <1>3, <1>4, <1>6, <1>7 DEF History

(* When nothing is pending any more, an undamaged run is loaded entirely. *)
LEMMA LoadedEntirely ==
  ASSUME TypeOK, History, phase = "loading", pending = {}, NEW r \in Runs, r \notin Damaged
  PROVE  /\ Len(runs[r].events) = Len(told[r])
         /\ \A i \in Count(told[r]) : runs[r].events[i].kind = told[r][i]
<1>1. Len(runs[r].events) \in Nat /\ Len(file[r]) \in Nat
  BY EvidenceTypes
<1>2. Loaded(r)
  BY DEF History, Loading
<1>3. /\ Len(file[r]) = Len(told[r])
      /\ \A i \in Count(file[r]) : file[r][i].kind = told[r][i]
  BY DEF History, Recordings
<1>4. Len(runs[r].events) = Len(file[r])
  BY <1>1, <1>2 DEF Loaded, Count
<1>. QED BY <1>2, <1>3, <1>4 DEF Loaded, Count

(* A process that has loaded everything shows what was recorded. *)
LEMMA ListenHistory ==
  ASSUME TypeOK, History, Listen
  PROVE  History'
<1>1. /\ phase = "loading" /\ pending = {} /\ phase' = "up"
      /\ UNCHANGED <<clock, runs, file, torn, lossy, runner, told>>
  BY DEF Listen, registryVars, diskVars
<1>2. Lives'
  BY <1>1 DEF History, Lives, Count
<1>3. Recordings'
  BY <1>1 DEF History, Recordings, Count, Damaged
<1>4. Entries'
  BY <1>1 DEF History, Entries, Count
<1>5. Serving'
  <2>1. \A r \in Runs : runner[r] # "active"
    BY <1>1 DEF History, Lives
  <2>2. \A r \in Runs : Len(runs[r].events) > 0 => runs[r].rehydrated
    BY <1>1 DEF History, Loading
  <2>3. \A r \in Runs : r \notin Damaged =>
          /\ Len(runs[r].events) = Len(told[r])
          /\ \A i \in Count(told[r]) : runs[r].events[i].kind = told[r][i]
    BY <1>1, LoadedEntirely
  <2>. QED BY <1>1, <2>1, <2>2, <2>3 DEF Serving, Damaged, Count
<1>6. Loading' /\ Down'
  BY <1>1 DEF Loading, Down
<1>. QED BY <1>2, <1>3, <1>4, <1>5, <1>6 DEF History

(* A clock that moves on keeps the recordings in its order. *)
LEMMA TickHistory ==
  ASSUME TypeOK, History, ~BackwardClock, Tick
  PROVE  History'
<1>1. /\ phase' = phase /\ pending' = pending
      /\ UNCHANGED <<runs, file, torn, lossy, runner, told>>
      /\ clock' \in 0..MaxClock /\ clock' > clock
  BY DEF Tick, registryVars, diskVars
<1>2. Lives'
  BY <1>1 DEF History, Lives, Count
<1>3. Recordings'
  <2>1. \A r \in Runs : \A i \in Count(file[r]) : file[r][i].ts <= clock'
    <3>1. clock \in Nat /\ clock' \in Nat
      BY <1>1, BoundsAssumption DEF TypeOK
    <3>2. \A e \in Events : e.ts \in Nat
      BY BoundsAssumption DEF Events
    <3>3. \A r \in Runs : \A i \in Count(file[r]) : file[r][i].ts \in Nat
      BY <3>2, EvidenceTypes DEF Count
    <3>4. \A r \in Runs : \A i \in Count(file[r]) : file[r][i].ts <= clock
      BY DEF History, Recordings
    <3>. QED BY <1>1, <3>1, <3>3, <3>4
  <2>. QED BY <1>1, <2>1 DEF History, Recordings, Count, Damaged
<1>4. Entries'
  BY <1>1 DEF History, Entries, Count
<1>5. Loading'
  BY <1>1 DEF History, Loading, Loaded, Count, Damaged
<1>6. Serving' /\ Down'
  BY <1>1 DEF History, Serving, Down, Count, Damaged
<1>. QED BY <1>2, <1>3, <1>4, <1>5, <1>6 DEF History

(* The start of an idle run is a move. *)
LEMMA StartMoves ==
  ASSUME TypeOK, History, NEW r \in Runs, StartRun(r)
  PROVE  Emit(r, "started") /\ Moves(r, "started")
BY DEF StartRun, Moves

(* A run under way is in the registry. *)
LEMMA ActiveIsShown ==
  ASSUME TypeOK, History, NEW r \in Runs, runner[r] = "active"
  PROVE  Len(runs[r].events) > 0
BY DEF History, Lives, Serving

(* Evidence of a run under way is a move. *)
LEMMA StepMoves ==
  ASSUME TypeOK, History, NEW r \in Runs, ObserveStep(r)
  PROVE  Emit(r, "step") /\ Moves(r, "step") /\ runner' = runner
BY ActiveIsShown DEF ObserveStep, Moves, Verdicts

(* So is its end. *)
LEMMA VerdictMoves ==
  ASSUME TypeOK, History, NEW r \in Runs, NEW v \in Verdicts, CompleteRun(r, v)
  PROVE  Emit(r, v) /\ Moves(r, v)
BY ActiveIsShown DEF CompleteRun, Moves, Verdicts

(* So is a webhook that names a run of the registry. *)
LEMMA WebhookMoves ==
  ASSUME TypeOK, History, NEW w \in Webhooks, Correlate(w)
  PROVE  /\ Emit(Target[w], w) /\ Moves(Target[w], w)
         /\ Target[w] \in Runs /\ w \notin Verdicts /\ w # "started" /\ runner' = runner
<1>1. w \notin Verdicts /\ w # "started" /\ Target[w] \in Runs
  BY WebhooksAssumption DEF Verdicts
<1>2. Len(runs[Target[w]].events) > 0
  BY <1>1, EvidenceTypes DEF Correlate
<1>. QED BY <1>1, <1>2 DEF Correlate, Moves

(* Every step keeps the history. *)
LEMMA HistoryStep ==
  ASSUME TypeOK, TypeOK', History, ~BackwardClock, [Next]_vars
  PROVE  History'
<1> USE KindFacts
<1>1. ASSUME NEW r \in Runs, StartRun(r) PROVE History'
  BY <1>1, StartMoves, EmitHistory
<1>2. ASSUME NEW r \in Runs, ObserveStep(r) PROVE History'
  BY <1>2, StepMoves, EmitHistory
<1>3. ASSUME NEW r \in Runs, NEW v \in Verdicts, CompleteRun(r, v) PROVE History'
  BY <1>3, VerdictMoves, EmitHistory
<1>4. ASSUME NEW w \in Webhooks, Correlate(w) PROVE History'
  BY <1>4, WebhookMoves, EmitHistory
<1>5. CASE Crash
  BY <1>5, CrashHistory
<1>6. CASE Boot
  BY <1>6, BootHistory
<1>7. CASE Hydrate
  BY <1>7, HydrateHistory
<1>8. CASE Listen
  BY <1>8, ListenHistory
<1>9. CASE Tick
  BY <1>9, TickHistory
<1>10. CASE UNCHANGED vars
  <2>1. UNCHANGED <<phase, clock, runs, pending, file, torn, lossy, runner, told>>
    BY <1>10 DEF vars
  <2>2. Lives' /\ Recordings' /\ Entries'
    BY <2>1 DEF History, Lives, Recordings, Entries, Damaged, Count
  <2>3. Loading' /\ Serving' /\ Down'
    BY <2>1 DEF History, Loading, Loaded, Serving, Down, Damaged, Count
  <2>. QED BY <2>2, <2>3 DEF History
<1>. QED
  BY <1>1, <1>2, <1>3, <1>4, <1>5, <1>6, <1>7, <1>8, <1>9, <1>10 DEF Next

(* Unless the clock is set back, every state keeps the history of its runs. *)
THEOREM HistoryInvariant ==
  ASSUME ~BackwardClock
  PROVE  Spec => []History
<1>1. Init => History
  <2> SUFFICES ASSUME Init PROVE History
    OBVIOUS
  <2>1. \A r \in Runs : /\ runner[r] = "idle" /\ told[r] = <<>> /\ file[r] = <<>>
                        /\ runs[r] = NoRun
    BY DEF Init
  <2>2. \A r \in Runs : /\ Len(told[r]) = 0 /\ Len(file[r]) = 0
                        /\ Len(runs[r].events) = 0 /\ runs[r].completed = "none"
    BY <2>1 DEF NoRun
  <2>3. phase = "down"
    BY DEF Init
  <2>4. Lives
    BY <2>1, <2>2 DEF Lives, Count
  <2>5. Recordings /\ Entries
    BY <2>2 DEF Recordings, Entries, Count
  <2>6. Loading /\ Serving /\ Down
    BY <2>1, <2>3 DEF Loading, Serving, Down
  <2>. QED BY <2>4, <2>5, <2>6 DEF History
<1>2. TypeOK /\ TypeOK' /\ History /\ [Next]_vars => History'
  BY HistoryStep
<1>. QED BY <1>1, <1>2, TypeCorrect, PTL DEF Spec

(* Evidence survives any number of crashes and recoveries: unless the wall
   clock was set back, a run whose recording has no lost or torn line is shown
   by every later process with all its events, in their order
   (loadRecordedEvents, createRunRegistry, createRecorder).                   *)
THEOREM EvidenceAlwaysSurvives ==
  ASSUME ~BackwardClock
  PROVE  Spec => []EvidenceSurvives
<1>1. TypeOK /\ History => EvidenceSurvives
  <2> SUFFICES ASSUME TypeOK, History, phase = "up", NEW r \in Runs \ (lossy \cup torn)
               PROVE  /\ Len(runs[r].events) = Len(told[r])
                      /\ \A i \in 1..Len(runs[r].events) : runs[r].events[i].kind = told[r][i]
    BY DEF EvidenceSurvives
  <2>. QED BY DEF History, Serving, Damaged, Count
<1>. QED BY <1>1, HistoryInvariant, TypeCorrect, PTL

-----------------------------------------------------------------------------
(***************************************************************************)
(* The status contract.  Status and Fate are read off one entry and one    *)
(* tale, so that a step which touches one run changes what is shown of it  *)
(* alone.                                                                  *)
(***************************************************************************)
ShownAs(entry) ==
  IF entry.events = <<>> THEN "absent"
  ELSE IF entry.completed # "none" THEN entry.completed
  ELSE IF entry.rehydrated THEN "partial"
  ELSE "running"

EndsAs(state, tale) ==
  CASE state = "idle" -> "idle"
    [] state = "active" -> "running"
    [] state = "dead" -> "abandoned"
    [] OTHER -> IF \E i \in 1..Len(tale) : tale[i] = "passed" THEN "passed" ELSE "failed"

fates == [r \in Runs |-> Fate(r)]
shows == [r \in Runs |-> IF phase = "up" THEN Status(r) ELSE "offline"]

(* The abstract state, read off entries and tales, before and after a step. *)
LEMMA ReadOff ==
  /\ \A r \in Runs : fates[r] = EndsAs(runner[r], told[r])
  /\ \A r \in Runs : fates'[r] = EndsAs(runner'[r], told'[r])
  /\ \A r \in Runs : shows[r] = IF phase = "up" THEN ShownAs(runs[r]) ELSE "offline"
  /\ \A r \in Runs : shows'[r] = IF phase' = "up" THEN ShownAs(runs'[r]) ELSE "offline"
<1>1. \A r \in Runs : fates[r] = Fate(r) /\ fates'[r] = Fate(r)'
  BY DEF fates
<1>2. \A r \in Runs : Fate(r) = EndsAs(runner[r], told[r]) /\ Fate(r)' = EndsAs(runner'[r], told'[r])
  BY DEF Fate, EndsAs
<1>3. \A r \in Runs : /\ shows[r] = IF phase = "up" THEN Status(r) ELSE "offline"
                      /\ shows'[r] = IF phase' = "up" THEN Status(r)' ELSE "offline"
  BY DEF shows
<1>4. \A r \in Runs : Status(r) = ShownAs(runs[r]) /\ Status(r)' = ShownAs(runs'[r])
  BY DEF Status, ShownAs, Known
<1>. QED BY <1>1, <1>2, <1>3, <1>4

(* A function that differs from another at one place. *)
LEMMA Updated ==
  ASSUME NEW S, NEW f, NEW g, NEW r \in S, NEW v,
         f = [q \in S |-> f[q]], g = [q \in S |-> g[q]],
         g[r] = v, \A q \in S : q # r => g[q] = f[q]
  PROVE  g = [f EXCEPT ![r] = v]
OBVIOUS

(* The abstract state changes for the run of the event only. *)
LEMMA EmitShows ==
  ASSUME TypeOK, TypeOK', NEW r \in Runs, NEW k \in Kinds, Emit(r, k),
         \A q \in Runs : q # r => runner'[q] = runner[q]
  PROVE  /\ \A q \in Runs : q # r => fates'[q] = fates[q] /\ shows'[q] = shows[q]
         /\ phase = "up" /\ phase' = "up"
         /\ lossy \cup torn \subseteq (lossy \cup torn)' /\ (lossy \cup torn)' \subseteq Runs
         /\ k = "started" => Begun([seq |-> nextSeq, run |-> r, kind |-> k, ts |-> clock],
                                   FALSE, runs'[r])
         /\ k # "started" /\ Len(runs[r].events) > 0 =>
              Grown(runs[r], [seq |-> nextSeq, run |-> r, kind |-> k, ts |-> clock], runs'[r])
<1> DEFINE e == [seq |-> nextSeq, run |-> r, kind |-> k, ts |-> clock]
<1>1. e \in Events /\ e.run = r /\ e.kind = k
  BY DEF TypeOK, Events
<1>2. Attach(e, FALSE)
  BY DEF Emit, Ingest
<1> HIDE DEF e
<1>3. Tells(r, k) /\ Writes(r, k) /\ phase = "up" /\ phase' = "up"
  BY EmitTells
<1>4. \A q \in Runs : q # r => runs'[q] = runs[q] /\ told'[q] = told[q]
  BY <1>1, <1>2, <1>3, Attached DEF Tells
<1>5. \A q \in Runs : q # r => fates'[q] = fates[q] /\ shows'[q] = shows[q]
  BY <1>3, <1>4, ReadOff
<1>6. lossy \cup torn \subseteq (lossy \cup torn)' /\ (lossy \cup torn)' \subseteq Runs
  BY <1>3 DEF Writes, TypeOK
<1>7. /\ k = "started" => Begun(e, FALSE, runs'[r])
      /\ k # "started" /\ Len(runs[r].events) > 0 => Grown(runs[r], e, runs'[r])
  BY <1>1, <1>2, Attached
<1>. QED BY <1>3, <1>5, <1>6, <1>7 DEF e

(* How an entry with events is shown. *)
LEMMA ShownKinds ==
  ASSUME NEW m \in RunEntries, Len(m.events) > 0
  PROVE  /\ m.completed # "none" => ShownAs(m) = m.completed
         /\ m.completed = "none" /\ m.rehydrated => ShownAs(m) = "partial"
         /\ m.completed = "none" /\ ~m.rehydrated => ShownAs(m) = "running"
<1>1. m.events # <<>>
  <2>1. Len(<<>>) = 0
    OBVIOUS
  <2>. QED BY <2>1
<1>. QED BY <1>1 DEF ShownAs

(* A start begins a run. *)
LEMMA StartBegins ==
  ASSUME TypeOK, TypeOK', History, NEW r \in Runs, StartRun(r)
  PROVE  Lifecycle!Begin(r)
<1>1. /\ Emit(r, "started") /\ runner[r] = "idle"
      /\ runner' = [runner EXCEPT ![r] = "active"] /\ "started" \in Kinds
  BY KindFacts DEF StartRun
<1>2. runner'[r] = "active" /\ \A q \in Runs : q # r => runner'[q] = runner[q]
  BY <1>1 DEF TypeOK
<1>3. /\ \A q \in Runs : q # r => fates'[q] = fates[q] /\ shows'[q] = shows[q]
      /\ phase = "up" /\ phase' = "up"
      /\ lossy \cup torn \subseteq (lossy \cup torn)' /\ (lossy \cup torn)' \subseteq Runs
      /\ Begun([seq |-> nextSeq, run |-> r, kind |-> "started", ts |-> clock], FALSE, runs'[r])
  BY <1>1, <1>2, EmitShows
<1>4. fates[r] = "idle" /\ fates'[r] = "running"
  BY <1>1, <1>2, ReadOff DEF EndsAs
<1>5. shows'[r] = "running"
  <2>1. runs'[r] \in RunEntries
    BY DEF TypeOK
  <2>. QED BY <1>3, <2>1, ReadOff, ShownKinds DEF Begun
<1>6. fates' = [fates EXCEPT ![r] = "running"]
  BY <1>3, <1>4, Updated DEF fates
<1>7. shows' = [shows EXCEPT ![r] = "running"]
  BY <1>3, <1>5, Updated DEF shows
<1>. QED BY <1>3, <1>4, <1>6, <1>7 DEF Lifecycle!Begin, Lifecycle!Damage, fates, shows

(* An end finishes it, with the verdict that is shown from then on. *)
LEMMA VerdictFinishes ==
  ASSUME TypeOK, TypeOK', History, History', NEW r \in Runs, NEW v \in Verdicts, CompleteRun(r, v)
  PROVE  Lifecycle!Finish(r, v)
<1>1. /\ Emit(r, v) /\ runner[r] = "active" /\ runner' = [runner EXCEPT ![r] = "done"]
      /\ v \in Kinds /\ v # "started" /\ v # "none" /\ Len(runs[r].events) > 0
  BY KindFacts, ActiveIsShown DEF CompleteRun, Verdicts
<1>2. runner'[r] = "done" /\ \A q \in Runs : q # r => runner'[q] = runner[q]
  BY <1>1 DEF TypeOK
<1> DEFINE e == [seq |-> nextSeq, run |-> r, kind |-> v, ts |-> clock]
<1>3. /\ \A q \in Runs : q # r => fates'[q] = fates[q] /\ shows'[q] = shows[q]
      /\ phase = "up" /\ phase' = "up"
      /\ lossy \cup torn \subseteq (lossy \cup torn)' /\ (lossy \cup torn)' \subseteq Runs
      /\ Grown(runs[r], e, runs'[r])
  BY <1>1, <1>2, EmitShows
<1>4. fates[r] = "running"
  BY <1>1, ReadOff DEF EndsAs
<1>5. fates'[r] = v
  <2>1. \E i \in 1..Len(told'[r]) : told'[r][i] = v
    <3>1. Tells(r, v) /\ Len(told[r]) \in Nat
      BY <1>1, EmitTells, EvidenceTypes
    <3>2. Len(told[r]) + 1 \in 1..Len(told'[r]) /\ told'[r][Len(told[r]) + 1] = v
      BY <3>1 DEF Tells
    <3>. QED BY <3>2
  <2>2. \A i \in 1..Len(told'[r]) : told'[r][i] \in Verdicts => told'[r][i] = v
    BY <2>1 DEF History, Lives, Count
  <2>3. v = "passed" \/ v = "failed"
    BY DEF Verdicts
  <2>4. (\E i \in 1..Len(told'[r]) : told'[r][i] = "passed") <=> v = "passed"
    BY <2>1, <2>2 DEF Verdicts
  <2>. QED BY <1>2, <2>3, <2>4, ReadOff DEF EndsAs
<1>6. shows'[r] = v
  <2>1. runs'[r] \in RunEntries /\ Len(runs[r].events) \in Nat
    BY EvidenceTypes DEF TypeOK
  <2>2. Len(runs'[r].events) > 0 /\ runs'[r].completed = v
    BY <1>3, <2>1 DEF Grown
  <2>. QED BY <1>1, <1>3, <2>1, <2>2, ReadOff, ShownKinds
<1>7. fates' = [fates EXCEPT ![r] = v]
  BY <1>3, <1>5, Updated DEF fates
<1>8. shows' = [shows EXCEPT ![r] = v]
  BY <1>3, <1>6, Updated DEF shows
<1>. QED BY <1>3, <1>4, <1>7, <1>8 DEF Lifecycle!Finish, Lifecycle!Damage, fates, shows

(* Evidence and webhooks change neither what became of a run nor its status. *)
LEMMA EvidenceLosesLine ==
  ASSUME TypeOK, TypeOK', NEW r \in Runs, NEW k \in Kinds, Emit(r, k),
         k # "started", k \notin Verdicts, Len(runs[r].events) > 0, runner' = runner
  PROVE  Lifecycle!LoseLine
<1> DEFINE e == [seq |-> nextSeq, run |-> r, kind |-> k, ts |-> clock]
<1>1. e.kind = k
  OBVIOUS
<1>2. /\ \A q \in Runs : q # r => fates'[q] = fates[q] /\ shows'[q] = shows[q]
      /\ phase = "up" /\ phase' = "up"
      /\ lossy \cup torn \subseteq (lossy \cup torn)' /\ (lossy \cup torn)' \subseteq Runs
      /\ Grown(runs[r], e, runs'[r])
  BY EmitShows
<1> HIDE DEF e
<1>3. fates'[r] = fates[r]
  <2>1. Tells(r, k) /\ Len(told[r]) \in Nat /\ k # "passed"
    BY EmitTells, EvidenceTypes DEF Verdicts
  <2>2. ASSUME NEW i \in 1..Len(told'[r]), told'[r][i] = "passed"
        PROVE  i \in 1..Len(told[r]) /\ told[r][i] = "passed"
    <3>1. i # Len(told[r]) + 1
      BY <2>1, <2>2 DEF Tells
    <3>2. i \in 1..Len(told[r])
      BY <2>1, <3>1 DEF Tells
    <3>. QED BY <2>1, <2>2, <3>2 DEF Tells, Count
  <2>3. ASSUME NEW i \in 1..Len(told[r]), told[r][i] = "passed"
        PROVE  i \in 1..Len(told'[r]) /\ told'[r][i] = "passed"
    <3>1. i \in 1..Len(told'[r])
      BY <2>1 DEF Tells
    <3>. QED BY <2>1, <2>3, <3>1 DEF Tells, Count
  <2>4. (\E i \in 1..Len(told'[r]) : told'[r][i] = "passed")
        <=> \E i \in 1..Len(told[r]) : told[r][i] = "passed"
    BY <2>2, <2>3
  <2>. QED BY <2>4, ReadOff DEF EndsAs
<1>4. shows'[r] = shows[r]
  <2>1. runs[r] \in RunEntries /\ runs'[r] \in RunEntries /\ Len(runs[r].events) \in Nat
    BY EvidenceTypes DEF TypeOK
  <2>2. /\ Len(runs'[r].events) > 0
        /\ runs'[r].completed = runs[r].completed /\ runs'[r].rehydrated = runs[r].rehydrated
    BY <1>1, <1>2, <2>1 DEF Grown
  <2>3. ShownAs(runs'[r]) = ShownAs(runs[r])
    <3>1. runs[r].rehydrated \in BOOLEAN
      BY <2>1 DEF RunEntries
    <3>. QED BY <2>1, <2>2, <3>1, ShownKinds
  <2>. QED BY <1>2, <2>3, ReadOff
<1>5. \A q \in Runs : fates'[q] = fates[q] /\ shows'[q] = shows[q]
  BY <1>2, <1>3, <1>4
<1>6. fates' = fates /\ shows' = shows
  BY <1>5 DEF fates, shows
<1>. QED BY <1>2, <1>6 DEF Lifecycle!LoseLine, Lifecycle!Damage, fates, shows

(* A death of a process that serves abandons what was under way; one that was
   still loading showed nothing and had nothing under way.                    *)
LEMMA CrashStops ==
  ASSUME TypeOK, TypeOK', History, Crash
  PROVE  Lifecycle!Next \/ UNCHANGED Lifecycle!vars
<1>1. /\ phase # "down" /\ phase' = "down" /\ told' = told /\ lossy' = lossy
      /\ runner' = [r \in Runs |-> IF runner[r] = "active" THEN "dead" ELSE runner[r]]
      /\ torn' = torn \/ (phase = "up" /\ torn \subseteq torn')
  BY DEF Crash
<1>2. \A r \in Runs : /\ runner[r] = "active" => runner'[r] = "dead"
                      /\ runner[r] # "active" => runner'[r] = runner[r]
  BY <1>1
<1>3. \A r \in Runs : fates'[r] = IF fates[r] = "running" THEN "abandoned" ELSE fates[r]
  BY <1>1, <1>2, ReadOff DEF EndsAs
<1>4. \A r \in Runs : shows'[r] = "offline"
  BY <1>1, ReadOff
<1>5. CASE phase = "up"
  <2>1. fates' = [r \in Runs |-> IF fates[r] = "running" THEN "abandoned" ELSE fates[r]]
    BY <1>3 DEF fates
  <2>2. shows' = [r \in Runs |-> "offline"]
    BY <1>4 DEF shows
  <2>3. lossy \cup torn \subseteq (lossy \cup torn)' /\ (lossy \cup torn)' \subseteq Runs
    BY <1>1 DEF TypeOK
  <2>4. Lifecycle!Stop
    BY <1>1, <1>5, <2>1, <2>2, <2>3 DEF Lifecycle!Stop, Lifecycle!Damage, fates, shows
  <2>. QED BY <2>4 DEF Lifecycle!Next
<1>6. CASE phase # "up"
  <2>1. \A r \in Runs : runner[r] # "active"
    BY <1>6 DEF History, Lives
  <2>2. \A r \in Runs : fates'[r] = fates[r]
    BY <1>1, <1>2, <2>1, ReadOff
  <2>3. \A r \in Runs : shows'[r] = shows[r]
    BY <1>4, <1>6, ReadOff
  <2>4. fates' = fates /\ shows' = shows
    BY <2>2, <2>3 DEF fates, shows
  <2>. QED BY <1>1, <1>6, <2>4 DEF Lifecycle!vars, fates, shows
<1>. QED BY <1>5, <1>6

(* A process that starts to serve shows an undamaged run as it ended, and of a
   damaged one nothing it did not reach.                                      *)
LEMMA ListenRestarts ==
  ASSUME TypeOK, TypeOK', History, Listen
  PROVE  Lifecycle!Restart
<1>1. /\ phase = "loading" /\ pending = {} /\ phase' = "up"
      /\ UNCHANGED <<runs, torn, lossy, runner, told>>
  BY DEF Listen, registryVars, diskVars
<1>2. \A r \in Runs : fates'[r] = fates[r] /\ shows'[r] = ShownAs(runs[r])
  BY <1>1, ReadOff
<1>3. fates' = fates
  BY <1>2 DEF fates
<1>4. ASSUME NEW r \in Runs
      PROVE  /\ shows'[r] \in Lifecycle!Shown
             /\ \/ shows'[r] = Lifecycle!Faithful(fates[r])
                \/ r \in lossy \cup torn /\ shows'[r] \in {"absent", "partial"}
  <2>1. runs[r] \in RunEntries /\ Len(runs[r].events) \in Nat /\ Len(told[r]) \in Nat
    BY EvidenceTypes
  <2>2. runner[r] \in {"idle", "done", "dead"}
    BY <1>1 DEF History, Lives, TypeOK
  <2>3. /\ runner[r] = "idle" <=> Len(told[r]) = 0
        /\ runner[r] = "done" <=> \E i \in Count(told[r]) : told[r][i] \in Verdicts
        /\ \A i, j \in Count(told[r]) :
             told[r][i] \in Verdicts /\ told[r][j] \in Verdicts => i = j
    BY DEF History, Lives
  <2>4. CASE Len(runs[r].events) = 0
    <3>1. shows'[r] = "absent"
      <4>1. runs[r].events = <<>>
        BY <2>1, <2>4 DEF RunEntries
      <4>. QED BY <1>2, <4>1 DEF ShownAs
    <3>2. CASE r \in lossy \cup torn
      BY <3>1, <3>2 DEF Lifecycle!Shown
    <3>3. CASE r \notin lossy \cup torn
      <4>1. Len(told[r]) = 0
        BY <1>1, <2>4, <3>3, LoadedEntirely DEF Damaged
      <4>2. fates[r] = "idle"
        BY <2>3, <4>1, ReadOff DEF EndsAs
      <4>. QED BY <3>1, <4>2 DEF Lifecycle!Shown, Lifecycle!Faithful
    <3>. QED BY <3>2, <3>3
  <2>5. CASE Len(runs[r].events) > 0 /\ runs[r].completed # "none"
    <3>1. shows'[r] = runs[r].completed /\ runs[r].completed \in Verdicts
      BY <1>2, <2>1, <2>5, ShownKinds DEF RunEntries
    <3>2. PICK j \in Count(told[r]) : told[r][j] = runs[r].completed
      BY <2>5 DEF History, Entries
    <3>3. \A i \in Count(told[r]) : told[r][i] \in Verdicts => told[r][i] = runs[r].completed
      BY <2>3, <3>1, <3>2
    <3>4. runner[r] = "done"
      BY <2>3, <3>1, <3>2
    <3>5. (\E i \in 1..Len(told[r]) : told[r][i] = "passed") <=> runs[r].completed = "passed"
      BY <3>2, <3>3 DEF Verdicts, Count
    <3>6. fates[r] = runs[r].completed
      BY <3>1, <3>4, <3>5, ReadOff DEF EndsAs, Verdicts
    <3>. QED BY <3>1, <3>6 DEF Lifecycle!Shown, Lifecycle!Faithful, Lifecycle!Verdict, Verdicts
  <2>6. CASE Len(runs[r].events) > 0 /\ runs[r].completed = "none"
    <3>1. shows'[r] = "partial"
      <4>1. runs[r].rehydrated
        BY <1>1, <2>6 DEF History, Loading
      <4>. QED BY <1>2, <2>1, <2>6, <4>1, ShownKinds
    <3>2. CASE r \in lossy \cup torn
      BY <3>1, <3>2 DEF Lifecycle!Shown
    <3>3. CASE r \notin lossy \cup torn
      <4>1. /\ Len(runs[r].events) = Len(told[r])
            /\ \A i \in Count(told[r]) : runs[r].events[i].kind = told[r][i]
        BY <1>1, <3>3, LoadedEntirely DEF Damaged
      <4>2. \A i \in Count(told[r]) : told[r][i] \notin Verdicts
        BY <2>6, <4>1 DEF History, Entries, Count
      <4>3. runner[r] = "dead"
        BY <2>2, <2>3, <2>6, <4>1, <4>2
      <4>4. fates[r] = "abandoned"
        BY <4>3, ReadOff DEF EndsAs
      <4>. QED BY <3>1, <4>4 DEF Lifecycle!Shown, Lifecycle!Faithful
    <3>. QED BY <3>2, <3>3
  <2>. QED BY <2>1, <2>4, <2>5, <2>6
<1>5. shows' \in [Runs -> Lifecycle!Shown]
  <2>1. shows' = [r \in Runs |-> shows'[r]]
    BY DEF shows
  <2>. QED BY <1>4, <2>1
<1>. QED BY <1>1, <1>3, <1>4, <1>5 DEF Lifecycle!Restart, fates, shows

(* Every step is a step of the lifecycle, or changes nothing of it. *)
LEMMA LifecycleStep ==
  ASSUME TypeOK, TypeOK', History, History', [Next]_vars
  PROVE  Lifecycle!Next \/ UNCHANGED Lifecycle!vars
<1> USE KindFacts
<1>1. ASSUME NEW r \in Runs, StartRun(r) PROVE Lifecycle!Next
  BY <1>1, StartBegins DEF Lifecycle!Next
<1>2. ASSUME NEW r \in Runs, ObserveStep(r) PROVE Lifecycle!Next
  <2>1. Emit(r, "step") /\ Len(runs[r].events) > 0 /\ runner' = runner
    BY <1>2, StepMoves, ActiveIsShown DEF ObserveStep
  <2>2. Lifecycle!LoseLine
    BY <2>1, EvidenceLosesLine DEF Verdicts
  <2>. QED BY <2>2 DEF Lifecycle!Next
<1>3. ASSUME NEW r \in Runs, NEW v \in Verdicts, CompleteRun(r, v) PROVE Lifecycle!Next
  <2>1. Lifecycle!Finish(r, v)
    BY <1>3, VerdictFinishes
  <2>. QED BY <2>1 DEF Lifecycle!Next, Lifecycle!Verdict, Verdicts
<1>4. ASSUME NEW w \in Webhooks, Correlate(w) PROVE Lifecycle!Next
  <2>1. /\ Emit(Target[w], w) /\ Target[w] \in Runs /\ w \in Kinds
        /\ w \notin Verdicts /\ w # "started" /\ runner' = runner
    BY <1>4, WebhookMoves
  <2>2. Len(runs[Target[w]].events) > 0
    BY <1>4, <2>1, EvidenceTypes DEF Correlate
  <2>3. Lifecycle!LoseLine
    BY <2>1, <2>2, EvidenceLosesLine
  <2>. QED BY <2>3 DEF Lifecycle!Next
<1>5. CASE Crash
  BY <1>5, CrashStops
<1>6. ASSUME phase # "up", phase' # "up", UNCHANGED <<torn, lossy, runner, told>>
      PROVE  UNCHANGED Lifecycle!vars
  <2>1. \A r \in Runs : fates'[r] = fates[r] /\ shows'[r] = shows[r]
    BY <1>6, ReadOff
  <2>2. fates' = fates /\ shows' = shows
    BY <2>1 DEF fates, shows
  <2>. QED BY <1>6, <2>2 DEF Lifecycle!vars, fates, shows
<1>7. CASE Boot
  BY <1>6, <1>7 DEF Boot, diskVars
<1>8. CASE Hydrate
  BY <1>6, <1>8 DEF Hydrate, diskVars
<1>9. CASE Listen
  BY <1>9, ListenRestarts DEF Lifecycle!Next
<1>10. ASSUME UNCHANGED <<phase, runs, torn, lossy, runner, told>>
       PROVE  UNCHANGED Lifecycle!vars
  <2>1. \A r \in Runs : fates'[r] = fates[r] /\ shows'[r] = shows[r]
    BY <1>10, ReadOff
  <2>2. fates' = fates /\ shows' = shows
    BY <2>1 DEF fates, shows
  <2>. QED BY <1>10, <2>2 DEF Lifecycle!vars, fates, shows
<1>11. CASE Tick
  BY <1>10, <1>11 DEF Tick, registryVars, diskVars
<1>12. CASE UNCHANGED vars
  BY <1>10, <1>12 DEF vars
<1>. QED
  BY <1>1, <1>2, <1>3, <1>4, <1>5, <1>7, <1>8, <1>9, <1>11, <1>12 DEF Next

(* Unless the clock is set back, the server keeps the status contract through
   every crash and recovery: the log refines the abstract lifecycle
   (RunSnapshot.status, registry.ts; rehydrate.ts).                           *)
THEOREM LogImplementsLifecycle ==
  ASSUME ~BackwardClock
  PROVE  Spec => LifecycleSpec
<1>1. Init => Lifecycle!Init
  <2> SUFFICES ASSUME Init PROVE Lifecycle!Init
    OBVIOUS
  <2>1. phase = "down" /\ lossy \cup torn = {} /\ \A r \in Runs : runner[r] = "idle"
    BY DEF Init
  <2>2. \A r \in Runs : fates[r] = "idle" /\ shows[r] = "offline"
    BY <2>1, ReadOff DEF EndsAs
  <2>3. fates = [r \in Runs |-> "idle"] /\ shows = [r \in Runs |-> "offline"]
    BY <2>2 DEF fates, shows
  <2>. QED BY <2>1, <2>3 DEF Lifecycle!Init, fates, shows
<1>2. TypeOK /\ TypeOK' /\ History /\ History' /\ [Next]_vars => [Lifecycle!Next]_(Lifecycle!vars)
  BY LifecycleStep
<1>. QED
  BY <1>1, <1>2, HistoryInvariant, TypeCorrect, PTL DEF Spec, LifecycleSpec, Lifecycle!Spec

=============================================================================
