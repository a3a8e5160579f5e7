---------------------------- MODULE ReceiverProofs ----------------------------
(***************************************************************************)
(* Proofs about Receiver: the inbox and its dedup index agree, a delivery  *)
(* that matched is attached, one process attaches it once, and evidence is *)
(* genuine and reaches its own run - for any ids, runs, resources, inbox   *)
(* and number of processes.                                                *)
(***************************************************************************)
EXTENDS Receiver, SequenceTheorems, TLAPS

Entries ==
  [id : Nat, status : {"accepted", "duplicate", "rejected"}, verified : BOOLEAN, n : Nat]

(* An inbox, its dedup index, and k deliveries so far: entries are of       *)
(* different deliveries.                                                    *)
Boxed(box, index, k) ==
  /\ box \in Seq(Entries) /\ Len(box) <= MaxEntries
  /\ index = {e \in ToSet(box) : e.status = "accepted"}
  /\ \A i, j \in DOMAIN box : box[i].n = box[j].n => i = j
  /\ \A i \in DOMAIN box : box[i].n < k
  /\ \A e, f \in index : e.id = f.id => e = f

(* The other variables have their types. *)
Typed ==
  /\ mode \in Modes
  /\ emitted \subseteq Nat /\ owed \subseteq Nat
  /\ started \subseteq Runs
  /\ refs \in [Runs -> SUBSET Resources]
  /\ request \in [Slots -> [id : Ids, defect : Defects] \cup {NoRequest}]
  /\ streams \in 0..1 /\ received \in Nat /\ process \in 1..MaxProcesses
  /\ server \in {"up", "closing", "down"}
  /\ handlers \subseteq Signals
  /\ exit \in {"none", "0", "1", "killed"}

(* What was owed or emitted is attached; what this process attached it       *)
(* remembers.                                                                *)
Remembered ==
  /\ \A i \in owed \cup emitted : \E e \in attached : e.id = i
  /\ \A e \in attached : /\ e.process \in Nat /\ e.process <= process
                         /\ e.process = process /\ server # "down" => e.id \in emitted
  /\ \A e, f \in attached : e.id = f.id /\ e.process = f.process => e = f

-----------------------------------------------------------------------------
(* The inbox. *)

(* An entry appended comes after those that were there. *)
LEMMA Appended ==
  ASSUME NEW box \in Seq(Entries), NEW entry \in Entries
  PROVE  /\ Append(box, entry) \in Seq(Entries)
         /\ Len(Append(box, entry)) = Len(box) + 1 /\ Len(box) \in Nat
         /\ DOMAIN Append(box, entry) = 1..Len(box) + 1 /\ DOMAIN box = 1..Len(box)
         /\ \A i \in 1..Len(box) : Append(box, entry)[i] = box[i]
         /\ Append(box, entry)[Len(box) + 1] = entry
         /\ ToSet(Append(box, entry)) = ToSet(box) \cup {entry}
<1>1. /\ Append(box, entry) \in Seq(Entries)
      /\ Len(Append(box, entry)) = Len(box) + 1
      /\ \A i \in 1..Len(box) : Append(box, entry)[i] = box[i]
      /\ Append(box, entry)[Len(box) + 1] = entry
  BY AppendProperties
<1>2. Len(box) \in Nat /\ DOMAIN box = 1..Len(box)
      /\ DOMAIN Append(box, entry) = 1..Len(box) + 1
  BY <1>1, LenProperties
<1> DEFINE longer == Append(box, entry)
<1> HIDE DEF longer
<1>3. ToSet(longer) = ToSet(box) \cup {entry}
  <2>1. \A i \in DOMAIN longer : i \in DOMAIN box \/ i = Len(box) + 1
    BY <1>2 DEF longer
  <2>2. DOMAIN box \subseteq DOMAIN longer /\ Len(box) + 1 \in DOMAIN longer
    BY <1>2 DEF longer
  <2>3. (\A i \in DOMAIN box : longer[i] = box[i]) /\ longer[Len(box) + 1] = entry
    BY <1>1, <1>2 DEF longer
  <2>. QED BY <2>1, <2>2, <2>3 DEF ToSet
<1>. QED BY <1>1, <1>2, <1>3 DEF longer

(* An inbox without its oldest entry. *)
LEMMA Shortened ==
  ASSUME NEW box \in Seq(Entries), box # <<>>,
         \A i, j \in DOMAIN box : box[i].n = box[j].n => i = j
  PROVE  /\ Tail(box) \in Seq(Entries) /\ Len(Tail(box)) = Len(box) - 1
         /\ DOMAIN Tail(box) = 1..Len(box) - 1
         /\ \A i \in DOMAIN Tail(box) : i + 1 \in DOMAIN box /\ Tail(box)[i] = box[i + 1]
         /\ ToSet(Tail(box)) = ToSet(box) \ {Head(box)}
<1>1. /\ Tail(box) \in Seq(Entries) /\ Len(Tail(box)) = Len(box) - 1
      /\ \A i \in 1..Len(Tail(box)) : Tail(box)[i] = box[i + 1]
  BY HeadTailProperties
<1>2. Len(box) \in Nat \ {0} /\ DOMAIN box = 1..Len(box) /\ DOMAIN Tail(box) = 1..Len(box) - 1
  BY <1>1, LenProperties, EmptySeq
<1>3. Head(box) = box[1]
  OBVIOUS
<1>4. \A i \in DOMAIN Tail(box) : i + 1 \in DOMAIN box /\ i + 1 # 1 /\ Tail(box)[i] = box[i + 1]
  BY <1>1, <1>2
<1> DEFINE shorter == Tail(box)
<1> HIDE DEF shorter
<1>5. ToSet(shorter) = ToSet(box) \ {Head(box)}
  <2>1. ASSUME NEW i \in DOMAIN shorter PROVE shorter[i] \in ToSet(box) /\ shorter[i] # box[1]
    <3>1. i + 1 \in DOMAIN box /\ i + 1 # 1 /\ shorter[i] = box[i + 1] /\ 1 \in DOMAIN box
      BY <1>2, <1>4 DEF shorter
    <3>. QED BY <3>1 DEF ToSet
  <2>2. ASSUME NEW j \in DOMAIN box, box[j] # box[1] PROVE box[j] \in ToSet(shorter)
    <3>1. j - 1 \in DOMAIN shorter /\ j - 1 + 1 = j
      BY <1>2, <2>2 DEF shorter
    <3>2. shorter[j - 1] = box[j]
      BY <1>4, <3>1 DEF shorter
    <3>. QED BY <3>1, <3>2 DEF ToSet
  <2>. QED BY <1>3, <2>1, <2>2 DEF ToSet
<1>. QED BY <1>1, <1>2, <1>4, <1>5 DEF shorter

(* Recording a delivery keeps the inbox bounded and its index in step. *)
LEMMA Recorded ==
  ASSUME Boxed(inbox, acceptedById, received), received \in Nat,
         NEW entry \in Entries, entry.n = received, RecordEntry(entry),
         entry.status = "accepted" => \A e \in acceptedById : e.id # entry.id
  PROVE  /\ Boxed(inbox', acceptedById', received + 1)
         /\ acceptedById' \subseteq acceptedById \cup (IF entry.status = "accepted" THEN {entry} ELSE {})
<1> DEFINE entries == Append(inbox, entry)
           index == IF entry.status = "accepted"
                    THEN {e \in acceptedById : e.id # entry.id} \cup {entry}
                    ELSE acceptedById
<1>1. inbox \in Seq(Entries) /\ Len(inbox) \in Nat /\ Len(inbox) <= MaxEntries
      /\ MaxEntries \in Nat /\ MaxEntries >= 1 /\ MaxProcesses >= 1
  BY LenProperties, ReceiverAssumption DEF Boxed
<1>2. /\ entries \in Seq(Entries) /\ Len(entries) = Len(inbox) + 1
      /\ DOMAIN entries = 1..Len(inbox) + 1 /\ DOMAIN inbox = 1..Len(inbox)
      /\ \A i \in 1..Len(inbox) : entries[i] = inbox[i]
      /\ entries[Len(inbox) + 1] = entry
      /\ ToSet(entries) = ToSet(inbox) \cup {entry}
  BY <1>1, Appended
<1>3. Evict(entries, index)
  BY DEF RecordEntry
<1>4. index = {e \in ToSet(entries) : e.status = "accepted"}
      /\ index \subseteq acceptedById \cup (IF entry.status = "accepted" THEN {entry} ELSE {})
  BY <1>2 DEF Boxed
<1>5. \A e, f \in index : e.id = f.id => e = f
  BY DEF Boxed
<1> HIDE DEF entries, index
<1>6. \A i \in DOMAIN entries : /\ entries[i].n \in Nat /\ entries[i].n < received + 1
                                /\ i # Len(inbox) + 1 => i \in DOMAIN inbox /\ entries[i].n < received
  <2>1. TAKE i \in DOMAIN entries
  <2>2. entries[i] \in Entries
    BY <1>2
  <2>3. entries[i].n \in Nat
    BY <2>2 DEF Entries
  <2>4. CASE i = Len(inbox) + 1
    BY <1>2, <2>3, <2>4
  <2>5. CASE i # Len(inbox) + 1
    <3>1. i \in DOMAIN inbox /\ entries[i] = inbox[i]
      BY <1>1, <1>2, <2>5
    <3>2. entries[i].n < received
      BY <3>1 DEF Boxed
    <3>. QED BY <2>3, <2>5, <3>1, <3>2
  <2>. QED BY <2>4, <2>5
<1>7. ASSUME NEW i \in DOMAIN entries, NEW j \in DOMAIN entries, entries[i].n = entries[j].n
      PROVE  i = j
  <2>1. CASE i = Len(inbox) + 1 \/ j = Len(inbox) + 1
    BY <1>2, <1>6, <1>7, <2>1
  <2>2. CASE i # Len(inbox) + 1 /\ j # Len(inbox) + 1
    BY <1>2, <1>6, <1>7, <2>2 DEF Boxed
  <2>. QED BY <2>1, <2>2
<1>8. CASE Len(entries) <= MaxEntries
  <2>1. inbox' = entries /\ acceptedById' = index
    BY <1>1, <1>2, <1>3, <1>8 DEF Evict
  <2>. QED BY <1>2, <1>4, <1>5, <1>6, <1>7, <1>8, <2>1 DEF Boxed
<1>9. CASE Len(entries) > MaxEntries
  <2>1. /\ inbox' = Tail(entries)
        /\ acceptedById' = IF Head(entries).status = "accepted" THEN index \ {Head(entries)} ELSE index
    BY <1>3, <1>9 DEF Evict
  <2>2. entries # <<>>
    BY <1>1, <1>2
  <2>3. /\ Tail(entries) \in Seq(Entries) /\ Len(Tail(entries)) = Len(entries) - 1
        /\ DOMAIN Tail(entries) = 1..Len(entries) - 1
        /\ \A i \in DOMAIN Tail(entries) : i + 1 \in DOMAIN entries /\ Tail(entries)[i] = entries[i + 1]
        /\ ToSet(Tail(entries)) = ToSet(entries) \ {Head(entries)}
    BY <1>2, <1>7, <2>2, Shortened
  <2>4. Len(Tail(entries)) <= MaxEntries
    BY <1>1, <1>2, <2>3
  <2>5. acceptedById' = {e \in ToSet(inbox') : e.status = "accepted"} /\ acceptedById' \subseteq index
    BY <1>4, <2>1, <2>3
  <2>6. \A i \in DOMAIN inbox' : inbox'[i].n < received + 1
    BY <1>6, <2>1, <2>3
  <2>7. ASSUME NEW i \in DOMAIN inbox', NEW j \in DOMAIN inbox', inbox'[i].n = inbox'[j].n
        PROVE  i = j
    <3>1. i + 1 = j + 1 /\ i \in Nat /\ j \in Nat
      BY <1>7, <2>1, <2>3, <2>7
    <3>. QED BY <3>1
  <2>. QED BY <1>4, <1>5, <2>1, <2>3, <2>4, <2>5, <2>6, <2>7 DEF Boxed
<1>. QED BY <1>1, <1>2, <1>8, <1>9

-----------------------------------------------------------------------------
(* The correlator. *)

(* The run that matches a payload is known, and it is the one the payload's *)
(* resource belongs to.                                                     *)
LEMMA MatchIsOwner ==
  ASSUME Typed, EvidenceBelongs, NEW i \in Ids, MatchOf(Payload[i]) # 0
  PROVE  /\ MatchOf(Payload[i]) \in started /\ MatchOf(Payload[i]) \in Runs
         /\ Payload[i].res # 0 => Owner[Payload[i].res] = MatchOf(Payload[i])
<1> DEFINE p == Payload[i]
           carriers == {r \in started : p.res \in refs[r]}
<1>1. /\ p.ext \in Runs \cup {0} /\ p.res \in Resources \cup {0}
      /\ 0 \notin Runs /\ 0 \notin Resources /\ started \subseteq Runs
      /\ \A r \in Runs : refs[r] \subseteq Resources
  BY ReceiverAssumption DEF Typed
<1>2. MatchOf(p) = IF p.ext \in started THEN p.ext
                   ELSE IF carriers = {} THEN 0
                   ELSE CHOOSE r \in carriers : \A q \in carriers : r <= q
  BY DEF MatchOf
<1>3. CASE p.ext \in started
  <2>1. p.ext # 0 /\ MatchOf(p) = p.ext
    BY <1>1, <1>2, <1>3
  <2>. QED BY <1>1, <1>3, <2>1, HonestAssumption
<1>4. CASE p.ext \notin started
  <2>1. carriers # {}
    BY <1>2, <1>4
  <2>2. \A r \in carriers : r \in started /\ p.res \in Resources /\ r = Owner[p.res] /\ r \in Nat
    BY <1>1, ReceiverAssumption DEF EvidenceBelongs
  <2>3. PICK r \in carriers : TRUE
    BY <2>1
  <2>4. \A q \in carriers : r <= q
    BY <2>2
  <2>5. MatchOf(p) \in carriers
    <3> HIDE DEF carriers, p
    <3>1. MatchOf(p) = CHOOSE s \in carriers : \A q \in carriers : s <= q
      BY <1>2, <1>4, <2>1
    <3>. QED BY <2>4, <3>1
  <2>. QED BY <1>1, <2>2, <2>5
<1>. QED BY <1>3, <1>4

IInv ==
  /\ Boxed(inbox, acceptedById, received)
  /\ Typed
  /\ Remembered
  /\ EvidenceBelongs

LEMMA InitIInv == Init => IInv
<1> SUFFICES ASSUME Init PROVE IInv
  OBVIOUS
<1>1. Boxed(inbox, acceptedById, received)
  <2>1. inbox = <<>> /\ acceptedById = {} /\ DOMAIN inbox = {} /\ Len(inbox) = 0
        /\ inbox \in Seq(Entries)
    BY DEF Init
  <2>2. ToSet(inbox) = {}
    BY <2>1 DEF ToSet
  <2>. QED BY <2>1, <2>2, ReceiverAssumption DEF Boxed
<1>2. Typed
  BY ReceiverAssumption DEF Init, Typed, Signals
<1>3. Remembered /\ EvidenceBelongs
  BY DEF Init, Remembered, EvidenceBelongs
<1>. QED BY <1>1, <1>2, <1>3 DEF IInv

(* What only the inbox, the index and the correlator use. *)
LEMMA OthersKeep ==
  ASSUME IInv, UNCHANGED <<mode, core, started>>, Typed', refs' = refs, process' = process,
         server = "down" => server' = "down"
  PROVE  IInv'
<1>1. Boxed(inbox, acceptedById, received)'
  BY DEF IInv, core
<1>2. Remembered'
  BY DEF IInv, Remembered, core
<1>3. EvidenceBelongs'
  BY DEF IInv, EvidenceBelongs, core
<1>. QED BY <1>1, <1>2, <1>3 DEF IInv

LEMMA RunsKeep ==
  ASSUME IInv, (\E r \in Runs : RunStarts(r)) \/ (\E x \in Resources : RunCreates(x))
  PROVE  IInv'
<1>1. CASE \E r \in Runs : RunStarts(r)
  <2>1. PICK r \in Runs : RunStarts(r)
    BY <1>1
  <2>2. Typed'
    BY <2>1 DEF IInv, Typed, RunStarts, core, life
  <2>3. Boxed(inbox, acceptedById, received)'
    BY <2>1 DEF IInv, RunStarts, core
  <2>4. Remembered' /\ EvidenceBelongs'
    BY <2>1 DEF IInv, Remembered, EvidenceBelongs, RunStarts, core, life
  <2>. QED BY <2>2, <2>3, <2>4 DEF IInv
<1>2. CASE \E x \in Resources : RunCreates(x)
  <2>1. PICK x \in Resources : RunCreates(x)
    BY <1>2
  <2>2. Owner[x] \in Runs /\ refs' = [refs EXCEPT ![Owner[x]] = @ \cup {x}]
    BY <2>1 DEF IInv, Typed, RunCreates
  <2>3. refs' \in [Runs -> SUBSET Resources]
        /\ \A r \in Runs : \A y \in refs'[r] : y \in refs[r] \/ (y = x /\ r = Owner[x])
    BY <2>2 DEF IInv, Typed
  <2>4. Typed'
    BY <2>1, <2>3 DEF IInv, Typed, RunCreates, core, life
  <2>5. Boxed(inbox, acceptedById, received)'
    BY <2>1 DEF IInv, RunCreates, core
  <2>6. Remembered' /\ EvidenceBelongs'
    BY <2>1, <2>3 DEF IInv, Remembered, EvidenceBelongs, RunCreates, core, life
  <2>. QED BY <2>4, <2>5, <2>6 DEF IInv
<1>. QED BY <1>1, <1>2

LEMMA PeersKeep ==
  ASSUME IInv,
         \/ \E s \in Slots : Connect(s) \/ Disconnect(s)
         \/ StreamOpens \/ StreamCloses
         \/ \E g \in Signals : Signal(g)
  PROVE  IInv'
<1>1. CASE \E s \in Slots : Connect(s) \/ Disconnect(s)
  <2>1. PICK s \in Slots : Connect(s) \/ Disconnect(s)
    BY <1>1
  <2>2. request' \in [Slots -> [id : Ids, defect : Defects] \cup {NoRequest}]
    BY <2>1 DEF IInv, Typed, Connect, Disconnect
  <2>3. UNCHANGED <<mode, core, registry, streams, life>>
    BY <2>1 DEF Connect, Disconnect
  <2>4. Typed'
    BY <2>2, <2>3 DEF IInv, Typed, core, registry, life
  <2>. QED BY <2>3, <2>4, OthersKeep DEF registry, life
<1>2. CASE StreamOpens \/ StreamCloses
  <2>1. streams' \in 0..1 /\ UNCHANGED <<mode, core, registry, request, life>>
    BY <1>2 DEF StreamOpens, StreamCloses
  <2>2. Typed'
    BY <2>1 DEF IInv, Typed, core, registry, life
  <2>. QED BY <2>1, <2>2, OthersKeep DEF registry, life
<1>3. CASE \E g \in Signals : Signal(g)
  <2>1. PICK g \in Signals : Signal(g)
    BY <1>3
  <2>2. Typed'
    BY <2>1 DEF IInv, Typed, Signal, core, registry
  <2>. QED BY <2>1, <2>2, OthersKeep DEF Signal, registry
<1>. QED BY <1>1, <1>2, <1>3

(* The end of a process empties what it kept in memory. *)
LEMMA EndKeeps ==
  ASSUME IInv, NEW code \in {"0", "1", "killed"}, Gone(code)
  PROVE  IInv'
<1>1. /\ inbox' = <<>> /\ acceptedById' = {} /\ received' = received /\ received \in Nat
      /\ DOMAIN inbox' = {} /\ Len(inbox') = 0 /\ inbox' \in Seq(Entries)
  BY DEF Gone, IInv, Typed
<1>2. ToSet(inbox') = {}
  BY <1>1 DEF ToSet
<1>3. Boxed(inbox', acceptedById', received')
  BY <1>1, <1>2, ReceiverAssumption DEF Boxed
<1>4. Typed'
  BY DEF IInv, Typed, Gone, registry
<1>5. Remembered' /\ EvidenceBelongs'
  BY DEF IInv, Remembered, EvidenceBelongs, Gone, registry
<1>. QED BY <1>3, <1>4, <1>5 DEF IInv

LEMMA BootKeeps == ASSUME IInv, Boot PROVE IInv'
<1>1. UNCHANGED <<mode, inbox, acceptedById, emitted, attached, owed, received, started, refs,
                  request, streams>>
      /\ process' = process + 1 /\ process' \in 1..MaxProcesses /\ process \in Nat
  BY ReceiverAssumption DEF Boot, IInv, Typed, core, registry
<1>2. Typed'
  BY <1>1 DEF IInv, Typed, Boot
<1>3. Boxed(inbox, acceptedById, received)'
  BY <1>1 DEF IInv
<1>4. EvidenceBelongs'
  BY <1>1 DEF IInv, EvidenceBelongs
<1>5. Remembered'
  <2>1. \A e \in attached : e.process \in Nat /\ e.process <= process
    BY DEF IInv, Remembered
  <2>2. \A e \in attached : e.process <= process + 1 /\ e.process # process + 1
    BY <1>1, <2>1
  <2>. QED BY <1>1, <2>1, <2>2 DEF IInv, Remembered
<1>. QED BY <1>2, <1>3, <1>4, <1>5 DEF IInv

-----------------------------------------------------------------------------
(* Deliveries. *)

(* An id a delivery has, or is given. *)
LEMMA IdsAreNumbers ==
  ASSUME IInv, NEW s \in Slots, request[s] # NoRequest
  PROVE  /\ request[s].id \in Ids /\ HeaderId(request[s]) \in Nat
         /\ EventId(request[s]) \in Nat /\ received \in Nat
<1>1. request[s] \in [id : Ids, defect : Defects] /\ received \in Nat
  BY DEF IInv, Typed
<1>2. Max(Ids) \in Ids
  <2>1. PICK m \in Ids : \A i \in Ids : m >= i
    BY ReceiverAssumption
  <2>. QED BY <2>1 DEF Max
<1>3. Ids \subseteq Nat
  BY ReceiverAssumption
<1>4. request[s].id \in Ids /\ request[s].id \in Nat
  BY <1>1, <1>3
<1>5. Fresh \in Nat
  <2>1. \A m \in Nat, k \in Nat : 1 + k + m \in Nat
    OBVIOUS
  <2>. QED BY <1>1, <1>2, <1>3, <2>1 DEF Fresh
<1>6. HeaderId(request[s]) \in Nat
  BY <1>4 DEF HeaderId
<1>7. EventId(request[s]) \in Nat
  BY <1>4, <1>5 DEF EventId
<1>. QED BY <1>1, <1>4, <1>6, <1>7

LEMMA Answering ==
  ASSUME IInv, NEW s \in Slots, Answered(s)
  PROVE  /\ request' \in [Slots -> [id : Ids, defect : Defects] \cup {NoRequest}]
         /\ received' = received + 1 /\ received \in Nat
         /\ UNCHANGED <<mode, started, streams, process, server, handlers, exit>>
  BY DEF IInv, Typed, Answered, life

(* Deliveries that do not become evidence. *)
LEMMA QuietKeeps ==
  ASSUME IInv, NEW s \in Slots, request[s] # NoRequest,
         TooLarge(s) \/ NotConfigured(s) \/ NotVerified(s) \/ NotJson(s) \/ Duplicate(s)
  PROVE  IInv'
<1>1. Quiet /\ Answered(s)
  BY DEF TooLarge, NotConfigured, NotVerified, NotJson, Duplicate
<1>2. /\ request' \in [Slots -> [id : Ids, defect : Defects] \cup {NoRequest}]
      /\ received' = received + 1 /\ received \in Nat
      /\ UNCHANGED <<mode, started, streams, process, server, handlers, exit>>
  BY <1>1, Answering
<1>3. Boxed(inbox', acceptedById', received + 1) /\ acceptedById' \subseteq acceptedById
  <2>1. CASE NotConfigured(s)
    <3>1. inbox' = inbox /\ acceptedById' = acceptedById
      BY <2>1 DEF NotConfigured
    <3>2. \A i \in DOMAIN inbox : inbox[i].n < received + 1
      <4>1. \A i \in DOMAIN inbox : inbox[i] \in Entries /\ inbox[i].n < received
        BY DEF IInv, Boxed
      <4>. QED BY <1>2, <4>1 DEF Entries
    <3>. QED BY <3>1, <3>2 DEF IInv, Boxed
  <2>2. CASE TooLarge(s) \/ NotVerified(s) \/ NotJson(s) \/ Duplicate(s)
    <3>1. PICK id \in Nat, status \in {"rejected", "duplicate"}, verified \in BOOLEAN :
            RecordEntry(Entry(id, status, verified))
      <4>1. HeaderId(request[s]) \in Nat /\ EventId(request[s]) \in Nat
        BY IdsAreNumbers
      <4>. QED BY <2>2, <4>1 DEF TooLarge, NotVerified, NotJson, Duplicate
    <3> DEFINE entry == Entry(id, status, verified)
    <3>2. entry \in Entries /\ entry.n = received /\ entry.status # "accepted"
      BY <1>2, <3>1 DEF Entry, Entries
    <3> HIDE DEF entry
    <3>3. RecordEntry(entry)
      BY <3>1 DEF entry
    <3>. QED BY <1>2, <3>2, <3>3, Recorded DEF IInv
  <2>. QED BY <2>1, <2>2
<1>4. Typed'
  BY <1>1, <1>2 DEF IInv, Typed, Quiet
<1>5. Remembered'
  BY <1>1, <1>2 DEF IInv, Remembered, Quiet
<1>6. EvidenceBelongs'
  BY <1>1, <1>2, <1>3 DEF IInv, EvidenceBelongs, Quiet
<1>. QED BY <1>2, <1>3, <1>4, <1>5, <1>6 DEF IInv

(* What the correlator makes of a payload that is accepted. *)
LEMMA Correlated ==
  ASSUME IInv, server # "down", NEW i \in Ids, NEW id \in Nat, NEW genuine \in BOOLEAN,
         Correlate(id, Payload[i], genuine), received \in Nat,
         mode = "signed" => genuine, mode # "off",
         UNCHANGED <<mode, started, process, server>>
  PROVE  /\ emitted' \subseteq Nat /\ owed' \subseteq Nat
         /\ refs' \in [Runs -> SUBSET Resources]
         /\ Remembered' /\ EvidenceBelongs'
<1> DEFINE p == Payload[i]
           run == MatchOf(p)
<1>1. /\ emitted \subseteq Nat /\ owed \subseteq Nat /\ refs \in [Runs -> SUBSET Resources]
      /\ p.res \in Resources \cup {0} /\ process \in Nat /\ Remembered /\ EvidenceBelongs
  BY ReceiverAssumption DEF IInv, Typed
<1>2. CASE run = 0 \/ Seen(id)
  <2>1. /\ UNCHANGED <<emitted, attached, refs>>
        /\ owed' = IF run = 0 THEN owed ELSE owed \cup {id}
        /\ run # 0 => id \in emitted
    BY <1>2 DEF Correlate, Seen
  <2> HIDE DEF run
  <2>2. Remembered'
    BY <1>1, <2>1 DEF Remembered
  <2>3. EvidenceBelongs'
    BY <1>1, <2>1 DEF EvidenceBelongs
  <2>. QED BY <1>1, <2>1, <2>2, <2>3
<1>3. CASE ~(run = 0 \/ Seen(id))
  <2> DEFINE new == [id |-> id, run |-> run, res |-> p.res, genuine |-> genuine,
                     process |-> process, n |-> received]
  <2>1. /\ emitted' = emitted \cup {id} /\ id \notin emitted
        /\ attached' = attached \cup {new}
        /\ refs' = [refs EXCEPT ![run] = @ \cup ({p.res} \ {0})]
        /\ owed' = owed \cup {id}
    BY <1>3 DEF Correlate, Seen, Remember
  <2>2. run \in Runs /\ (p.res # 0 => Owner[p.res] = run)
    BY <1>3, MatchIsOwner DEF IInv
  <2>3. /\ new.id = id /\ new.run = run /\ new.res = p.res /\ new.genuine = genuine
        /\ new.process = process
    OBVIOUS
  <2> HIDE DEF new, run, p
  <2>4. refs' \in [Runs -> SUBSET Resources]
        /\ \A r \in Runs : \A x \in refs'[r] : x \in refs[r] \/ (x = p.res /\ x # 0 /\ r = run)
    BY <1>1, <2>1, <2>2
  <2>5. Remembered'
    <3>1. \A j \in owed' \cup emitted' : \E e \in attached' : e.id = j
      BY <1>1, <2>1, <2>3 DEF Remembered
    <3>2. \A e \in attached' : /\ e.process \in Nat /\ e.process <= process
                               /\ e.process = process /\ server # "down" => e.id \in emitted'
      BY <1>1, <2>1, <2>3 DEF Remembered
    <3>3. \A e, f \in attached' : e.id = f.id /\ e.process = f.process => e = f
      <4>1. \A e \in attached : ~(e.id = id /\ e.process = process)
        BY <1>1, <2>1 DEF Remembered
      <4>. QED BY <1>1, <2>1, <2>3, <4>1 DEF Remembered
    <3>. QED BY <3>1, <3>2, <3>3 DEF Remembered
  <2>6. EvidenceBelongs'
    <3>1. mode = "signed" => \A e \in attached' : e.genuine
      BY <1>1, <2>1, <2>3 DEF EvidenceBelongs
    <3>2. \A e \in attached' : e.res # 0 => Owner[e.res] = e.run
      BY <1>1, <2>1, <2>2, <2>3 DEF EvidenceBelongs
    <3>3. \A r \in Runs : \A x \in refs'[r] : Owner[x] = r
      BY <1>1, <2>2, <2>4 DEF EvidenceBelongs
    <3>. QED BY <3>1, <3>2, <3>3 DEF EvidenceBelongs
  <2>. QED BY <1>1, <2>1, <2>4, <2>5, <2>6
<1>. QED BY <1>2, <1>3

LEMMA AcceptKeeps ==
  ASSUME IInv, NEW s \in Slots, request[s] # NoRequest, server # "down", AcceptDelivery(s)
  PROVE  IInv'
<1> DEFINE q == request[s]
           id == EventId(q)
           entry == Entry(id, "accepted", mode = "signed")
<1>1. /\ request' \in [Slots -> [id : Ids, defect : Defects] \cup {NoRequest}]
      /\ received' = received + 1 /\ received \in Nat
      /\ UNCHANGED <<mode, started, streams, process, server, handlers, exit>>
  BY Answering DEF AcceptDelivery
<1>2. q.id \in Ids /\ id \in Nat
  BY IdsAreNumbers
<1>3. /\ RecordEntry(entry) /\ Correlate(id, Payload[q.id], Genuine(q))
      /\ mode # "off" /\ (mode = "signed" => Genuine(q))
      /\ \A e \in acceptedById : e.id # id
  BY DEF AcceptDelivery, Trusted, Verifies, IsDuplicate
<1>4. /\ emitted' \subseteq Nat /\ owed' \subseteq Nat /\ refs' \in [Runs -> SUBSET Resources]
      /\ Remembered' /\ EvidenceBelongs'
  <2>1. Genuine(q) \in BOOLEAN
    BY DEF Genuine
  <2> HIDE DEF q, id
  <2>. QED BY <1>1, <1>2, <1>3, <2>1, Correlated
<1>5. Boxed(inbox', acceptedById', received + 1)
  <2>1. entry \in Entries /\ entry.n = received /\ entry.id = id
    BY <1>1, <1>2 DEF Entry, Entries
  <2> HIDE DEF entry, id
  <2>. QED BY <1>1, <1>3, <2>1, Recorded DEF IInv
<1>6. Typed'
  BY <1>1, <1>4 DEF IInv, Typed
<1>. QED BY <1>1, <1>4, <1>5, <1>6 DEF IInv

LEMMA NextIInv == IInv /\ [Next]_vars => IInv'
<1> SUFFICES ASSUME IInv, [Next]_vars PROVE IInv'
  OBVIOUS
<1>1. CASE (\E r \in Runs : RunStarts(r)) \/ (\E x \in Resources : RunCreates(x))
  BY <1>1, RunsKeep
<1>2. CASE \/ \E s \in Slots : Connect(s) \/ Disconnect(s)
           \/ StreamOpens \/ StreamCloses
           \/ \E g \in Signals : Signal(g)
  BY <1>2, PeersKeep
<1>3. CASE \E s \in Slots : Handle(s)
  BY <1>3, QuietKeeps, AcceptKeeps DEF Handle
<1>4. CASE (\E g \in Signals : SignalAgain(g)) \/ Kill \/ CloseResolves \/ CloseRejects \/ Deadline
  BY <1>4, EndKeeps DEF SignalAgain, Kill, CloseResolves, CloseRejects, Deadline
<1>5. CASE Boot
  BY <1>5, BootKeeps
<1>6. CASE UNCHANGED vars
  <2>1. UNCHANGED <<mode, core, registry, request, streams, life>>
    BY <1>6 DEF vars
  <2>2. Typed'
    BY <2>1 DEF IInv, Typed, core, registry, life
  <2>. QED BY <2>1, <2>2, OthersKeep DEF registry, life
<1>. QED BY <1>1, <1>2, <1>3, <1>4, <1>5, <1>6 DEF Next

-----------------------------------------------------------------------------
(* The inbox and its index agree, the correlator remembers what it attached *)
(* in this process, and evidence is where it belongs.                       *)
THEOREM ReceiverInvariant == Spec => []IInv
<1>. QED BY InitIInv, NextIInv, PTL DEF Spec

(* TypeOK: the dedup index is exactly the accepted entries that the bounded *)
(* inbox retains, one for each id.                                          *)
THEOREM IndexIsBounded == Spec => []TypeOK
<1>1. ASSUME IInv PROVE TypeOK
  <2>1. \A i \in DOMAIN inbox : inbox[i].status \in {"accepted", "duplicate", "rejected"}
    <3>1. \A i \in DOMAIN inbox : inbox[i] \in Entries
      BY <1>1 DEF IInv, Boxed
    <3>. QED BY <3>1 DEF Entries
  <2>. QED BY <1>1, <2>1 DEF IInv, Boxed, Typed, TypeOK
<1>. QED BY <1>1, ReceiverInvariant, PTL

(* AttachedExactlyOnce: what matched when it was accepted is attached, and  *)
(* by one process once, whatever the inbox has forgotten.                   *)
THEOREM NothingAttachedTwice == Spec => []AttachedExactlyOnce
<1>1. ASSUME IInv PROVE AttachedExactlyOnce
  BY <1>1 DEF IInv, Remembered, AttachedExactlyOnce
<1>. QED BY <1>1, ReceiverInvariant, PTL

(* EvidenceBelongs: evidence is genuine where a secret is configured, and   *)
(* about the run that has it.                                               *)
THEOREM EvidenceWhereItBelongs == Spec => []EvidenceBelongs
<1>1. IInv => EvidenceBelongs
  BY DEF IInv
<1>. QED BY <1>1, ReceiverInvariant, PTL

=============================================================================
