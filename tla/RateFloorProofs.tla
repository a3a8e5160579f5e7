--------------------------- MODULE RateFloorProofs ---------------------------
(***************************************************************************)
(* RateFloor, for any number of pollers, any gap and any jumps of the      *)
(* clock, back or forward: its types, the promise chain as a queue, and    *)
(* that it implements Turnstile (the safety part; liveness is left to      *)
(* TLC).  That turns are Gap apart but for what the clock was set forward  *)
(* is not inductive: `Ahead` relates what is still to be waited to the     *)
(* time that has passed since the last turn and to the jumps in it.        *)
(***************************************************************************)
EXTENDS RateFloor, TLAPS

Ahead ==
  /\ gate + since + ahead >= Gap
  /\ queue # <<>> => delay + since + ahead >= Gap

IInv == TypeOK /\ QueueMatches /\ Ahead

LEMMA LaterStill ==
  ASSUME NEW g \in Nat, NEW h \in Nat, NEW s \in Nat, NEW a \in Nat,
         g + s + a >= Gap, h >= g
  PROVE  h + s + a >= Gap
  BY RateAssumption

(* The sum of the jumps, cut off where it no longer matters.                *)
LEMMA Capped ==
  ASSUME NEW a \in 0..Gap, NEW g \in Nat, NEW h \in Nat, h < g
  PROVE  LET b == AtMostGap(a + (g - h))
         IN /\ b \in 0..Gap /\ b >= a
            /\ b = a + (g - h) \/ b = Gap
<1>1. a + (g - h) \in Nat /\ a + (g - h) >= a /\ Gap \in Nat
  BY RateAssumption
<1> DEFINE x == a + (g - h)
<1> HIDE DEF x
<1>2. AtMostGap(x) = IF x > Gap THEN Gap ELSE x
  BY DEF AtMostGap
<1> QED BY <1>1, <1>2 DEF x

LEMMA InitIInv == Init => IInv
  BY RateAssumption DEF Init, IInv, TypeOK, QueueMatches, Ahead

(* The chain: a caller goes to its end, the one in front leaves it.         *)
LEMMA Joined ==
  ASSUME TypeOK, QueueMatches, NEW p \in Pollers, doing[p] = "sleeping",
         doing' = [doing EXCEPT ![p] = "waiting"], queue' = Append(queue, p)
  PROVE  queue' \in Seq(Pollers) /\ QueueMatches'
<1>1. /\ queue' \in Seq(Pollers)
      /\ Len(queue') = Len(queue) + 1
      /\ \A i \in 1..Len(queue) : queue'[i] = queue[i]
      /\ queue'[Len(queue) + 1] = p
  BY DEF TypeOK
<1>2. Len(queue) \in Nat
  BY DEF TypeOK
<1>3. \A i \in 1..Len(queue) : queue[i] # p
  BY DEF TypeOK, QueueMatches
<1>4. ASSUME NEW q \in Pollers
      PROVE  doing'[q] = "waiting" <=> \E i \in 1..Len(queue') : queue'[i] = q
  <2>1. CASE q = p
    BY <2>1, <1>1, <1>2 DEF TypeOK
  <2>2. CASE q # p
    <3>1. doing'[q] = doing[q]
      BY <2>2 DEF TypeOK
    <3>2. (\E i \in 1..Len(queue') : queue'[i] = q) <=> (\E i \in 1..Len(queue) : queue[i] = q)
      BY <2>2, <1>1, <1>2
    <3> QED BY <3>1, <3>2 DEF QueueMatches
  <2> QED BY <2>1, <2>2
<1>5. ASSUME NEW i \in 1..Len(queue'), NEW j \in 1..Len(queue'), queue'[i] = queue'[j]
      PROVE  i = j
  BY <1>1, <1>2, <1>3, <1>5 DEF QueueMatches
<1> QED BY <1>1, <1>4, <1>5 DEF QueueMatches

LEMMA Left ==
  ASSUME TypeOK, QueueMatches, queue # <<>>,
         doing' = [doing EXCEPT ![Head(queue)] = "fetching"], queue' = Tail(queue)
  PROVE  /\ queue' \in Seq(Pollers) /\ QueueMatches'
         /\ Head(queue) \in Pollers /\ doing[Head(queue)] = "waiting"
<1> DEFINE h == Head(queue)
<1>1. /\ Len(queue) \in Nat \ {0} /\ h = queue[1] /\ h \in Pollers
      /\ queue' \in Seq(Pollers)
      /\ Len(queue') = Len(queue) - 1
      /\ \A i \in 1..Len(queue') : queue'[i] = queue[i + 1]
  BY DEF TypeOK
<1>2. doing[h] = "waiting"
  BY <1>1 DEF QueueMatches
<1>3. ASSUME NEW q \in Pollers
      PROVE  doing'[q] = "waiting" <=> \E i \in 1..Len(queue') : queue'[i] = q
  <2>1. CASE q = h
    <3>1. doing'[q] = "fetching"
      BY <2>1, <1>1 DEF TypeOK
    <3>2. ASSUME NEW i \in 1..Len(queue'), queue'[i] = q PROVE FALSE
      <4>1. i + 1 \in 1..Len(queue) /\ 1 \in 1..Len(queue) /\ queue[i + 1] = queue[1]
        BY <3>2, <2>1, <1>1
      <4> QED BY <4>1 DEF QueueMatches
    <3> QED BY <3>1, <3>2
  <2>2. CASE q # h
    <3>1. doing'[q] = doing[q]
      BY <2>2 DEF TypeOK
    <3>2. ASSUME NEW i \in 1..Len(queue), queue[i] = q
          PROVE  \E k \in 1..Len(queue') : queue'[k] = q
      <4>1. i # 1
        BY <3>2, <2>2, <1>1
      <4>2. i - 1 \in 1..Len(queue') /\ queue'[i - 1] = q
        BY <4>1, <3>2, <1>1
      <4> QED BY <4>2
    <3>3. ASSUME NEW i \in 1..Len(queue'), queue'[i] = q
          PROVE  \E k \in 1..Len(queue) : queue[k] = q
      BY <3>3, <1>1
    <3> QED BY <3>1, <3>2, <3>3 DEF QueueMatches
  <2> QED BY <2>1, <2>2
<1>4. ASSUME NEW i \in 1..Len(queue'), NEW j \in 1..Len(queue'), queue'[i] = queue'[j]
      PROVE  i = j
  <2>1. i + 1 \in 1..Len(queue) /\ j + 1 \in 1..Len(queue) /\ queue[i + 1] = queue[j + 1]
    BY <1>4, <1>1
  <2> QED BY <2>1 DEF QueueMatches
<1> QED BY <1>1, <1>2, <1>3, <1>4 DEF QueueMatches

(* A poller that is not waiting moves between the other states.             *)
LEMMA Apart ==
  ASSUME TypeOK, QueueMatches, NEW p \in Pollers, doing[p] # "waiting",
         NEW d \in {"sleeping", "fetching", "over"},
         doing' = [doing EXCEPT ![p] = d], queue' = queue
  PROVE  QueueMatches'
  BY DEF TypeOK, QueueMatches

LEMMA NextIInv == IInv /\ [Next]_vars => IInv'
<1> SUFFICES ASSUME IInv, [Next]_vars PROVE IInv'
  OBVIOUS
<1> USE RateAssumption DEF IInv
<1>1. ASSUME NEW p \in Pollers, WaitTurn(p) PROVE IInv'
  <2>1. CASE queue = <<>> /\ gate = 0 /\ Turn(p) /\ UNCHANGED <<queue, delay>>
    <3>1. QueueMatches'
      BY <1>1, <2>1, Apart DEF WaitTurn, Turn
    <3>2. TypeOK'
      BY <1>1, <2>1 DEF WaitTurn, Turn, NextGate, TypeOK
    <3>3. Ahead'
      BY <2>1 DEF Turn, NextGate, Ahead, TypeOK
    <3> QED BY <3>1, <3>2, <3>3
  <2>2. CASE /\ queue # <<>> \/ gate > 0
             /\ doing' = [doing EXCEPT ![p] = "waiting"]
             /\ queue' = Append(queue, p)
             /\ delay' = IF queue = <<>> THEN gate ELSE delay
             /\ UNCHANGED <<gate, since, ahead>>
    <3>1. queue' \in Seq(Pollers) /\ QueueMatches'
      BY <1>1, <2>2, Joined DEF WaitTurn
    <3>2. TypeOK'
      BY <3>1, <2>2 DEF TypeOK
    <3>3. Ahead'
      BY <2>2 DEF Ahead, TypeOK
    <3> QED BY <3>1, <3>2, <3>3
  <2> QED BY <1>1, <2>1, <2>2 DEF WaitTurn
<1>2. ASSUME NEW p \in Pollers, Fetched(p) PROVE IInv'
  <2>1. PICK d \in {"sleeping", "over"} : doing' = [doing EXCEPT ![p] = d]
    BY <1>2 DEF Fetched
  <2>2. QueueMatches'
    BY <1>2, <2>1, Apart DEF Fetched
  <2>3. TypeOK' /\ Ahead'
    BY <1>2, <2>1 DEF Fetched, TypeOK, Ahead
  <2> QED BY <2>2, <2>3
<1>3. CASE Wake
  <2>1. queue' \in Seq(Pollers) /\ QueueMatches'
    BY <1>3, Left DEF Wake, Turn, Rest
  <2>2. /\ delay' \in Nat /\ gate' = Gap /\ since' = 0 /\ ahead' = 0
        /\ queue' # <<>> => delay' = Gap
    BY <1>3 DEF Wake, Turn, NextGate, Rest
  <2>3. doing' \in [Pollers -> {"sleeping", "waiting", "fetching", "over"}]
    BY <1>3 DEF Wake, Turn, TypeOK
  <2>4. TypeOK'
    BY <2>1, <2>2, <2>3 DEF TypeOK
  <2>5. Ahead'
    <3>1. gate' + since' + ahead' >= Gap
      BY <2>2
    <3>2. queue' # <<>> => delay' + since' + ahead' >= Gap
      BY <2>2
    <3> QED BY <3>1, <3>2 DEF Ahead
  <2> QED BY <2>1, <2>4, <2>5
<1>4. CASE Tick
  <2>1. TypeOK' /\ Ahead'
    BY <1>4 DEF Tick, Less, TypeOK, Ahead
  <2>2. QueueMatches'
    BY <1>4 DEF Tick, QueueMatches
  <2> QED BY <2>1, <2>2
<1>5. CASE ClockSetBack
  <2>1. gate' \in Nat /\ gate' >= gate /\ UNCHANGED <<queue, delay, doing, since, ahead>>
    BY <1>5 DEF ClockSetBack, TypeOK
  <2>2. TypeOK'
    BY <2>1 DEF TypeOK
  <2>3. Ahead'
    <3>1. /\ gate \in Nat /\ since \in Nat /\ ahead \in Nat
          /\ since' = since /\ ahead' = ahead
      BY <2>1 DEF TypeOK
    <3>2. /\ gate + since + ahead >= Gap
          /\ queue' # <<>> => delay' + since' + ahead' >= Gap
      BY <2>1 DEF Ahead
    <3>3. gate' + since' + ahead' >= Gap
      <4>1. gate' \in Nat /\ gate' >= gate
        BY <2>1
      <4>2. gate' + since + ahead >= Gap
        BY <3>1, <3>2, <4>1, LaterStill
      <4> QED BY <3>1, <4>2
    <3> QED BY <3>2, <3>3 DEF Ahead
  <2>4. QueueMatches'
    BY <2>1 DEF QueueMatches
  <2> QED BY <2>2, <2>3, <2>4
<1>6. CASE ClockSetForward
  <2>1. /\ gate' \in Nat /\ gate' < gate
        /\ ahead' = AtMostGap(ahead + (gate - gate'))
        /\ UNCHANGED <<queue, delay, doing, since>>
    BY <1>6 DEF ClockSetForward
  <2>2. /\ gate \in Nat /\ since \in Nat /\ ahead \in 0..Gap /\ delay \in Nat
    BY DEF TypeOK
  <2>3. /\ ahead' \in 0..Gap /\ ahead' >= ahead
        /\ ahead' = ahead + (gate - gate') \/ ahead' = Gap
    BY <2>1, <2>2, Capped
  <2>4. TypeOK'
    BY <2>1, <2>3 DEF TypeOK
  <2>5. Ahead'
    <3>1. gate' + since' + ahead' >= Gap
      <4>1. gate + since + ahead >= Gap
        BY DEF Ahead
      <4> QED BY <2>1, <2>2, <2>3, <4>1
    <3>2. queue' # <<>> => delay' + since' + ahead' >= Gap
      <4>1. queue # <<>> => delay + since + ahead >= Gap
        BY DEF Ahead
      <4> QED BY <2>1, <2>2, <2>3, <4>1
    <3> QED BY <3>1, <3>2 DEF Ahead
  <2>6. QueueMatches'
    BY <2>1 DEF QueueMatches
  <2> QED BY <2>4, <2>5, <2>6
<1>7. CASE UNCHANGED vars
  BY <1>7 DEF vars, TypeOK, QueueMatches, Ahead
<1> QED BY <1>1, <1>2, <1>3, <1>4, <1>5, <1>6, <1>7 DEF Next

(* The invariant the others follow from.                                    *)
THEOREM FloorInvariant == Spec => []IInv
<1> QED BY InitIInv, NextIInv, PTL DEF Spec

(* Every poller that waits is in the chain, once (poller.ts:42-50).         *)
THEOREM ChainIsQueue == Spec => [](TypeOK /\ QueueMatches)
<1>1. IInv => TypeOK /\ QueueMatches
  BY DEF IInv
<1> QED BY <1>1, FloorInvariant, PTL

-----------------------------------------------------------------------------
(* Every step is a step of Turnstile or changes nothing of it.              *)

LEMMA StepMaps == IInv /\ [Next]_vars => [Floor!Next]_Floor!vars
<1> SUFFICES ASSUME IInv, [Next]_vars PROVE Floor!Next \/ UNCHANGED Floor!vars
  BY DEF Floor!vars
<1> DEFINE W == {p \in Pollers : doing[p] = "waiting"}
<1> USE RateAssumption DEF IInv
<1>1. ASSUME NEW p \in Pollers, WaitTurn(p) PROVE Floor!Next
  <2>1. CASE queue = <<>> /\ gate = 0 /\ Turn(p) /\ UNCHANGED <<queue, delay>>
    <3>1. W = {} /\ W' = {}
      BY <1>1, <2>1 DEF WaitTurn, Turn, TypeOK, QueueMatches
    <3>2. Floor!Turn
      BY <2>1 DEF Turn, Ahead, TypeOK, Floor!Turn
    <3> QED BY <3>1, <3>2 DEF Floor!Next, Floor!Through
  <2>2. CASE doing' = [doing EXCEPT ![p] = "waiting"] /\ UNCHANGED <<gate, since, ahead>>
    <3>1. W' = W \cup {p}
      BY <2>2 DEF TypeOK
    <3> QED BY <3>1, <2>2 DEF Floor!Next, Floor!Ask
  <2> QED BY <1>1, <2>1, <2>2 DEF WaitTurn
<1>2. ASSUME NEW p \in Pollers, Fetched(p) PROVE UNCHANGED Floor!vars
  <2>1. W' = W
    BY <1>2 DEF Fetched, TypeOK
  <2> QED BY <2>1, <1>2 DEF Fetched, Floor!vars
<1>3. ASSUME Wake PROVE Floor!Next
  <2> DEFINE h == Head(queue)
  <2>1. h \in W
    BY <1>3, Left DEF Wake, Turn, Rest
  <2>2. W' = W \ {h}
    BY <1>3 DEF Wake, Turn, TypeOK
  <2>3. Floor!Turn
    BY <1>3 DEF Wake, Turn, Ahead, TypeOK, Floor!Turn
  <2> QED BY <2>1, <2>2, <2>3 DEF Floor!Next, Floor!Serve
<1>4. ASSUME Tick PROVE Floor!Next \/ UNCHANGED Floor!vars
  <2>1. W' = W
    BY <1>4 DEF Tick
  <2>2. /\ ahead' = ahead
        /\ \/ since < Gap /\ since' = since + 1
           \/ since' = since
    BY <1>4 DEF Tick
  <2> QED BY <2>1, <2>2 DEF Floor!Next, Floor!Pass, Floor!vars
<1>5. ASSUME ClockSetBack \/ UNCHANGED vars PROVE UNCHANGED Floor!vars
  BY <1>5 DEF ClockSetBack, vars, Floor!vars
<1>6. ASSUME ClockSetForward PROVE Floor!Next \/ UNCHANGED Floor!vars
  <2>1. W' = W /\ since' = since
    BY <1>6 DEF ClockSetForward
  <2>2. ahead' \in 0..Gap /\ ahead' >= ahead
    <3>1. /\ gate' \in Nat /\ gate' < gate
          /\ ahead' = AtMostGap(ahead + (gate - gate'))
      BY <1>6 DEF ClockSetForward
    <3>2. gate \in Nat /\ ahead \in 0..Gap
      BY DEF TypeOK
    <3> QED BY <3>1, <3>2, Capped
  <2>3. ahead' = ahead \/ ahead' \in (ahead + 1)..Gap
    BY <2>2 DEF TypeOK
  <2> QED BY <2>1, <2>3 DEF Floor!Next, Floor!Forward, Floor!vars
<1> QED BY <1>1, <1>2, <1>3, <1>4, <1>5, <1>6 DEF Next

(* Turns are only given to pollers that asked, and they are at least Gap    *)
(* apart, less what the clock was set forward between the two (docs/spec.md: *)
(* the rate floor; poller.ts:33-51).                                        *)
THEOREM FloorKept == Spec => KeepsFloorSafely
<1>1. Init => Floor!Init
  BY DEF Init, Floor!Init
<1> QED BY <1>1, StepMaps, FloorInvariant, PTL DEF Spec, KeepsFloorSafely, Floor!Safe
=============================================================================
