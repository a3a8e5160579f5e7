------------------------------ MODULE RateFloor ------------------------------
(***************************************************************************)
(* RateFloorScheduler (server/src/engine/poller.ts) and the poll loops     *)
(* that share it in one batch.  waitTurn chains a promise per caller; the  *)
(* body of the one in front reads the clock, sleeps until nextAllowedAt    *)
(* and moves nextAllowedAt on.  Times are differences to the present, so   *)
(* that the clock need not be bounded: `gate` is nextAllowedAt minus now,  *)
(* `delay` what is left of the sleep of the one in front.  The wall clock  *)
(* may be set back or forward at any time, which timers do not notice; a   *)
(* timer may be late.                                                      *)
(***************************************************************************)
EXTENDS Naturals, Sequences

CONSTANTS
  Pollers,
  Gap,       \* minGapMs
  MaxJump    \* bound: how far nextAllowedAt can be ahead after a clock jump

ASSUME RateAssumption == Gap \in Nat /\ MaxJump \in Nat

VARIABLES
  queue,   \* pollers whose turn has not come, in the order of their calls
  delay,   \* the rest of the sleep of the head of the queue
  gate,    \* nextAllowedAt - now, or 0 when it is past
  doing,   \* of each poller: "sleeping", "waiting", "fetching" or "over"
  since,   \* history: time since the last turn, up to Gap
  ahead    \* history: how far the clock was set forward since then, up to Gap

vars == <<queue, delay, gate, doing, since, ahead>>

Init ==
  /\ queue = <<>>
  /\ delay = 0
  /\ gate = 0
  /\ doing = [p \in Pollers |-> "sleeping"]
  /\ since = Gap
  /\ ahead = 0

(* nextAllowedAt = now + minGapMs.                                          *)
NextGate == Gap

(* A turn is taken: the fetch follows without another await.                *)
Turn(p) ==
  /\ doing' = [doing EXCEPT ![p] = "fetching"]
  /\ gate' = NextGate
  /\ since' = 0
  /\ ahead' = 0

WaitTurnUnchained(p) ==    \* fault: a call that finds the gate open overtakes
  /\ doing[p] = "sleeping"
  /\ \/ /\ gate = 0
        /\ Turn(p)
        /\ UNCHANGED <<queue, delay>>
     \/ /\ gate > 0
        /\ doing' = [doing EXCEPT ![p] = "waiting"]
        /\ queue' = Append(queue, p)
        /\ delay' = IF queue = <<>> THEN gate ELSE delay
        /\ UNCHANGED <<gate, since, ahead>>

(* The sleep of a poll cycle ends and waitTurn is called.  With nobody in   *)
(* front the body runs at once, and if nothing is to be slept, to its end.  *)
WaitTurn(p) ==
  /\ doing[p] = "sleeping"
  /\ \/ /\ queue = <<>> /\ gate = 0
        /\ Turn(p)
        /\ UNCHANGED <<queue, delay>>
     \/ /\ queue # <<>> \/ gate > 0
        /\ doing' = [doing EXCEPT ![p] = "waiting"]
        /\ queue' = Append(queue, p)
        /\ delay' = IF queue = <<>> THEN gate ELSE delay
        /\ UNCHANGED <<gate, since, ahead>>

RestStuck == queue    \* fault: the chain is not moved on

Rest == Tail(queue)

(* The sleep of the head ends; the next one reads the clock right after.    *)
Wake ==
  /\ queue # <<>>
  /\ delay = 0
  /\ Turn(Head(queue))
  /\ queue' = Rest
  /\ delay' = IF Rest = <<>> THEN 0 ELSE NextGate

(* The fetch is answered or fails: another cycle, or the poll is over.      *)
Fetched(p) ==
  /\ doing[p] = "fetching"
  /\ \E d \in {"sleeping", "over"} : doing' = [doing EXCEPT ![p] = d]
  /\ UNCHANGED <<queue, delay, gate, since, ahead>>

Less(n) == IF n = 0 THEN 0 ELSE n - 1

Tick ==
  /\ gate > 0 \/ delay > 0 \/ since < Gap
  /\ gate' = Less(gate)
  /\ delay' = Less(delay)
  /\ since' = IF since < Gap THEN since + 1 ELSE since
  /\ UNCHANGED <<queue, doing, ahead>>

(* The wall clock is set back: nextAllowedAt is further away than it was.   *)
ClockSetBack ==
  /\ gate' \in (gate + 1)..MaxJump
  /\ UNCHANGED <<queue, delay, doing, since, ahead>>

AtMostGap(n) == IF n > Gap THEN Gap ELSE n

(* It is set forward: nextAllowedAt is nearer than it was, or past.  A sleep *)
(* that has begun goes on.  What counts is what is taken from the gate.     *)
ClockSetForward ==
  /\ gate' \in {g \in 0..MaxJump : g < gate}
  /\ ahead' = AtMostGap(ahead + (gate - gate'))
  /\ UNCHANGED <<queue, delay, doing, since>>

Next ==
  \/ \E p \in Pollers : WaitTurn(p) \/ Fetched(p)
  \/ Wake
  \/ Tick
  \/ ClockSetBack
  \/ ClockSetForward

Spec == Init /\ [][Next]_vars

(* Time passes and timers fire.  Nothing is assumed of polls or fetches.    *)
FairSpec == Spec /\ WF_vars(Tick) /\ WF_vars(Wake)

-----------------------------------------------------------------------------
TypeOK ==
  /\ queue \in Seq(Pollers)
  /\ delay \in Nat
  /\ gate \in Nat
  /\ doing \in [Pollers -> {"sleeping", "waiting", "fetching", "over"}]
  /\ since \in 0..Gap
  /\ ahead \in 0..Gap

(* Who waits is in the queue, once: no turn is lost and none is given twice *)
(* (the promise chain of waitTurn).                                         *)
QueueMatches ==
  /\ \A p \in Pollers : doing[p] = "waiting" <=> \E i \in 1..Len(queue) : queue[i] = p
  /\ \A i, j \in 1..Len(queue) : queue[i] = queue[j] => i = j

Floor == INSTANCE Turnstile WITH
  waiting <- {p \in Pollers : doing[p] = "waiting"}

(* Turns are Gap apart in real time, also across late timers and a clock    *)
(* that is set back; a clock that is set forward between two turns brings   *)
(* them nearer by no more than that, and the next gap is whole again; and   *)
(* whoever asks gets a turn (poller.ts:42-50).                              *)
KeepsFloor == Floor!Spec
KeepsFloorSafely == Floor!Safe
=============================================================================
