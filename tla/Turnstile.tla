------------------------------ MODULE Turnstile ------------------------------
(***************************************************************************)
(* What the rate floor of a batch promises its pollers (docs/spec.md,      *)
(* "Process-wide rate floor"; RateFloorScheduler in                        *)
(* server/src/engine/poller.ts): two turns are at least Gap apart, less    *)
(* what the wall clock was set forward between them, nobody is served who  *)
(* did not ask, and everybody who asks is served in the end.               *)
(***************************************************************************)
EXTENDS Naturals

CONSTANTS
  Pollers,
  Gap        \* least time between two turns

VARIABLES
  waiting,   \* pollers that have asked for a turn
  since,     \* time since the last turn, as far as it matters
  ahead      \* how far the clock was set forward since the last turn

vars == <<waiting, since, ahead>>

Init == waiting = {} /\ since = Gap /\ ahead = 0

Ask(p) == waiting' = waiting \cup {p} /\ UNCHANGED <<since, ahead>>

Pass == since < Gap /\ since' = since + 1 /\ UNCHANGED <<waiting, ahead>>

Forward == ahead' \in (ahead + 1)..Gap /\ UNCHANGED <<waiting, since>>

(* The gap is over as far as the clock tells; the next one starts whole.    *)
Turn == since + ahead >= Gap /\ since' = 0 /\ ahead' = 0

Serve(p) == p \in waiting /\ waiting' = waiting \ {p} /\ Turn

(* A poller that finds nobody waiting and the gap past is served at once.   *)
Through == waiting = {} /\ UNCHANGED waiting /\ Turn

Next == (\E p \in Pollers : Ask(p) \/ Serve(p)) \/ Pass \/ Forward \/ Through

Safe == Init /\ [][Next]_vars

Fair == \A p \in Pollers : SF_vars(Serve(p))

Spec == Safe /\ Fair
=============================================================================
