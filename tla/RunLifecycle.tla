---------------------------- MODULE RunLifecycle ----------------------------
(***************************************************************************)
(* What the server promises about a run's status, whatever happens to its  *)
(* process: a run runs, ends with one verdict or is abandoned when the     *)
(* process dies; a later process shows a run whose recording is undamaged  *)
(* exactly as it ended ("partial" when abandoned), and a damaged one never *)
(* with a verdict it did not reach and never as running again.  This is    *)
(* the status contract of RunSnapshot (server/src/engine/registry.ts) and  *)
(* of boot-time rehydration (server/src/engine/rehydrate.ts); EventLog     *)
(* implements it.                                                          *)
(***************************************************************************)
CONSTANT Runs

VARIABLES
  online,   \* the server answers requests
  fate,     \* what became of each run
  shown,    \* the status a snapshot reports, "offline" while there is none
  damaged   \* runs whose recording misses a line

vars == <<online, fate, shown, damaged>>

Verdict == {"passed", "failed"}
Shown == {"offline", "absent", "running", "partial"} \cup Verdict

(* How a run of a given fate is shown by a process that recovered it. *)
Faithful(f) ==
  CASE f = "idle" -> "absent"
    [] f = "abandoned" -> "partial"
    [] OTHER -> f

Damage == damaged \subseteq damaged' /\ damaged' \subseteq Runs

Begin(r) ==
  /\ online
  /\ fate[r] = "idle"
  /\ fate' = [fate EXCEPT ![r] = "running"]
  /\ shown' = [shown EXCEPT ![r] = "running"]
  /\ Damage
  /\ UNCHANGED online

Finish(r, v) ==
  /\ online
  /\ fate[r] = "running"
  /\ fate' = [fate EXCEPT ![r] = v]
  /\ shown' = [shown EXCEPT ![r] = v]
  /\ Damage
  /\ UNCHANGED online

(* A line of a recording is lost. *)
LoseLine ==
  /\ Damage
  /\ UNCHANGED <<online, fate, shown>>

Stop ==
  /\ online
  /\ online' = FALSE
  /\ fate' = [r \in Runs |-> IF fate[r] = "running" THEN "abandoned" ELSE fate[r]]
  /\ shown' = [r \in Runs |-> "offline"]
  /\ Damage

Restart ==
  /\ ~online
  /\ online' = TRUE
  /\ \A r \in Runs :
       \/ shown'[r] = Faithful(fate[r])
       \/ r \in damaged /\ shown'[r] \in {"absent", "partial"}
  /\ shown' \in [Runs -> Shown]
  /\ UNCHANGED <<fate, damaged>>

Init ==
  /\ online = FALSE
  /\ fate = [r \in Runs |-> "idle"]
  /\ shown = [r \in Runs |-> "offline"]
  /\ damaged = {}

Next ==
  \/ \E r \in Runs : Begin(r)
  \/ \E r \in Runs, v \in Verdict : Finish(r, v)
  \/ LoseLine
  \/ Stop
  \/ Restart

Spec == Init /\ [][Next]_vars

=============================================================================
