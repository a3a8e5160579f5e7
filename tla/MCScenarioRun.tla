--------------------------- MODULE MCScenarioRun ----------------------------
(* The schedule an outcome stands for, and others the API was observed to    *)
(* follow: a charge that stalls or fails, a blocked charge that fails        *)
(* instead of being cancelled, and reversals that never show.                *)
EXTENDS ScenarioRun
MCObserved ==
  [paid |-> {"i", "b"}, standard |-> {"i", "d"}, reversed_insufficient_funds |-> {"c_live"},
   reversed_closed_bank_account |-> {"g_live"}, cancelled_for_fraud_risk |-> {"b"}]
MCSchedules == CoreSchedules @@ AddedSchedules
MCPlans ==
  [o \in DOMAIN ByOutcome |->
     {ByOutcome[o]} \cup {MCSchedules[x] : x \in IF o \in DOMAIN MCObserved THEN MCObserved[o] ELSE {}}]

(* The schedules meet what the theorems ask of them. *)
ASSUME SchedulesFit == OrderlyPlans /\ SettledPlans
=============================================================================
