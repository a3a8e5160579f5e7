------------------------------ MODULE Sandbox -------------------------------
(***************************************************************************)
(* A charge of the payment sandbox, as the scripted client implements it   *)
(* (server/src/straddle/mock.ts): it follows a schedule, can be held,      *)
(* released (the schedule starts over) and cancelled, and reports its      *)
(* status with the history of entries that led to it.  A payout follows a  *)
(* schedule in the same way and can be neither held nor cancelled.         *)
(***************************************************************************)
EXTENDS Integers, SequencesExt

Settled == {"paid", "failed", "reversed", "cancelled"}
Statuses == {"created", "scheduled", "pending", "on_hold"} \cup Settled

(* An entry of a schedule or of a history: a status, the return code that
   came with it, and when (from the schedule's base, or absolute).         *)
Entry(status, code, at) == [status |-> status, code |-> code, at |-> at]

(* The schedules of the scripted client, by the minute an entry is due in.   *)
CoreSchedules ==
  LET created == <<Entry("created", "none", 0)>>
      pending == created \o <<Entry("scheduled", "none", 1), Entry("pending", "none", 1)>>
  IN [a |-> Append(pending, Entry("paid", "none", 2)),
      b |-> Append(pending, Entry("failed", "R01", 2)),
      c |-> created \o <<Entry("pending", "none", 1), Entry("paid", "none", 2),
                         Entry("reversed", "R01", 6)>>,
      c_live |-> pending \o <<Entry("pending", "none", 2), Entry("pending", "none", 2),
                              Entry("failed", "R01", 6)>>,
      d |-> Append(created, Entry("cancelled", "none", 1))]

(* Those of a closed account, with another return code, and the one that     *)
(* stalls until somebody cancels.                                            *)
AddedSchedules ==
  LET closed(plan) == [i \in DOMAIN plan |->
                         IF plan[i].code = "R01" THEN [plan[i] EXCEPT !.code = "R02"] ELSE plan[i]]
  IN [f |-> closed(CoreSchedules.b), g |-> closed(CoreSchedules.c),
      g_live |-> closed(CoreSchedules.c_live), i |-> SubSeq(CoreSchedules.a, 1, 2)]

(* The schedule a requested outcome stands for.                              *)
ByOutcome ==
  [standard |-> CoreSchedules.a, paid |-> CoreSchedules.a,
   failed_insufficient_funds |-> CoreSchedules.b,
   failed_closed_bank_account |-> AddedSchedules.f,
   reversed_insufficient_funds |-> CoreSchedules.c,
   reversed_closed_bank_account |-> AddedSchedules.g,
   cancelled_for_fraud_risk |-> CoreSchedules.d,
   cancelled_for_balance_check |-> CoreSchedules.d]

NoCharge == [schedule |-> <<>>, mode |-> "none", base |-> 0, committed |-> <<>>,
             action |-> Entry("created", "none", 0)]

NewCharge(schedule, t) ==
  [NoCharge EXCEPT !.schedule = schedule, !.mode = "running", !.base = t]

(* Entries of the active segment that are due; as a schedule is ordered by   *)
(* time, they are its first ones.                                            *)
Projected(c, t) ==
  [i \in {k \in DOMAIN c.schedule : c.schedule[k].at <= t - c.base} |->
     [c.schedule[i] EXCEPT !.at = @ + c.base]]

History(c, t) ==
  c.committed \o (IF c.mode = "running" THEN Projected(c, t) ELSE <<c.action>>)

StatusAt(c, t) == Last(History(c, t)).status

(* An action freezes the history up to now. *)
Act(c, t, mode, status) ==
  [c EXCEPT !.committed = History(c, t), !.mode = mode,
            !.action = Entry(status, "none", t)]

Hold(c, t) == IF c.mode = "held" THEN c ELSE Act(c, t, "held", "on_hold")

Release(c, t) ==
  IF c.mode # "held" THEN c
  ELSE [c EXCEPT !.committed = History(c, t), !.mode = "running", !.base = t]

Cancel(c, t) == Act(c, t, "cancelled", "cancelled")

(* No action moves a settled charge. *)
Refuses(c, t) == StatusAt(c, t) \in Settled

=============================================================================
