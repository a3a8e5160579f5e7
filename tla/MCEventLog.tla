----------------------------- MODULE MCEventLog -----------------------------
(* Two runs, one webhook that belongs to run 1, a small buffer.    *)
EXTENDS EventLog
CONSTANT w1
MCTarget == [w \in Webhooks |-> 1]
MCMaxSteps == [r \in Runs |-> r - 1]
=============================================================================
