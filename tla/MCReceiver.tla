----------------------------- MODULE MCReceiver ------------------------------
(* Two runs; resource 1 belongs to the first, 2 to the second, 3 to nobody  *)
(* here.  Delivery 1 names run 1 and its resource, 2 the resource of run 2  *)
(* only, 3 the foreign one.                                                 *)
EXTENDS Receiver
MCOwner == <<1, 2, 0>>
MCPayload ==
  <<[ext |-> 1, res |-> 1], [ext |-> 0, res |-> 2], [ext |-> 0, res |-> 3]>>
=============================================================================
