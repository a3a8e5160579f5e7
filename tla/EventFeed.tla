----------------------------- MODULE EventFeed ------------------------------
(***************************************************************************)
(* What a client can rely on from the server's event feed (GET /api/runs,  *)
(* GET /api/events, GET /api/events/stream): one process lifetime, named   *)
(* by its epoch, numbers its events 1, 2, 3, ... without a hole, starts at *)
(* some number of recovered events, and can replay only those above        *)
(* `floor'.  EventLog implements it; EventClient is checked against it.    *)
(***************************************************************************)
EXTENDS Integers

CONSTANT MaxEvents  \* capacity of the delivery buffer

ASSUME FeedAssumption == MaxEvents \in Nat

VARIABLES
  online,  \* the process answers requests
  epoch,   \* its identity; 0 before the first boot
  len,     \* number of events it has published or recovered
  floor    \* highest number that has left the delivery buffer

feedVars == <<online, epoch, len, floor>>

FloorOf(n) == IF n > MaxEvents THEN n - MaxEvents ELSE 0

FeedTypeOK ==
  /\ online \in BOOLEAN
  /\ epoch \in Nat /\ len \in Nat /\ floor \in Nat

FeedInit ==
  /\ online = FALSE /\ epoch = 0 /\ len = 0 /\ floor = 0

Publish ==
  /\ online
  /\ len' = len + 1
  /\ floor' = FloorOf(len')
  /\ UNCHANGED <<online, epoch>>

(* The process dies; what it had in memory is gone. *)
Kill ==
  /\ online
  /\ online' = FALSE
  /\ len' = 0 /\ floor' = 0
  /\ UNCHANGED epoch

(* A new process recovers some events from the recordings and renumbers them. *)
BootFeed ==
  /\ ~online
  /\ online' = TRUE
  /\ epoch' = epoch + 1
  /\ len' \in Nat
  /\ floor' = FloorOf(len')

FeedNext == Publish \/ Kill \/ BootFeed

FeedSpec == FeedInit /\ [][FeedNext]_feedVars

=============================================================================
