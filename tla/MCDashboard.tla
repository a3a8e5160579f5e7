----------------------------- MODULE MCDashboard -----------------------------
(* Three logs.  A run of C is paid and reversed, with a webhook in between, *)
(* and C is started again; a run of E has a poll and the creation of its    *)
(* paykey retried; a run of B is put on hold twice beside one of E that is  *)
(* refused and fails.                                                       *)
EXTENDS Dashboard

Started(n, run, scen, reversal, refusal) ==
  [seq |-> n, run |-> run, type |-> "started", scen |-> scen,
   reversal |-> reversal, refusal |-> refusal]
Exchange(n, run, endpoint, attempt, status) ==
  [seq |-> n, run |-> run, type |-> "exchange", endpoint |-> endpoint,
   attempt |-> attempt, status |-> status]
Retry(n, run, endpoint, attempt, delay) ==
  [seq |-> n, run |-> run, type |-> "retry", endpoint |-> endpoint,
   attempt |-> attempt, delay |-> delay]
Status(n, run, to) == [seq |-> n, run |-> run, type |-> "status", to |-> to]
Webhook(n, run, status) == [seq |-> n, run |-> run, type |-> "webhook", status |-> status]
Review(n, run, status) == [seq |-> n, run |-> run, type |-> "review", status |-> status]
Assertion(n, run, kind, pass) ==
  [seq |-> n, run |-> run, type |-> "assertion", kind |-> kind, pass |-> pass]
Completed(n, run, result) == [seq |-> n, run |-> run, type |-> "completed", result |-> result]

MCLogs ==
  {<<Started(1, "r1", "c", TRUE, FALSE), Status(2, "r1", "paid"), Webhook(4, "r1", "reversed"),
     Status(5, "r1", "reversed"), Completed(6, "r1", "passed"), Started(8, "r2", "c", TRUE, FALSE)>>,
   <<Started(1, "r1", "e", FALSE, TRUE), Exchange(2, "r1", "poll", 1, 200),
     Exchange(3, "r1", "poll", 1, 503), Retry(4, "r1", "poll", 2, 500),
     Exchange(5, "r1", "poll", 2, 200), Exchange(7, "r1", "paykey", 1, 503),
     Retry(8, "r1", "?", 2, 600), Exchange(9, "r1", "paykey", 2, 422)>>,
   <<Started(1, "r1", "b", FALSE, FALSE), Started(2, "r2", "e", FALSE, TRUE),
     Status(3, "r1", "on_hold"), Review(4, "r2", "rejected"), Status(6, "r1", "on_hold"),
     Exchange(7, "r2", "paykey", 1, 422), Assertion(8, "r2", "customer_review", FALSE),
     Completed(9, "r2", "failed")>>}
=============================================================================
