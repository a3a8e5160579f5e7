---------------------------- MODULE ScenarioRun -----------------------------
(***************************************************************************)
(* One run of one scenario, from its first call to its verdict:            *)
(*                                                                         *)
(*   runner      server/src/engine/runner.ts   (runOneScenario)            *)
(*   poller      server/src/engine/poller.ts   (poll)                      *)
(*   evaluator   server/src/engine/evaluator.ts                            *)
(*   scenarios   server/src/engine/scenarios.ts                            *)
(*   client      server/src/straddle/client.ts (request, with its retries) *)
(*   payout      server/src/engine/payout.ts   (runOnePayout)              *)
(*                                                                         *)
(* against the sandbox of module Sandbox behind an unreliable network: a   *)
(* request or its answer can be lost, the server can be out of order or    *)
(* answer nonsense, and an answer can take its time, as can the turn a     *)
(* poll waits for.  Between two awaits the runner's code is one step.      *)
(* Time is counted in minutes.                                             *)
(***************************************************************************)
EXTENDS Sandbox

CONSTANTS
  Chosen,       \* the scenarios run, one per behaviour
  Plans,        \* [charge outcome -> set of schedules the sandbox may follow]
  MaxAttempts,  \* attempts of one request
  Delays,       \* the poll interval is one of these (baseMinMs..baseMaxMs)
  FastDelay,    \* the interval after switchToFast (fastMs)
  HardTimeout,  \* hardTimeoutMs
  MaxLag        \* bound: minutes spent waiting for answers and turns

ASSUME PolicyAssumption ==
  /\ MaxAttempts \in Nat \ {0} /\ HardTimeout \in Nat \ {0} /\ MaxLag \in Nat
  /\ Delays \subseteq Nat \ {0} /\ Delays # {} /\ FastDelay \in Nat \ {0}

(* What the scenarios request and expect in contract mode. *)
Terminal(status, code) ==
  [kind |-> "terminal_status", status |-> status, code |-> code]
InOrder(statuses) == [kind |-> "ordered_statuses", statuses |-> statuses]
Rejection == [kind |-> "refusal"]

ContractScenario ==
  [a |-> [customer |-> "verified", charge |-> "paid", needs |-> Terminal("paid", "any")],
   b |-> [customer |-> "verified", charge |-> "failed_insufficient_funds",
          needs |-> Terminal("failed", "R01")],
   c |-> [customer |-> "verified", charge |-> "reversed_insufficient_funds",
          needs |-> InOrder(<<"paid", "reversed">>)],
   d |-> [customer |-> "verified", charge |-> "cancelled_for_fraud_risk",
          needs |-> Terminal("cancelled", "any")],
   e |-> [customer |-> "rejected", charge |-> "none", needs |-> Rejection],
   f |-> [customer |-> "verified", charge |-> "failed_closed_bank_account",
          needs |-> Terminal("failed", "R02")],
   g |-> [customer |-> "verified", charge |-> "reversed_closed_bank_account",
          needs |-> InOrder(<<"paid", "reversed">>)],
   h |-> [customer |-> "verified", charge |-> "paid",
          needs |-> InOrder(<<"on_hold", "paid">>)],
   i |-> [customer |-> "verified", charge |-> "standard",
          needs |-> Terminal("cancelled", "any")],
   payout |-> [customer |-> "verified", charge |-> "paid", needs |-> Terminal("paid", "any")]]

(* The variants for live mode, which expect what the API was seen to do.     *)
(* A failed entry always names its reason, so requireReasonDetail is met.    *)
LiveScenario ==
  [c_live |-> [customer |-> "verified", charge |-> "reversed_insufficient_funds",
               needs |-> Terminal("failed", "R01")],
   d_live |-> [customer |-> "verified", charge |-> "cancelled_for_fraud_risk",
               needs |-> Terminal("failed", "any")],
   g_live |-> [customer |-> "verified", charge |-> "reversed_closed_bank_account",
               needs |-> Terminal("failed", "R02")]]

Scenario ==
  [s \in DOMAIN ContractScenario \cup DOMAIN LiveScenario |->
     IF s \in DOMAIN LiveScenario THEN LiveScenario[s] ELSE ContractScenario[s]]

PollSteps == {"confirm", "settle"}
Actions == {"hold", "release", "cancel"}
Created == {"customer", "paykey", "charge", "payout"}
Steps == {"review"} \cup Created \cup Actions \cup PollSteps

ASSUME ScenariosAssumption == Chosen \subseteq DOMAIN Scenario

VARIABLES
  id,        \* the scenario
  now,       \* the clock
  lag,       \* minutes spent waiting for answers and turns
  step,      \* where the runner is, "done" at the end
  call,      \* the request in flight or waiting for its turn, see NoCall
  made,      \* how often the sandbox created each resource
  keys,      \* idempotency keys the sandbox has honoured
  customer,  \* the customer's status, "none" before it exists
  charge,    \* the charge, or the payout
  poll,      \* the poll loop: when it started, whether it is in fast mode,
             \*   and whether its latest poll was answered
  trans,     \* evidence: status transitions
  review,    \* evidence: the customer review
  refusal,   \* evidence: the refusal of the paykey
  diag,      \* evidence: diagnostics, as [step, kind]
  verdict    \* the result of run.completed, "none" before it

sandboxVars == <<made, keys, customer, charge>>
evidence == <<trans, review, refusal, diag>>
vars == <<id, now, lag, step, call, sandboxVars, poll, evidence, verdict>>

NoCall == [st |-> "none", attempt |-> 0, seen |-> <<>>]

-----------------------------------------------------------------------------
(* Evidence and evaluation.                                                *)

LastTo(ts) == IF ts = <<>> THEN "none" ELSE Last(ts).to

Known(ts, e) == \E i \in DOMAIN ts : ts[i].to = e.status /\ ts[i].at = e.at

(* An entry whose status differs from the last is a transition. *)
Change(ts, e) ==
  IF LastTo(ts) = e.status THEN ts
  ELSE Append(ts, [from |-> LastTo(ts), to |-> e.status, code |-> e.code, at |-> e.at])

(* observeCharge: entries noted by an earlier observation are skipped. *)
Note(ts, e) == IF Known(ts, e) THEN ts ELSE Change(ts, e)

(* The set makes TLC evaluate a step of the fold once. *)
NoteOnce(ts, e) == CHOOSE n \in {Note(s, e) : s \in {ts}} : TRUE

Observe(ts, history) == FoldLeft(NoteOnce, ts, history)

(* The expected statuses occur in that order. *)
Occur(statuses, ts) ==
  \E at \in [DOMAIN statuses -> DOMAIN ts] :
    /\ \A k \in DOMAIN statuses : ts[at[k]].to = statuses[k]
    /\ \A k, l \in DOMAIN statuses : k < l => at[k] < at[l]

Meets(need, ts) ==
  CASE need.kind = "terminal_status" ->
         LastTo(ts) = need.status /\ (need.code = "any" \/ Last(ts).code = need.code)
    [] need.kind = "ordered_statuses" -> Occur(need.statuses, ts)
    [] OTHER -> FALSE

Passes(ts, rev, ref, dg) ==
  /\ dg = {}
  /\ IF Scenario[id].needs = Rejection THEN rev = "rejected" /\ ref = "rejected"
     ELSE Meets(Scenario[id].needs, ts)

(* expectsReversal is derived from the scenario's definition. *)
Reverses(s) ==
  /\ Scenario[s].needs.kind = "ordered_statuses"
  /\ \E k \in DOMAIN Scenario[s].needs.statuses : Scenario[s].needs.statuses[k] = "reversed"

ExpectsReversal == Reverses(id)

(* Fault: paid settles a charge whose reversal is expected. *)
IsSettledEarly(status, ts) == status \in Settled
IsSettled(status, ts) ==
  IF step = "confirm" THEN status = "on_hold" \/ status \in Settled
  ELSE IF ExpectsReversal
    THEN (\E i \in DOMAIN ts : ts[i].to = "reversed") \/ status \in Settled \ {"paid"}
  ELSE status \in Settled

-----------------------------------------------------------------------------
(* The runner's control flow.                                              *)

(* Ends the run with the evidence it now has. *)
Complete ==
  /\ step' = "done"
  /\ verdict' = IF Passes(trans', review', refusal', diag') THEN "passed" ELSE "failed"
  /\ UNCHANGED poll

Blame(kind) ==
  /\ diag' = diag \cup {[step |-> step, kind |-> kind]}
  /\ UNCHANGED <<trans, review, refusal>>

GoTo(s) ==
  /\ step' = s
  /\ poll' = IF s \in PollSteps THEN [start |-> now, fast |-> FALSE, heard |-> FALSE]
             ELSE poll
  /\ UNCHANGED verdict

(* The step after a call of the present step succeeded. *)
PayoutFollowing ==
  CASE step = "customer" -> "review"
    [] step = "review" -> "paykey"
    [] step = "paykey" -> "payout"
    [] OTHER -> "settle"

Following ==
  CASE id = "payout" -> PayoutFollowing
    [] step = "customer" -> "review"
    [] step = "review" -> "paykey"
    [] step = "paykey" -> "charge"
    [] step = "charge" -> CASE id = "h" -> "hold" [] id = "i" -> "cancel" [] OTHER -> "settle"
    [] step = "hold" -> "confirm"
    [] OTHER -> "settle"

(* What follows the poll loop, also one that gave up. *)
AfterPoll == IF step = "confirm" THEN GoTo("release") ELSE Complete

Send(st) == call' = [NoCall EXCEPT !.st = st, !.attempt = 1]

StartCall ==
  /\ step \in Steps \ PollSteps
  /\ call.st = "none"
  /\ Send("sent")
  /\ UNCHANGED <<id, now, lag, step, sandboxVars, poll, evidence, verdict>>

Sleep(d) ==
  LET left == HardTimeout - (now - poll.start) IN IF d < left THEN d ELSE left

(* Fault: the hard timeout is never noticed. *)
TimedOutNever == FALSE
TimedOut == now - poll.start >= HardTimeout

(* Fault: the timeout is looked at after the sleep, when a poll is due. *)
PollTimeoutOnWaking ==
  /\ step \in PollSteps /\ call.st = "none"
  /\ \E d \in IF poll.fast THEN {FastDelay} ELSE Delays : now' = now + Sleep(d)
  /\ now' - poll.start >= HardTimeout
  /\ Blame("timeout")
  /\ AfterPoll
  /\ UNCHANGED <<id, lag, call, sandboxVars>>

(* The top of the poll loop: time out, or sleep and wait for a turn.  The   *)
(* timeout is not looked at again before the poll is sent.                  *)
PollTimeout ==
  /\ step \in PollSteps /\ call.st = "none"
  /\ TimedOut
  /\ Blame("timeout")
  /\ AfterPoll
  /\ UNCHANGED <<id, now, lag, call, sandboxVars>>

PollCycle ==
  /\ step \in PollSteps /\ call.st = "none"
  /\ ~TimedOut
  /\ \E d \in IF poll.fast THEN {FastDelay} ELSE Delays : now' = now + Sleep(d)
  /\ Send("queued")
  /\ UNCHANGED <<id, lag, step, sandboxVars, poll, evidence, verdict>>

(* The rate floor's turn has come (RateFloor promises one to every waiter). *)
TurnCome ==
  /\ call.st = "queued"
  /\ call' = [call EXCEPT !.st = "sent"]
  /\ UNCHANGED <<id, now, lag, step, sandboxVars, poll, evidence, verdict>>

-----------------------------------------------------------------------------
(* The sandbox at work on the request in flight.  Requests that change     *)
(* something carry the idempotency key of their step, the same for every   *)
(* attempt; a key that was honoured gets the same answer again.            *)

GetCustomerReview == step = "review"
GetCharge == step \in PollSteps /\ id # "payout"
GetPayout == step \in PollSteps /\ id = "payout"
Reads == GetCustomerReview \/ GetCharge \/ GetPayout

(* Fault: every attempt has a key of its own. *)
KeyPerAttempt(attempt) == <<step, attempt>>
Key(attempt) == <<step, 1>>

Honoured == Key(call.attempt) \in keys

Refused ==
  \/ step = "paykey" /\ customer = "rejected"
  \/ step \in {"charge", "payout"} /\ made[step] > 0
  \/ step \in Actions /\ Refuses(charge, now)

(* The answer arrives, is lost on the way (or is a 5xx), or is no envelope. *)
Reply(r) ==
  \E st \in {r, "broken", "garbled"} :
    call' = [call EXCEPT !.st = st,
               !.seen = IF charge'.mode = "none" THEN <<>> ELSE History(charge', now)]

(* The outcome asked for may not be honoured: the customer is verified. *)
CreateCustomer ==
  /\ step = "customer"
  /\ customer' \in {Scenario[id].customer, "verified"}
  /\ UNCHANGED charge

CreatePaykey == step = "paykey" /\ UNCHANGED <<customer, charge>>

Originate ==
  /\ \E p \in Plans[Scenario[id].charge] : charge' = NewCharge(p, now)
  /\ UNCHANGED customer

CreateCharge == step = "charge" /\ Originate
CreatePayout == step = "payout" /\ Originate

Create ==
  /\ CreateCustomer \/ CreatePaykey \/ CreateCharge \/ CreatePayout
  /\ made' = [made EXCEPT ![step] = @ + 1]

Alter ==
  /\ charge' = CASE step = "hold" -> Hold(charge, now)
                 [] step = "release" -> Release(charge, now)
                 [] step = "cancel" -> Cancel(charge, now)
  /\ UNCHANGED <<made, customer>>

Honour ==
  /\ call.st = "sent" /\ ~Reads
  /\ ~Honoured /\ ~Refused
  /\ Create \/ (step \in Actions /\ Alter)
  /\ keys' = keys \cup {Key(call.attempt)}
  /\ Reply("ok")
  /\ UNCHANGED <<id, now, lag, step, poll, evidence, verdict>>

Repeat ==
  /\ call.st = "sent"
  /\ Reads \/ Honoured
  /\ UNCHANGED sandboxVars
  /\ Reply("ok")
  /\ UNCHANGED <<id, now, lag, step, poll, evidence, verdict>>

Refuse ==
  /\ call.st = "sent" /\ ~Reads
  /\ ~Honoured /\ Refused
  /\ UNCHANGED sandboxVars
  /\ Reply("refused")
  /\ UNCHANGED <<id, now, lag, step, poll, evidence, verdict>>

(* The request is lost, or turned away with a 429 or 5xx. *)
Drop ==
  /\ call.st = "sent"
  /\ call' = [call EXCEPT !.st = "broken"]
  /\ UNCHANGED <<id, now, lag, step, sandboxVars, poll, evidence, verdict>>

(* An answer, the backoff before a retry or a turn takes its time. *)
Wait ==
  /\ call.st # "none"
  /\ lag < MaxLag
  /\ lag' = lag + 1 /\ now' = now + 1
  /\ UNCHANGED <<id, step, call, sandboxVars, poll, evidence, verdict>>

-----------------------------------------------------------------------------
(* The client and the runner, when an answer is there.                     *)

Exhausted == call.attempt >= MaxAttempts

Retry ==
  /\ call.st = "broken" /\ ~Exhausted
  /\ call' = [call EXCEPT !.st = "sent", !.attempt = @ + 1, !.seen = <<>>]
  /\ UNCHANGED <<id, now, lag, step, sandboxVars, poll, evidence, verdict>>

Taken == call' = NoCall /\ UNCHANGED <<id, now, lag, sandboxVars>>

Deliberate == id = "e" /\ step = "paykey"

Succeed ==
  /\ call.st = "ok" /\ step \notin PollSteps /\ ~Deliberate
  /\ review' = IF step = "review" THEN customer ELSE review
  /\ trans' = Observe(trans, call.seen)
  /\ UNCHANGED <<refusal, diag>>
  /\ GoTo(Following)
  /\ Taken

(* The paykey of a rejected customer is expected to be refused. *)
NotRefused ==
  /\ call.st = "ok" /\ Deliberate
  /\ Blame("accepted")
  /\ Complete
  /\ Taken

Refusal(kind) ==
  /\ Deliberate /\ kind # "garbled"
  /\ refusal' = IF kind = "refused" THEN "rejected" ELSE "other"
  /\ UNCHANGED <<trans, review, diag>>
  /\ Complete

PollAnswer ==
  /\ call.st = "ok" /\ step \in PollSteps
  /\ trans' = Observe(trans, call.seen)
  /\ UNCHANGED <<review, refusal, diag>>
  /\ IF IsSettled(Last(call.seen).status, trans') THEN AfterPoll
     ELSE /\ poll' = [poll EXCEPT !.heard = TRUE, !.fast = \/ @
                        \/ /\ ExpectsReversal
                           /\ \E k \in DOMAIN call.seen : call.seen[k].status = "pending"]
          /\ UNCHANGED <<step, verdict>>
  /\ Taken

(* Fault: an outage ends the poll. *)
TransientNot(kind) == FALSE
(* onFetchError: what the client gave up on may work at the next poll. *)
Transient(kind) == kind = "unreachable"

Missed(kind) ==
  /\ step \in PollSteps /\ Transient(kind)
  /\ poll' = [poll EXCEPT !.heard = FALSE]
  /\ UNCHANGED <<step, evidence, verdict>>

GiveUpPoll(kind) ==
  /\ step \in PollSteps /\ ~Transient(kind)
  /\ Blame(kind)
  /\ AfterPoll

GiveUp(kind) ==
  /\ step \notin PollSteps
  /\ ~Deliberate \/ kind = "garbled"
  /\ Blame(kind)
  /\ Complete

Fail ==
  \E kind \in {"refused", "garbled", "unreachable"} :
    /\ call.st = IF kind = "unreachable" THEN "broken" ELSE kind
    /\ kind = "unreachable" => Exhausted
    /\ Refusal(kind) \/ Missed(kind) \/ GiveUpPoll(kind) \/ GiveUp(kind)
    /\ Taken

-----------------------------------------------------------------------------
Init ==
  /\ id \in Chosen
  /\ now = 0 /\ lag = 0
  /\ step = "customer" /\ call = NoCall
  /\ made = [r \in Created |-> 0] /\ keys = {}
  /\ customer = "none" /\ charge = NoCharge
  /\ poll = [start |-> 0, fast |-> FALSE, heard |-> FALSE]
  /\ trans = <<>> /\ review = "none" /\ refusal = "none" /\ diag = {}
  /\ verdict = "none"

Sandboxed == Drop \/ Honour \/ Repeat \/ Refuse
Runner ==
  \/ StartCall \/ PollTimeout \/ PollCycle \/ TurnCome
  \/ Retry \/ Succeed \/ NotRefused \/ PollAnswer \/ Fail
Next == Sandboxed \/ Wait \/ Runner

Spec == Init /\ [][Next]_vars

(* Every request is answered or fails, and the runner runs. *)
FairSpec == Spec /\ WF_vars(Sandboxed) /\ WF_vars(Runner)

-----------------------------------------------------------------------------
(* What is known of the schedules a scenario meets.  They start with created,
   are ordered by time (mock.ts:117), never hold by themselves and never come
   back to a status they left.                                               *)
Orderly(p) ==
  /\ p \in Seq(ToSet(p)) /\ p # <<>> /\ p[1].at = 0
  /\ \A e \in ToSet(p) : /\ e = Entry(e.status, e.code, e.at)
                        /\ e.status \in Statuses \ {"on_hold"} /\ e.at \in Nat
  /\ \A i, j \in DOMAIN p : i < j => p[i].at <= p[j].at
  /\ \A i, j, k \in DOMAIN p :
       i < j /\ j < k /\ p[i].status = p[k].status => p[j].status = p[i].status

(* The statuses that end watching: paid is provisional where a reversal is
   expected.                                                                 *)
Closing(s) == IF Reverses(s) THEN Settled \ {"paid"} ELSE Settled

(* A status that is reported more than once, as pending is (mock.ts:198-218),
   stays until watching ends, later than any answer to the creation; and
   nobody acts on such a charge.                                             *)
RepeatsToTheEnd(s, p) ==
  \A i \in DOMAIN p : i + 1 \in DOMAIN p /\ p[i].status = p[i + 1].status =>
    /\ s \notin {"h", "i"}
    /\ \A k \in DOMAIN p : k > i + 1 =>
         \/ p[k].status = p[i].status
         \/ p[k].status \in Closing(s) /\ p[k].at > MaxLag

(* A settled charge stays as it is, but a paid one may be reversed if the
   scenario asks for neither as the end.                                     *)
SettledToTheEnd(s, p) ==
  \A i \in DOMAIN p : i + 1 \in DOMAIN p /\ p[i].status \in Settled =>
    /\ p[i].status = "paid" /\ p[i + 1].status = "reversed"
    /\ Scenario[s].needs.kind = "terminal_status" =>
         Scenario[s].needs.status \notin {"paid", "reversed"}

OrderlyPlans ==
  \A s \in Chosen : Scenario[s].charge # "none" =>
    \A p \in Plans[Scenario[s].charge] : Orderly(p) /\ RepeatsToTheEnd(s, p)

SettledPlans ==
  \A s \in Chosen : Scenario[s].charge # "none" =>
    \A p \in Plans[Scenario[s].charge] : SettledToTheEnd(s, p)

-----------------------------------------------------------------------------
(* The true history of the charge, and its changes: repeated statuses merged. *)
Truth(t) == IF charge.mode = "none" THEN <<>> ELSE History(charge, t)

Changes(history) == FoldLeft(Change, <<>>, history)

TrueChanges(t) == Changes(Truth(t))

(* The evidence is the truth so far: the transitions a run reports are, in
   order and without invention, the first changes of the charge's status, also
   across held, released, lost and late answers (runner.ts observeCharge).   *)
EvidenceFaithful == IsPrefix(trans, TrueChanges(now))

(* A verdict reached without a diagnostic is the one that watching the charge
   for ever would give (isChargeSettled, evaluateScenario).                  *)
Forever == charge.base + Last(charge.schedule).at
VerdictFinal ==
  verdict # "none" /\ diag = {} /\ charge.mode # "none" =>
    ((verdict = "passed") <=> Meets(Scenario[id].needs, TrueChanges(Forever)))

(* A failed verdict has a cause other than an outage while polling: an
   expectation the charge does not meet, a timeout, an answer that makes no
   sense, or a call outside the poll loop that did not succeed (onFetchError). *)
FailureHasCause ==
  verdict = "failed" =>
    \/ \E d \in diag : d.kind \in {"timeout", "garbled"} \/ d.step \notin PollSteps
    \/ id = "e" /\ refusal = "other"
    \/ charge.mode # "none" /\ ~Meets(Scenario[id].needs, TrueChanges(Forever))

(* However often answers are lost and requests retried, the sandbox creates
   each resource of a run at most once (client.ts request, one key per call). *)
CreatedOnce == \A r \in DOMAIN made : made[r] <= 1

(* A loop that watches a charge may be over at this status. *)
EndsWatching(status) ==
  status \in IF step = "confirm" THEN Settled \cup {"on_hold"} ELSE Closing(id)

(* A timeout is earned: the poll loop neither gives up early nor declares a
   timeout of a charge it could have seen end in time.  Unless its latest poll
   went unanswered, the charge was still open at some moment no earlier than
   the deadline less the time spent waiting for turns, answers and retries
   (poller.ts poll: the last sleep ends at the deadline, and a poll follows). *)
TimeoutIsEarned == [][
  [step |-> step, kind |-> "timeout"] \in diag' \ diag =>
    /\ now' - poll.start >= HardTimeout
    /\ poll.heard => \E t \in (poll.start + HardTimeout - lag)..now' :
                       ~EndsWatching(StatusAt(charge, t))]_vars

(* Every run ends with a verdict, whatever the sandbox does (docs/spec.md:
   "a timeout is a result, not a crash").                                    *)
Completes == <>(verdict # "none")

=============================================================================
