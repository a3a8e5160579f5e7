------------------------- MODULE ScenarioRunProofs --------------------------
(***************************************************************************)
(* What holds of a scenario run for every number of attempts, every poll   *)
(* policy and every latency: no resource is created twice and a timeout is *)
(* earned; and, for every schedule of the payment API that is orderly, the *)
(* evidence is the charge's true history, a verdict is final, and a        *)
(* failure has a cause.                                                    *)
(*                                                                         *)
(* The inductive invariant of the last three is Watch.  It says where the  *)
(* call and the path of the run are (Way), that before the charge exists   *)
(* only answers were waited for (Timing), in which form the charge is      *)
(* (Shape), and that the evidence lists the changes of some beginning of   *)
(* the true history, which an answer in flight may only prolong (Evidence).*)
(***************************************************************************)
EXTENDS ScenarioRun, TLAPS, SequenceTheorems, WellFoundedInduction

-----------------------------------------------------------------------------
(* CreatedOnce is not inductive: it does not say why a repeated request does
   not create again.  What was created once has its key honoured.            *)
CreatedUnderKey ==
  /\ made \in [Created -> {0, 1}]
  /\ \A r \in DOMAIN made : made[r] = 1 => <<r, 1>> \in keys

(* A request honoured for the first time: its key is new, so its resource
   does not exist yet (mock.ts createPaykey, createCharge).                  *)
LEMMA HonourCreatesOnce ==
  ASSUME CreatedUnderKey, Honour
  PROVE  CreatedUnderKey'
  <1>1. <<step, 1>> \notin keys /\ keys' = keys \cup {<<step, 1>>}
    BY DEF Honour, Honoured, Key
  <1>2. CASE Create
    <2>1. /\ step \in Created
          /\ made' = [made EXCEPT ![step] = @ + 1]
      BY <1>2 DEF Create, CreateCustomer, CreatePaykey, CreateCharge, CreatePayout, Created
    <2>2. made[step] = 0
      BY <1>1, <2>1 DEF CreatedUnderKey
    <2>3. made' = [made EXCEPT ![step] = 1]
      BY <2>1, <2>2
    <2> QED BY <1>1, <2>1, <2>3 DEF CreatedUnderKey
  <1>3. CASE Alter
    BY <1>1, <1>3 DEF Alter, CreatedUnderKey
  <1> QED BY <1>2, <1>3 DEF Honour

(* Every other step leaves what was created, and the keys, alone. *)
LEMMA OnlyHonourCreates ==
  ASSUME [Next]_vars, ~Honour
  PROVE  UNCHANGED <<made, keys>>
  <1>1. CASE UNCHANGED vars
    BY <1>1 DEF vars, sandboxVars
  <1>2. CASE Sandboxed
    BY <1>2 DEF Sandboxed, Repeat, Refuse, Drop, sandboxVars
  <1>3. CASE Wait
    BY <1>3 DEF Wait, sandboxVars
  <1>4. CASE Runner
    BY <1>4 DEF Runner, StartCall, PollTimeout, PollCycle, TurnCome, Retry, Succeed,
                NotRefused, PollAnswer, Fail, Taken, sandboxVars
  <1> QED BY <1>1, <1>2, <1>3, <1>4 DEF Next

(* However often answers are lost and requests sent again, the payment API
   creates each resource of a run at most once (client.ts request).          *)
THEOREM NothingCreatedTwice == Spec => []CreatedOnce
  <1>1. Init => CreatedUnderKey
    BY DEF Init, CreatedUnderKey
  <1>2. CreatedUnderKey /\ [Next]_vars => CreatedUnderKey'
    <2> SUFFICES ASSUME CreatedUnderKey, [Next]_vars PROVE CreatedUnderKey'
      OBVIOUS
    <2>1. CASE Honour
      BY <2>1, HonourCreatesOnce
    <2>2. CASE ~Honour
      BY <2>2, OnlyHonourCreates DEF CreatedUnderKey
    <2> QED BY <2>1, <2>2
  <1>3. CreatedUnderKey => CreatedOnce
    BY DEF CreatedUnderKey, CreatedOnce
  <1> QED BY <1>1, <1>2, <1>3, PTL DEF Spec

-----------------------------------------------------------------------------
(* The clock and the poll loop's own record of it are numbers. *)
PollClock ==
  /\ now \in Nat
  /\ poll = [start |-> poll.start, fast |-> poll.fast, heard |-> poll.heard]
  /\ poll.start \in Nat

(* The sleep before a poll takes the clock forward. *)
LEMMA SleepIsForward ==
  ASSUME PollClock, PollCycle
  PROVE  now' \in Nat /\ now' > now
  <1>1. PICK d \in Nat \ {0} : now' = now + Sleep(d)
    BY PolicyAssumption DEF PollCycle
  <1> QED BY <1>1, PolicyAssumption DEF PollCycle, TimedOut, Sleep, PollClock

(* What a step of the runner may do to the record of the poll loop. *)
LEMMA RecordIs ==
  ASSUME PollClock, Succeed \/ NotRefused \/ PollAnswer \/ Fail
  PROVE  /\ now' = now
         /\ \/ poll' = [start |-> now, fast |-> FALSE, heard |-> FALSE]
            \/ \E f, h : poll' = [start |-> poll.start, fast |-> f, heard |-> h]
  <1>1. now' = now
    BY DEF Succeed, NotRefused, PollAnswer, Fail, Taken
  <1>2. CASE Succeed
    <2>1. poll' \in {poll, [start |-> now, fast |-> FALSE, heard |-> FALSE]}
      BY <1>2 DEF Succeed, GoTo
    <2> QED BY <1>1, <2>1 DEF PollClock
  <1>3. CASE NotRefused
    BY <1>1, <1>3 DEF NotRefused, Complete, PollClock
  <1>4. CASE PollAnswer
    <2>1. \/ poll' = poll
          \/ \E f : poll' = [poll EXCEPT !.heard = TRUE, !.fast = f]
      BY <1>4 DEF PollAnswer, AfterPoll, GoTo, Complete, PollSteps
    <2>2. CASE poll' = poll
      BY <1>1, <2>2 DEF PollClock
    <2>3. CASE \E f : poll' = [poll EXCEPT !.heard = TRUE, !.fast = f]
      BY <1>1, <2>3 DEF PollClock
    <2> QED BY <2>1, <2>2, <2>3
  <1>5. CASE Fail
    <2>1. poll' = poll \/ poll' = [poll EXCEPT !.heard = FALSE]
      BY <1>5 DEF Fail, Refusal, Missed, GiveUpPoll, GiveUp, AfterPoll, GoTo,
                  Complete, PollSteps
    <2> QED BY <1>1, <2>1 DEF PollClock
  <1> QED BY <1>2, <1>3, <1>4, <1>5

(* The loop's record stays one, with every step. *)
LEMMA ClockKept ==
  ASSUME PollClock, [Next]_vars
  PROVE  PollClock'
  <1>1. CASE Sandboxed \/ Retry \/ StartCall \/ TurnCome
    <2>1. UNCHANGED <<now, poll>>
      BY <1>1 DEF Sandboxed, Drop, Honour, Repeat, Refuse, Retry, StartCall, TurnCome
    <2> QED BY <2>1 DEF PollClock
  <1>2. CASE Wait
    BY <1>2 DEF Wait, PollClock
  <1>3. CASE PollCycle
    <2>1. poll' = poll
      BY <1>3 DEF PollCycle
    <2> QED BY <1>3, <2>1, SleepIsForward DEF PollClock
  <1>4. CASE PollTimeout
    <2>1. UNCHANGED <<now, poll>>
      BY <1>4 DEF PollTimeout, AfterPoll, GoTo, Complete, PollSteps
    <2> QED BY <2>1 DEF PollClock
  <1>5. CASE Succeed \/ NotRefused \/ PollAnswer \/ Fail
    BY <1>5, RecordIs DEF PollClock
  <1>6. CASE UNCHANGED vars
    BY <1>6 DEF vars, PollClock
  <1> QED BY <1>1, <1>2, <1>3, <1>4, <1>5, <1>6 DEF Next, Runner

-----------------------------------------------------------------------------
(* Induction, and the folds over a history.                                  *)

(* Induction over a set of numbers.                                         *)
LEMMA NatSet ==
  ASSUME NEW S, 0 \in S, \A n \in Nat : n \in S => n + 1 \in S
  PROVE  Nat \subseteq S
<1> DEFINE T == Nat \ S
<1> SUFFICES ASSUME T # {} PROVE FALSE
  OBVIOUS
<1>1. PICK x \in T : \A y \in T : <<y, x>> \notin OpToRel(<, Nat)
  BY NatLessThanWellFounded, WFMin, T \subseteq Nat
<1>2. \A y \in T : ~ (y < x)
  BY <1>1 DEF OpToRel
<1>3. x # 0 /\ x - 1 \in Nat /\ x - 1 \notin T
  BY <1>2
<1> QED
  BY <1>3

(* The largest of finitely many numbers.                                    *)
LEMMA MaxIs ==
  ASSUME NEW n \in Nat, NEW S \in SUBSET (0..n), S # {}
  PROVE  Max(S) \in S /\ \A x \in S : x <= Max(S)
<1> DEFINE Bounded == {m \in Nat : \A R \in SUBSET (0..m) :
                         R # {} => \E x \in R : \A y \in R : x >= y}
<1>1. 0 \in Bounded
  <2> SUFFICES ASSUME NEW R \in SUBSET (0..0), R # {}
               PROVE  \E x \in R : \A y \in R : x >= y
    OBVIOUS
  <2>1. PICK x \in R : TRUE
    OBVIOUS
  <2>2. \A y \in R : y = 0
    OBVIOUS
  <2>3. x = 0 /\ \A y \in R : x >= y
    BY <2>2
  <2> QED
    BY <2>3
<1>2. ASSUME NEW m \in Nat, m \in Bounded PROVE m + 1 \in Bounded
  <2> SUFFICES ASSUME NEW R \in SUBSET (0..(m + 1)), R # {}
               PROVE  \E x \in R : \A y \in R : x >= y
    OBVIOUS
  <2>1. CASE m + 1 \in R
    BY <2>1
  <2>2. CASE m + 1 \notin R
    <3>1. R \in SUBSET (0..m)
      BY <2>2
    <3> QED
      BY <3>1, <1>2
  <2> QED
    BY <2>1, <2>2
<1> HIDE DEF Bounded
<1>3. n \in Bounded
  BY <1>1, <1>2, NatSet
<1>4. \E x \in S : \A y \in S : x >= y
  BY <1>3 DEF Bounded
<1> QED
  BY <1>4 DEF Max

(* Observing notes an entry, the true changes take it as it is.              *)
Take(how, ts, e) == IF how = "note" THEN NoteOnce(ts, e) ELSE Change(ts, e)

FoldStep(f, how, start, q, indices) ==
  [s \in SUBSET indices |->
     IF s = {} THEN start ELSE Take(how, f[s \ {Max(s)}], q[Max(s)])]

(* The function a fold is defined by exists on every stretch of indices.     *)
LEMMA FoldExists ==
  ASSUME NEW how, NEW start, NEW q
  PROVE  \A n \in Nat : \E f : f = FoldStep(f, how, start, q, 1..n)
<1> DEFINE Body(f, n) == FoldStep(f, how, start, q, 1..n)
           Defined == {n \in Nat : \E f : f = Body(f, n)}
<1>1. 0 \in Defined
  <2> DEFINE f == [s \in SUBSET (1..0) |-> start]
  <2>1. \A s \in SUBSET (1..0) : s = {}
    OBVIOUS
  <2>2. f = Body(f, 0)
    BY <2>1 DEF FoldStep
  <2> HIDE DEF f
  <2> QED
    BY <2>2
<1>2. ASSUME NEW n \in Nat, n \in Defined PROVE n + 1 \in Defined
  <2>1. PICK f : f = Body(f, n)
    BY <1>2
  <2> DEFINE g == [s \in SUBSET (1..(n + 1)) |->
                     IF n + 1 \in s THEN Take(how, f[s \ {n + 1}], q[n + 1]) ELSE f[s]]
  <2>2. ASSUME NEW s \in SUBSET (1..(n + 1))
        PROVE  g[s] = IF s = {} THEN start ELSE Take(how, g[s \ {Max(s)}], q[Max(s)])
    <3>1. CASE n + 1 \in s
      <4>1. Max(s) \in s /\ \A x \in s : x <= Max(s)
        <5>1. n + 1 \in Nat /\ s \in SUBSET (0..(n + 1)) /\ s # {}
          BY <3>1
        <5> QED
          BY ONLY <5>1, MaxIs
      <4>2. Max(s) = n + 1
        <5>1. Max(s) \in 1..(n + 1) /\ n + 1 <= Max(s)
          BY <4>1, <3>1
        <5> QED
          BY ONLY <5>1, n \in Nat
      <4>3. s \ {n + 1} \in SUBSET (1..(n + 1)) /\ n + 1 \notin s \ {n + 1}
        OBVIOUS
      <4>4. g[s \ {n + 1}] = f[s \ {n + 1}]
        BY <4>3
      <4> QED
        BY <3>1, <4>2, <4>4
    <3>2. CASE n + 1 \notin s /\ s # {}
      <4>1. s \in SUBSET (1..n)
        BY <3>2
      <4>2. Max(s) \in s
        <5>1. s \in SUBSET (0..n)
          BY <4>1
        <5> QED
          BY ONLY <5>1, <3>2, n \in Nat, MaxIs
      <4>3. g[s] = f[s] /\ g[s \ {Max(s)}] = f[s \ {Max(s)}]
        BY <3>2
      <4>4. f[s] = Take(how, f[s \ {Max(s)}], q[Max(s)])
        BY <2>1, <4>1, <3>2 DEF FoldStep
      <4> QED
        BY <4>3, <4>4, <3>2
    <3>3. CASE s = {}
      <4>1. s \in SUBSET (1..n) /\ n + 1 \notin s
        BY <3>3
      <4>2. f[s] = start
        BY <2>1, <4>1, <3>3 DEF FoldStep
      <4> QED
        BY <4>1, <4>2, <3>3
    <3> QED
      BY <3>1, <3>2, <3>3
  <2>3. g = [s \in SUBSET (1..(n + 1)) |-> g[s]]
    OBVIOUS
  <2> HIDE DEF g
  <2>4. g = Body(g, n + 1)
    BY <2>2, <2>3 DEF FoldStep
  <2> QED
    BY <2>4
<1> HIDE DEF Defined
<1>3. Nat \subseteq Defined
  BY <1>1, <1>2, NatSet
<1> QED
  BY <1>3 DEF Defined

(* Such a function takes one entry after the other.                          *)
LEMMA FoldSteps ==
  ASSUME NEW how, NEW start, NEW A, NEW q \in Seq(A), NEW iter,
         iter = FoldStep(iter, how, start, q, DOMAIN q)
  PROVE  \E h : /\ h[0] = start
                /\ \A i \in 1..Len(q) : h[i] = Take(how, h[i - 1], q[i])
                /\ iter[DOMAIN q] = h[Len(q)]
<1> DEFINE h == [i \in 0..Len(q) |-> iter[1..i]]
<1>1. DOMAIN q = 1..Len(q) /\ Len(q) \in Nat
  OBVIOUS
<1>2. iter = FoldStep(iter, how, start, q, DOMAIN q)
  OBVIOUS
<1>3. h[0] = start
  BY <1>1, <1>2, 1..0 = {} DEF FoldStep
<1>4. ASSUME NEW i \in 1..Len(q) PROVE h[i] = Take(how, h[i - 1], q[i])
  <2> DEFINE s == 1..i
  <2>1. s # {} /\ s \in SUBSET (0..i) /\ i \in Nat /\ i \in s
    <3>1. i \in Nat /\ i >= 1
      BY <1>1
    <3>2. i \in s
      BY <3>1
    <3>3. s \in SUBSET (0..i)
      BY <3>1
    <3> QED
      BY <3>1, <3>2, <3>3
  <2>2. Max(s) \in s /\ \A x \in s : x <= Max(s)
    <3> HIDE DEF s
    <3> QED
      BY ONLY <2>1, MaxIs
  <2>3. Max(s) = i
    BY <2>1, <2>2
  <2>4. s \ {i} = 1..(i - 1) /\ s \in SUBSET DOMAIN q
    BY <1>1
  <2>5. iter[s] = Take(how, iter[s \ {Max(s)}], q[Max(s)])
    <3> HIDE DEF s
    <3> QED
      BY <1>2, <2>1, <2>4 DEF FoldStep
  <2>6. h[i] = iter[s] /\ h[i - 1] = iter[1..(i - 1)]
    BY <1>1
  <2> QED
    BY <2>3, <2>4, <2>5, <2>6
<1>5. h[Len(q)] = iter[DOMAIN q]
  BY <1>1
<1> HIDE DEF h
<1> QED
  BY <1>3, <1>4, <1>5

(* The changes of a history, taken one entry after the other.                *)
LEMMA ChangesFold ==
  ASSUME NEW A, NEW q \in Seq(A)
  PROVE  \E h : /\ h[0] = <<>>
                /\ \A i \in 1..Len(q) : h[i] = Change(h[i - 1], q[i])
                /\ Changes(q) = h[Len(q)]
<1> DEFINE Body(f) == [s \in SUBSET DOMAIN q |->
                         IF s = {} THEN <<>> ELSE Change(f[s \ {Max(s)}], q[Max(s)])]
           iter == CHOOSE f : f = Body(f)
<1>1. \A f : Body(f) = FoldStep(f, "change", <<>>, q, DOMAIN q)
  BY DEF FoldStep, Take
<1>2. \E f : f = Body(f)
  <2>1. DOMAIN q = 1..Len(q) /\ Len(q) \in Nat
    OBVIOUS
  <2>2. \E f : f = FoldStep(f, "change", <<>>, q, DOMAIN q)
    BY ONLY <2>1, FoldExists
  <2> HIDE DEF Body
  <2> QED
    BY <1>1, <2>2
<1>3. iter = Body(iter)
  BY <1>2
<1>4. Changes(q) = iter[DOMAIN q]
  BY DEF Changes, FoldLeft, MapThenFoldSet
<1> HIDE DEF iter, Body
<1>5. iter = FoldStep(iter, "change", <<>>, q, DOMAIN q)
  BY <1>1, <1>3
<1>6. PICK h : /\ h[0] = <<>>
               /\ \A i \in 1..Len(q) : h[i] = Take("change", h[i - 1], q[i])
               /\ iter[DOMAIN q] = h[Len(q)]
  BY <1>5, FoldSteps
<1> QED
  BY <1>4, <1>6 DEF Take

(* Noting an entry once is how it.                                        *)
LEMMA OnceIsNote ==
  ASSUME NEW ts, NEW e
  PROVE  NoteOnce(ts, e) = Note(ts, e)
<1>1. \A n : n \in {Note(s, e) : s \in {ts}} <=> n = Note(ts, e)
  OBVIOUS
<1> QED
  BY <1>1 DEF NoteOnce

(* An observation, noted one entry after the other.                          *)
LEMMA ObserveFold ==
  ASSUME NEW A, NEW q \in Seq(A), NEW ts
  PROVE  \E h : /\ h[0] = ts
                /\ \A i \in 1..Len(q) : h[i] = Note(h[i - 1], q[i])
                /\ Observe(ts, q) = h[Len(q)]
<1> DEFINE Body(f) == [s \in SUBSET DOMAIN q |->
                         IF s = {} THEN ts ELSE NoteOnce(f[s \ {Max(s)}], q[Max(s)])]
           iter == CHOOSE f : f = Body(f)
<1>1. \A f : Body(f) = FoldStep(f, "note", ts, q, DOMAIN q)
  BY DEF FoldStep, Take
<1>2. \E f : f = Body(f)
  <2>1. DOMAIN q = 1..Len(q) /\ Len(q) \in Nat
    OBVIOUS
  <2>2. \E f : f = FoldStep(f, "note", ts, q, DOMAIN q)
    BY ONLY <2>1, FoldExists
  <2> HIDE DEF Body
  <2> QED
    BY <1>1, <2>2
<1>3. iter = Body(iter)
  BY <1>2
<1>4. Observe(ts, q) = iter[DOMAIN q]
  BY DEF Observe, FoldLeft, MapThenFoldSet
<1> HIDE DEF iter, Body
<1>5. iter = FoldStep(iter, "note", ts, q, DOMAIN q)
  BY <1>1, <1>3
<1>6. PICK h : /\ h[0] = ts
               /\ \A i \in 1..Len(q) : h[i] = Take("note", h[i - 1], q[i])
               /\ iter[DOMAIN q] = h[Len(q)]
  BY <1>5, FoldSteps
<1> QED
  BY <1>4, <1>6, OnceIsNote DEF Take

-----------------------------------------------------------------------------
(* What changes, and what an observation adds to them.                       *)

Codes ==
  {"none"} \cup
    UNION {UNION {{e.code : e \in ToSet(p)} : p \in Plans[Scenario[s].charge]} : s \in Chosen}

Moment == [status : Statuses, code : Codes, at : Nat]

Transition == [from : Statuses \cup {"none"}, to : Statuses, code : Codes, at : Nat]

(* One history is the beginning of another.                                  *)
Below(a, b) == Len(a) <= Len(b) /\ \A i \in 1..Len(a) : a[i] = b[i]

(* Being the beginning of a sequence is transitive.                         *)
LEMMA BelowBelow ==
  ASSUME NEW A, NEW a \in Seq(A), NEW b \in Seq(A), NEW c \in Seq(A), Below(a, b), Below(b, c)
  PROVE  Below(a, c)
<1>1. Len(a) \in Nat /\ Len(b) \in Nat /\ Len(c) \in Nat
  OBVIOUS
<1>2. \A i \in 1..Len(a) : i \in 1..Len(b)
  BY <1>1 DEF Below
<1> QED
  BY <1>1, <1>2 DEF Below

(* The beginning of a sequence, as the community modules define it.         *)
LEMMA BelowIsPrefix ==
  ASSUME NEW A, NEW a \in Seq(A), NEW b \in Seq(A), Below(a, b)
  PROVE  IsPrefix(a, b)
<1>1. Len(a) \in Nat /\ Len(b) \in Nat /\ Len(a) <= Len(b)
  BY DEF Below
<1>2. SubSeq(a, 1, Len(a)) = [i \in 1..Len(a) |-> a[i]]
  BY <1>1
<1>3. SubSeq(b, 1, Len(a)) = [i \in 1..Len(a) |-> b[i]]
  BY <1>1
<1> QED
  BY <1>1, <1>2, <1>3 DEF IsPrefix, Below

(* The same length and beginning: the same history.                          *)
LEMMA BelowFull ==
  ASSUME NEW A, NEW a \in Seq(A), NEW b \in Seq(A), Below(a, b), Len(b) <= Len(a)
  PROVE  a = b
<1>1. Len(a) \in Nat /\ Len(b) \in Nat /\ Len(a) = Len(b)
  BY DEF Below
<1>2. a = [i \in 1..Len(a) |-> a[i]] /\ b = [i \in 1..Len(b) |-> b[i]]
  OBVIOUS
<1>3. \A i \in 1..Len(a) : a[i] = b[i]
  BY DEF Below
<1> QED
  BY <1>1, <1>2, <1>3

(* A status is none of the words for its absence.                            *)
LEMMA NoneIsNoStatus == "none" \notin Statuses
  BY DEF Statuses, Settled

(* An entry is one more transition, or says what the last one said.          *)
LEMMA ChangeStep ==
  ASSUME NEW ts \in Seq(Transition), NEW e \in Moment
  PROVE  LET new == Change(ts, e)
         IN /\ new \in Seq(Transition) /\ LastTo(new) = e.status /\ Below(ts, new)
            /\ LastTo(ts) = e.status => new = ts
            /\ LastTo(ts) # e.status =>
                 /\ Len(new) = Len(ts) + 1
                 /\ new[Len(ts) + 1].to = e.status /\ new[Len(ts) + 1].at = e.at
<1>1. e.status \in Statuses /\ e.code \in Codes /\ e.at \in Nat
  BY DEF Moment
<1>2. LastTo(ts) \in Statuses \cup {"none"}
  <2>1. CASE ts = <<>>
    BY <2>1 DEF LastTo
  <2>2. CASE ts # <<>>
    <3>1. Len(ts) \in 1..Len(ts)
      BY <2>2
    <3>2. ts[Len(ts)] \in Transition
      BY <3>1
    <3> QED
      BY <2>2, <3>2, NoneIsNoStatus DEF LastTo, Last, Transition
  <2> QED
    BY <2>1, <2>2
<1>3. CASE LastTo(ts) = e.status
  BY <1>3 DEF Change, Below
<1>4. CASE LastTo(ts) # e.status
  <2> DEFINE t == [from |-> LastTo(ts), to |-> e.status, code |-> e.code, at |-> e.at]
             new == Append(ts, t)
  <2>1. t \in Transition
    BY <1>1, <1>2 DEF Transition
  <2>2. Change(ts, e) = new
    BY <1>4 DEF Change
  <2>3. /\ new \in Seq(Transition) /\ Len(new) = Len(ts) + 1 /\ Len(ts) \in Nat
        /\ new[Len(ts) + 1] = t
        /\ \A i \in 1..Len(ts) : new[i] = ts[i]
    BY <2>1
  <2>4. t.to = e.status /\ t.at = e.at
    OBVIOUS
  <2> HIDE DEF new, t
  <2>5. new # <<>>
    BY <2>3
  <2>6. LastTo(new) = e.status
    BY <2>3, <2>4, <2>5 DEF LastTo, Last
  <2>7. Below(ts, new)
    BY <2>3 DEF Below
  <2> QED
    BY <1>4, <2>2, <2>3, <2>4, <2>6, <2>7
<1> QED
  BY <1>3, <1>4

(* g lists the changes of ever longer beginnings of a history.               *)
Lists(g, q) ==
  g[0] = <<>> /\ \A i \in 1..Len(q) : g[i] = Change(g[i - 1], q[i])

(* They end with the last status, tell of nothing but entries, and of every
   status and every change.                                                  *)
Listed(g, q, i) ==
  /\ g[i] \in Seq(Transition)
  /\ i = 0 => g[i] = <<>> /\ LastTo(g[i]) = "none"
  /\ i > 0 => LastTo(g[i]) = q[i].status
  /\ \A n \in 1..Len(g[i]) :
       \E j \in 1..i : g[i][n].to = q[j].status /\ g[i][n].at = q[j].at
  /\ \A j \in 1..i : \E n \in 1..Len(g[i]) : g[i][n].to = q[j].status
  /\ \A j \in 1..i : (j > 1 => q[j - 1].status # q[j].status) =>
       \E n \in 1..Len(g[i]) : g[i][n].to = q[j].status /\ g[i][n].at = q[j].at

(* One more moment is listed: at most one change is added.                  *)
LEMMA ListedNext ==
  ASSUME NEW q \in Seq(Moment), NEW g, Lists(g, q), NEW i \in Nat, i + 1 <= Len(q),
         Listed(g, q, i)
  PROVE  Listed(g, q, i + 1) /\ Below(g[i], g[i + 1])
<1> DEFINE e == q[i + 1]
           new == g[i + 1]
           old == g[i]
<1>1. i + 1 \in 1..Len(q) /\ Len(q) \in Nat /\ (i + 1) - 1 = i
  OBVIOUS
<1>2. e \in Moment /\ new = Change(old, e) /\ old \in Seq(Transition)
  BY <1>1 DEF Lists, Listed
<1> HIDE DEF e, new, old
<1>3. /\ new \in Seq(Transition) /\ LastTo(new) = e.status /\ Below(old, new)
      /\ LastTo(old) = e.status => new = old
      /\ LastTo(old) # e.status =>
           /\ Len(new) = Len(old) + 1
           /\ new[Len(old) + 1].to = e.status /\ new[Len(old) + 1].at = e.at
  BY <1>2, ChangeStep
<1>4. Len(old) \in Nat /\ Len(new) \in Nat /\ Len(old) <= Len(new)
      /\ \A n \in 1..Len(old) : n \in 1..Len(new) /\ new[n] = old[n]
  BY <1>2, <1>3 DEF Below
<1>5. \A j \in 1..(i + 1) : j \in 1..i \/ j = i + 1
  OBVIOUS
<1>6. \A n \in 1..Len(new) : \E j \in 1..(i + 1) : new[n].to = q[j].status /\ new[n].at = q[j].at
  <2> SUFFICES ASSUME NEW n \in 1..Len(new)
               PROVE  \E j \in 1..(i + 1) : new[n].to = q[j].status /\ new[n].at = q[j].at
    OBVIOUS
  <2>1. CASE n \in 1..Len(old)
    <3>1. PICK j \in 1..i : old[n].to = q[j].status /\ old[n].at = q[j].at
      BY <2>1 DEF Listed, old
    <3> QED
      BY <3>1, <2>1, <1>4
  <2>2. CASE n \notin 1..Len(old)
    <3>1. LastTo(old) # e.status
      BY <2>2, <1>3
    <3>2. n = Len(old) + 1
      BY <2>2, <3>1, <1>3, <1>4
    <3>3. i + 1 \in 1..(i + 1)
      OBVIOUS
    <3> QED
      BY <3>1, <3>2, <3>3, <1>3 DEF e
  <2> QED
    BY <2>1, <2>2
<1>7. \A j \in 1..(i + 1) : \E n \in 1..Len(new) : new[n].to = q[j].status
  <2> SUFFICES ASSUME NEW j \in 1..(i + 1)
               PROVE  \E n \in 1..Len(new) : new[n].to = q[j].status
    OBVIOUS
  <2>1. CASE j \in 1..i
    <3>1. PICK n \in 1..Len(old) : old[n].to = q[j].status
      BY <2>1 DEF Listed, old
    <3> QED
      BY <3>1, <1>4
  <2>2. CASE j = i + 1
    <3>1. new # <<>>
      BY <1>2, <1>3, NoneIsNoStatus DEF LastTo, Moment
    <3>2. Len(new) \in 1..Len(new) /\ new[Len(new)].to = e.status
      BY <3>1, <1>3, EmptySeq DEF LastTo, Last
    <3> QED
      BY <2>2, <3>2 DEF e
  <2> QED
    BY <2>1, <2>2, <1>5
<1>8. ASSUME NEW j \in 1..(i + 1), j > 1 => q[j - 1].status # q[j].status
      PROVE  \E n \in 1..Len(new) : new[n].to = q[j].status /\ new[n].at = q[j].at
  <2>1. CASE j \in 1..i
    <3>1. PICK n \in 1..Len(old) : old[n].to = q[j].status /\ old[n].at = q[j].at
      BY <2>1, <1>8 DEF Listed, old
    <3> QED
      BY <3>1, <1>4
  <2>2. CASE j = i + 1
    <3>1. LastTo(old) # e.status
      <4>1. CASE i = 0
        BY <4>1, <1>2, NoneIsNoStatus DEF Listed, old, Moment
      <4>2. CASE i > 0
        BY <4>2, <2>2, <1>8 DEF Listed, old, e
      <4> QED
        BY <4>1, <4>2
    <3>2. Len(old) + 1 \in 1..Len(new)
      BY <3>1, <1>3, <1>4
    <3> QED
      BY <2>2, <3>1, <3>2, <1>3 DEF e
  <2> QED
    BY <2>1, <2>2, <1>5
<1>9. Listed(g, q, i + 1)
  BY <1>3, <1>6, <1>7, <1>8 DEF Listed, new, e
<1> QED
  BY <1>3, <1>9 DEF old, new

(* A list of the changes of every beginning, to the end of the history.     *)
LEMMA AllListed ==
  ASSUME NEW q \in Seq(Moment), NEW g, Lists(g, q)
  PROVE  \A i \in 0..Len(q) : Listed(g, q, i)
<1> DEFINE Right == {i \in Nat : i <= Len(q) => Listed(g, q, i)}
<1>1. Len(q) \in Nat
  OBVIOUS
<1>2. 0 \in Right
  <2>1. g[0] = <<>>
    BY DEF Lists
  <2>2. g[0] \in Seq(Transition) /\ Len(g[0]) = 0 /\ LastTo(g[0]) = "none"
    BY <2>1 DEF LastTo
  <2>3. 1..0 = {}
    OBVIOUS
  <2>4. Listed(g, q, 0)
    BY <2>1, <2>2, <2>3 DEF Listed
  <2> QED
    BY <2>4
<1>3. ASSUME NEW i \in Nat, i \in Right PROVE i + 1 \in Right
  BY <1>1, <1>3, ListedNext
<1> HIDE DEF Right
<1>4. Nat \subseteq Right
  BY <1>2, <1>3, NatSet
<1> QED
  BY <1>1, <1>4 DEF Right

(* They only grow.                                                           *)
LEMMA ListGrows ==
  ASSUME NEW q \in Seq(Moment), NEW g, Lists(g, q),
         NEW i \in 0..Len(q), NEW j \in i..Len(q)
  PROVE  Below(g[i], g[j])
<1> DEFINE Right == {n \in Nat : i + n <= Len(q) => Below(g[i], g[i + n])}
<1>1. Len(q) \in Nat /\ i \in Nat /\ \A k \in 0..Len(q) : Listed(g, q, k) /\ g[k] \in Seq(Transition)
  <2>1. \A k \in 0..Len(q) : Listed(g, q, k)
    BY AllListed
  <2>2. \A k : Listed(g, q, k) => g[k] \in Seq(Transition)
    BY DEF Listed
  <2> QED
    BY <2>1, <2>2
<1>2. 0 \in Right
  BY <1>1 DEF Below
<1>3. ASSUME NEW n \in Nat, n \in Right PROVE n + 1 \in Right
  <2> SUFFICES ASSUME i + (n + 1) <= Len(q) PROVE Below(g[i], g[i + (n + 1)])
    OBVIOUS
  <2>1. /\ i + n \in Nat /\ (i + n) + 1 = i + (n + 1) /\ i + n \in 0..Len(q)
        /\ i + (n + 1) \in 0..Len(q) /\ i + n <= Len(q)
    BY <1>1
  <2>2. Below(g[i + n], g[(i + n) + 1])
    BY <1>1, <2>1, ListedNext
  <2>3. Below(g[i], g[i + n])
    BY <1>3, <2>1
  <2> QED
    BY <1>1, <2>1, <2>2, <2>3, BelowBelow
<1> HIDE DEF Right
<1>4. Nat \subseteq Right
  BY <1>2, <1>3, NatSet
<1>5. j - i \in Nat /\ i + (j - i) = j /\ j <= Len(q)
  BY <1>1
<1>6. j - i \in Right
  BY <1>4, <1>5
<1>7. i + (j - i) <= Len(q) => Below(g[i], g[i + (j - i)])
  BY <1>6 DEF Right
<1> QED
  BY <1>5, <1>7

(* Two lists agree on the beginning their histories share.                  *)
LEMMA ListsAgree ==
  ASSUME NEW q \in Seq(Moment), NEW r \in Seq(Moment), Below(r, q), NEW g, Lists(g, q), NEW f, Lists(f, r)
  PROVE  \A i \in 0..Len(r) : f[i] = g[i]
<1> DEFINE Right == {i \in Nat : i <= Len(r) => f[i] = g[i]}
<1>1. Len(q) \in Nat /\ Len(r) \in Nat /\ Len(r) <= Len(q)
  BY DEF Below
<1>2. 0 \in Right
  BY DEF Lists
<1>3. ASSUME NEW i \in Nat, i \in Right PROVE i + 1 \in Right
  <2> SUFFICES ASSUME i + 1 <= Len(r) PROVE f[i + 1] = g[i + 1]
    OBVIOUS
  <2>1. i + 1 \in 1..Len(r) /\ i + 1 \in 1..Len(q) /\ (i + 1) - 1 = i
    BY <1>1
  <2>2. r[i + 1] = q[i + 1] /\ f[i] = g[i]
    BY <1>1, <1>3, <2>1 DEF Below
  <2>3. f[i + 1] = Change(f[i], r[i + 1]) /\ g[i + 1] = Change(g[i], q[i + 1])
    BY <2>1 DEF Lists
  <2> QED
    BY <2>2, <2>3
<1> HIDE DEF Right
<1>4. Nat \subseteq Right
  BY <1>2, <1>3, NatSet
<1> QED
  BY <1>1, <1>4 DEF Right

(* The changes of a beginning are on the list of the whole.                  *)
LEMMA ChangesOfBeginning ==
  ASSUME NEW q \in Seq(Moment), NEW r \in Seq(Moment), Below(r, q), NEW g, Lists(g, q)
  PROVE  Changes(r) = g[Len(r)]
<1>1. PICK f : Lists(f, r) /\ Changes(r) = f[Len(r)]
  <2>1. PICK f : /\ f[0] = <<>>
                 /\ \A i \in 1..Len(r) : f[i] = Change(f[i - 1], r[i])
                 /\ Changes(r) = f[Len(r)]
    BY ChangesFold
  <2> QED
    BY <2>1 DEF Lists
<1>2. Len(r) \in 0..Len(r)
  OBVIOUS
<1> QED
  BY <1>1, <1>2, ListsAgree

(* A sequence begins with itself.                                           *)
LEMMA BelowItself ==
  ASSUME NEW A, NEW q \in Seq(A)
  PROVE  Below(q, q)
BY DEF Below

(* A history has a list, and it ends in the changes of the whole.           *)
LEMMA SomeList ==
  ASSUME NEW q \in Seq(Moment)
  PROVE  \E g : Lists(g, q) /\ Changes(q) = g[Len(q)]
<1>1. PICK f : /\ f[0] = <<>>
               /\ \A i \in 1..Len(q) : f[i] = Change(f[i - 1], q[i])
               /\ Changes(q) = f[Len(q)]
  BY ChangesFold
<1> QED
  BY <1>1 DEF Lists

(* As a history goes on, its changes only become more.                       *)
LEMMA ChangesGrow ==
  ASSUME NEW q \in Seq(Moment), NEW r \in Seq(Moment), Below(r, q)
  PROVE  Changes(r) \in Seq(Transition) /\ Below(Changes(r), Changes(q))
<1>1. PICK g : Lists(g, q) /\ Changes(q) = g[Len(q)]
  BY SomeList
<1>2. Changes(r) = g[Len(r)]
  BY <1>1, ChangesOfBeginning
<1>3. Len(r) \in 0..Len(q) /\ Len(q) \in Len(r)..Len(q)
  BY DEF Below
<1>4. Below(g[Len(r)], g[Len(q)])
  BY <1>1, <1>3, ListGrows
<1>5. Listed(g, q, Len(r))
  BY <1>1, <1>3, AllListed
<1>6. g[Len(r)] \in Seq(Transition)
  BY <1>5 DEF Listed
<1> QED
  BY <1>1, <1>2, <1>4, <1>6

(* They tell the last status, every status and nothing else.                 *)
LEMMA ChangesTell ==
  ASSUME NEW q \in Seq(Moment)
  PROVE  /\ Changes(q) \in Seq(Transition)
         /\ q = <<>> => Changes(q) = <<>>
         /\ q # <<>> => LastTo(Changes(q)) = Last(q).status
         /\ \A i \in 1..Len(q) : \E n \in 1..Len(Changes(q)) : Changes(q)[n].to = q[i].status
         /\ \A n \in 1..Len(Changes(q)) : \E i \in 1..Len(q) : Changes(q)[n].to = q[i].status
<1>1. PICK g : Lists(g, q) /\ Changes(q) = g[Len(q)]
  BY SomeList
<1>2. Len(q) \in Nat /\ Len(q) \in 0..Len(q) /\ (q = <<>> <=> Len(q) = 0)
  OBVIOUS
<1>3. Listed(g, q, Len(q))
  BY <1>1, <1>2, AllListed
<1>4. /\ Changes(q) \in Seq(Transition)
      /\ Len(q) = 0 => Changes(q) = <<>>
      /\ Len(q) > 0 => LastTo(Changes(q)) = q[Len(q)].status
      /\ \A i \in 1..Len(q) : \E n \in 1..Len(Changes(q)) : Changes(q)[n].to = q[i].status
  BY <1>1, <1>3 DEF Listed
<1>5. ASSUME NEW n \in 1..Len(Changes(q))
      PROVE  \E i \in 1..Len(q) : Changes(q)[n].to = q[i].status
  BY <1>1, <1>3 DEF Listed
<1> QED
  BY <1>2, <1>4, <1>5 DEF Last

(* Entries that agree in status and time belong to one stay in that status.  *)
Tidy(h) ==
  \A i, j \in 1..Len(h) :
    i < j /\ h[i].status = h[j].status /\ h[i].at = h[j].at => h[j - 1].status = h[j].status

(* A status that was repeated is the one the history is at.                  *)
Settling(h) ==
  \A j \in 2..Len(h) : h[j].status = h[j - 1].status => h[Len(h)].status = h[j].status

(* What was noted of a beginning, and then of the whole, is the changes of
   the whole: nothing is noted twice and nothing is left out.                *)
LEMMA Reobserved ==
  ASSUME NEW s \in Seq(Moment), NEW h \in Seq(Moment), Below(h, s), Tidy(s), Settling(h)
  PROVE  Observe(Changes(h), s) = Changes(s)
<1> DEFINE k == Len(h)
<1>1. PICK g : Lists(g, s) /\ Changes(s) = g[Len(s)]
  BY SomeList
<1>2. Changes(h) = g[k]
  BY <1>1, ChangesOfBeginning
<1>3. PICK o : /\ o[0] = g[k]
               /\ \A i \in 1..Len(s) : o[i] = Note(o[i - 1], s[i])
               /\ Observe(Changes(h), s) = o[Len(s)]
  <2>1. \E o : /\ o[0] = Changes(h)
               /\ \A i \in 1..Len(s) : o[i] = Note(o[i - 1], s[i])
               /\ Observe(Changes(h), s) = o[Len(s)]
    BY ONLY s \in Seq(Moment), ObserveFold
  <2> QED
    BY <1>2, <2>1
<1>4. /\ k \in 0..Len(s) /\ Len(s) \in Nat /\ k \in Nat
      /\ \A i \in 1..k : h[i] = s[i]
  BY DEF Below
<1>5. \A i \in 0..Len(s) : Listed(g, s, i)
  BY <1>1, AllListed
<1> HIDE DEF k
<1> DEFINE Right == {j \in Nat : j <= Len(s) => o[j] = IF j <= k THEN g[k] ELSE g[j]}
<1>6. 0 \in Right
  BY <1>3, <1>4
<1>7. ASSUME NEW j \in Nat, j \in Right PROVE j + 1 \in Right
  <2> SUFFICES ASSUME j + 1 <= Len(s)
               PROVE  o[j + 1] = IF j + 1 <= k THEN g[k] ELSE g[j + 1]
    OBVIOUS
  <2> DEFINE e == s[j + 1]
  <2>1. /\ j + 1 \in 1..Len(s) /\ (j + 1) - 1 = j /\ j \in 0..Len(s)
        /\ o[j] = IF j <= k THEN g[k] ELSE g[j]
    BY <1>4, <1>7
  <2>2. o[j + 1] = Note(o[j], e)
    BY <1>3, <2>1
  <2>3. g[j + 1] = Change(g[j], e)
    BY <1>1, <2>1 DEF Lists
  <2>4. CASE j + 1 <= k
    <3>1. o[j] = g[k] /\ j + 1 \in 1..k /\ k > 0
      BY <2>1, <2>4, <1>4
    <3>2. Listed(g, s, k)
      BY <1>5, <1>4
    <3>3. CASE j + 1 > 1 => s[j].status # s[j + 1].status
      <4>1. PICK n \in 1..Len(g[k]) : g[k][n].to = e.status /\ g[k][n].at = e.at
        BY <2>1, <3>1, <3>2, <3>3 DEF Listed
      <4>2. n \in DOMAIN g[k]
        BY <3>2, <4>1 DEF Listed
      <4> HIDE DEF e
      <4>3. Known(g[k], e)
        BY <4>1, <4>2 DEF Known
      <4> QED
        BY <2>2, <2>4, <3>1, <4>3 DEF Note
    <3>4. CASE j + 1 > 1 /\ s[j].status = s[j + 1].status
      <4>1. j + 1 \in 2..k /\ j \in 1..k
        BY <3>1, <3>4, <1>4
      <4>2. h[k].status = h[j + 1].status
        BY <1>4, <2>1, <3>4, <4>1 DEF Settling, k
      <4>3. s[k].status = e.status
        BY <1>4, <3>1, <4>2
      <4>4. LastTo(g[k]) = e.status
        BY <3>1, <3>2, <4>3 DEF Listed
      <4> HIDE DEF e
      <4>5. Note(g[k], e) = g[k]
        BY <4>4 DEF Note, Change
      <4> QED
        BY <2>2, <2>4, <3>1, <4>5
    <3> QED
      BY <3>3, <3>4
  <2>5. CASE ~ (j + 1 <= k)
    <3>1. o[j] = g[j]
      BY <2>1, <2>5, <1>4
    <3>2. Listed(g, s, j)
      BY <1>5, <2>1
    <3>3. CASE ~ Known(g[j], e)
      <4> HIDE DEF e
      <4> QED
        BY <2>2, <2>3, <2>5, <3>1, <3>3 DEF Note
    <3>4. CASE Known(g[j], e)
      <4>1. PICK n \in DOMAIN g[j] : g[j][n].to = e.status /\ g[j][n].at = e.at
        BY <3>4 DEF Known
      <4>2. n \in 1..Len(g[j])
        <5>1. g[j] \in Seq(Transition)
          BY <3>2 DEF Listed
        <5>2. DOMAIN g[j] = 1..Len(g[j])
          BY ONLY <5>1
        <5> QED
          BY <4>1, <5>2
      <4>3. PICK i \in 1..j : g[j][n].to = s[i].status /\ g[j][n].at = s[i].at
        BY <3>2, <4>2 DEF Listed
      <4>4. /\ i \in 1..Len(s) /\ i < j + 1 /\ j > 0
            /\ s[i].status = s[j + 1].status /\ s[i].at = s[j + 1].at
        BY <1>4, <2>1, <4>1, <4>3
      <4>5. s[j].status = e.status
        BY <2>1, <4>4 DEF Tidy
      <4>6. LastTo(g[j]) = e.status
        BY <3>2, <4>4, <4>5 DEF Listed
      <4> HIDE DEF e
      <4>7. Change(g[j], e) = g[j] /\ Note(g[j], e) = g[j]
        BY <4>6 DEF Note, Change
      <4> QED
        BY <2>2, <2>3, <2>5, <3>1, <4>7
    <3> QED
      BY <3>3, <3>4
  <2> QED
    BY <2>4, <2>5
<1> HIDE DEF Right
<1>8. Nat \subseteq Right
  BY <1>6, <1>7, NatSet
<1>9. o[Len(s)] = g[Len(s)]
  BY <1>4, <1>8 DEF Right
<1> QED
  BY <1>1, <1>3, <1>9

-----------------------------------------------------------------------------
(* The course of a run: which steps lead where, and what has been done when. *)

Served(s) == <<s, 1>> \in keys

Originated == Served("charge") \/ Served("payout")

CallShape ==
  /\ call = [st |-> call.st, attempt |-> call.attempt, seen |-> call.seen]
  /\ call.st = "none" => call = NoCall

(* A scenario takes its own steps only, and is done when it has a verdict.   *)
Path ==
  /\ id \in Chosen /\ step \in Steps \cup {"done"}
  /\ step = "done" => call = NoCall
  /\ verdict # "none" <=> step = "done"
  /\ step \in {"hold", "confirm", "release"} => id = "h"
  /\ step = "cancel" => id = "i"
  /\ step = "payout" => id = "payout"
  /\ step = "charge" => id # "payout"
  /\ id = "e" => step \in {"customer", "review", "paykey", "done"}

(* A step is left when the sandbox has served it, and served when it is
   there.                                                                    *)
Course ==
  /\ Served("charge") => id # "payout"
  /\ Served("payout") => id = "payout"
  /\ Originated => step \notin {"customer", "review", "paykey"} /\ id # "e"
  /\ step \in {"hold", "confirm", "release", "cancel", "settle"} => Originated
  /\ step \in {"confirm", "release"} => Served("hold")
  /\ step = "settle" /\ id = "h" => Served("release")
  /\ step = "settle" /\ id = "i" => Served("cancel")
  /\ Served("hold") => id = "h" /\ step \in {"hold", "confirm", "release", "settle", "done"}
  /\ Served("release") => Served("hold") /\ step \in {"release", "settle", "done"}
  /\ Served("cancel") => id = "i" /\ step \in {"cancel", "settle", "done"}

(* An answer that says so is true, and what is only read is never refused.   *)
Answers ==
  /\ call.st = "ok" /\ ~Reads => Served(step)
  /\ call.st = "refused" => ~Reads

(* The sandbox and the network leave the runner where it is.                 *)
Attempts == Sandboxed \/ Wait \/ Retry \/ StartCall \/ PollCycle \/ TurnCome

(* An attempt at a call leaves the path alone; only an honoured one changes the
   payment API.                                                             *)
LEMMA AttemptsStay ==
  ASSUME CallShape, Path, Answers, Attempts
  PROVE  /\ UNCHANGED <<id, step, verdict, evidence>>
         /\ CallShape' /\ Answers' /\ call'.st # "none" /\ step # "done"
         /\ \/ UNCHANGED <<keys, made, customer, charge>>
            \/ Honour /\ keys' = keys \cup {<<step, 1>>}
<1>1. ASSUME NEW r \in {"ok", "refused"}, Reply(r)
      PROVE  CallShape' /\ call'.st \in {r, "broken", "garbled"}
  <2>1. PICK st \in {r, "broken", "garbled"} :
          call' = [call EXCEPT !.st = st,
                     !.seen = IF charge'.mode = "none" THEN <<>> ELSE History(charge', now)]
    BY <1>1 DEF Reply
  <2> DEFINE seen == IF charge'.mode = "none" THEN <<>> ELSE History(charge', now)
  <2>2. call' = [call EXCEPT !.st = st, !.seen = seen]
    BY <2>1
  <2> HIDE DEF seen
  <2>3. call' = [st |-> st, attempt |-> call.attempt, seen |-> seen]
    BY <2>2 DEF CallShape
  <2> QED
    BY <2>3 DEF CallShape
<1>2. ASSUME NEW st \in {"queued", "sent", "broken"}, NEW n, NEW seen,
             call' = [st |-> st, attempt |-> n, seen |-> seen]
      PROVE  CallShape' /\ call'.st = st
  BY <1>2 DEF CallShape
<1>3. step = "done" => call.st = "none" /\ step \notin Steps
  BY DEF Path, NoCall, Steps, Created, Actions, PollSteps
<1>4. UNCHANGED <<id, step>> => Reads' = Reads
  BY DEF Reads, GetCustomerReview, GetCharge, GetPayout
<1>5. CASE Honour
  <2>1. CallShape' /\ call'.st \in {"ok", "broken", "garbled"}
    BY <1>1, <1>5 DEF Honour
  <2>2. keys' = keys \cup {<<step, 1>>}
    BY <1>5 DEF Honour, Key
  <2>3. UNCHANGED <<id, step, verdict, evidence>> /\ call.st = "sent"
    BY <1>5 DEF Honour
  <2>4. Answers'
    BY <2>1, <2>2, <2>3 DEF Answers, Served
  <2> QED
    BY <1>3, <1>5, <2>1, <2>2, <2>3, <2>4
<1>6. CASE Repeat
  <2>1. CallShape' /\ call'.st \in {"ok", "broken", "garbled"}
    BY <1>1, <1>6 DEF Repeat
  <2>2. UNCHANGED <<id, step, verdict, evidence, keys, made, customer, charge>> /\ call.st = "sent"
    BY <1>6 DEF Repeat, sandboxVars
  <2>3. ~Reads => Served(step)
    BY <1>6 DEF Repeat, Honoured, Key, Served
  <2>4. Answers'
    BY <1>4, <2>1, <2>2, <2>3 DEF Answers, Served
  <2> QED
    BY <1>3, <2>1, <2>2, <2>4
<1>7. CASE Refuse
  <2>1. CallShape' /\ call'.st \in {"refused", "broken", "garbled"}
    BY <1>1, <1>7 DEF Refuse
  <2>2. /\ UNCHANGED <<id, step, verdict, evidence, keys, made, customer, charge>>
        /\ call.st = "sent" /\ ~Reads
    BY <1>7 DEF Refuse, sandboxVars
  <2>3. Answers'
    BY <1>4, <2>1, <2>2 DEF Answers, Served
  <2> QED
    BY <1>3, <2>1, <2>2, <2>3
<1>8. CASE Drop \/ Retry \/ StartCall \/ PollCycle \/ TurnCome
  <2>1. UNCHANGED <<id, step, verdict, evidence, keys, made, customer, charge>>
    BY <1>8 DEF Drop, Retry, StartCall, PollCycle, TurnCome, sandboxVars
  <2>2. CallShape' /\ call'.st \in {"queued", "sent", "broken"}
    <3>1. CASE Drop
      <4>1. call' = [st |-> "broken", attempt |-> call.attempt, seen |-> call.seen]
        BY <3>1 DEF Drop, CallShape
      <4> QED
        BY <1>2, <4>1
    <3>2. CASE Retry
      <4>1. call' = [st |-> "sent", attempt |-> call.attempt + 1, seen |-> <<>>]
        BY <3>2 DEF Retry, CallShape
      <4> QED
        BY <1>2, <4>1
    <3>3. CASE StartCall \/ PollCycle
      <4>1. PICK st \in {"queued", "sent"} : Send(st)
        BY <3>3 DEF StartCall, PollCycle
      <4>2. call' = [st |-> st, attempt |-> 1, seen |-> <<>>]
        BY <4>1 DEF Send, NoCall
      <4> QED
        BY <1>2, <4>2
    <3>4. CASE TurnCome
      <4>1. call' = [st |-> "sent", attempt |-> call.attempt, seen |-> call.seen]
        BY <3>4 DEF TurnCome, CallShape
      <4> QED
        BY <1>2, <4>1
    <3> QED
      BY <1>8, <3>1, <3>2, <3>3, <3>4
  <2>3. step # "done"
    BY <1>3, <1>8 DEF Drop, Retry, StartCall, PollCycle, TurnCome, PollSteps
  <2>4. Answers'
    BY <2>2 DEF Answers
  <2> QED
    BY <2>1, <2>2, <2>3, <2>4
<1>9. CASE Wait
  <2>1. /\ UNCHANGED <<id, step, verdict, evidence, keys, made, customer, charge, call>>
        /\ call.st # "none"
    BY <1>9 DEF Wait, sandboxVars
  <2>2. Answers' /\ CallShape'
    BY <1>4, <2>1 DEF Answers, CallShape, Served, NoCall
  <2> QED
    BY <1>3, <2>1, <2>2
<1> QED
  BY <1>5, <1>6, <1>7, <1>8, <1>9 DEF Attempts, Sandboxed

(* The runner's steps: it stays in a poll loop, goes on, or ends the run.    *)
Moves == PollTimeout \/ Succeed \/ NotRefused \/ PollAnswer \/ Fail

GoesOn ==
  \/ step \in PollSteps /\ step' = step
  \/ step = "confirm" /\ step' = "release"
  \/ call.st = "ok" /\ step \notin PollSteps /\ ~Deliberate /\ step' = Following

(* A move of the runner leaves the payment API alone, and leads on or to the end. *)
LEMMA MovesLead ==
  ASSUME CallShape, Path, Moves
  PROVE  /\ UNCHANGED <<id, now, lag, keys, made, customer, charge>>
         /\ call' = NoCall /\ step \in Steps
         /\ \/ step' = "done" /\ verdict' \in {"passed", "failed"}
            \/ GoesOn /\ verdict' = verdict
<1>1. UNCHANGED <<id, now, lag, keys, made, customer, charge>>
  BY DEF Moves, PollTimeout, Succeed, NotRefused, PollAnswer, Fail, Taken, sandboxVars
<1>2. call' = NoCall
  BY DEF Moves, PollTimeout, Succeed, NotRefused, PollAnswer, Fail, Taken, CallShape
<1>3. step \in Steps
  <2>1. CASE PollTimeout
    BY <2>1 DEF PollTimeout, Steps
  <2>2. CASE Succeed \/ NotRefused \/ PollAnswer \/ Fail
    <3>1. call.st # "none"
      BY <2>2 DEF Succeed, NotRefused, PollAnswer, Fail
    <3> QED
      BY <3>1 DEF Path, NoCall
  <2> QED
    BY <2>1, <2>2 DEF Moves
<1>4. ASSUME Complete PROVE step' = "done" /\ verdict' \in {"passed", "failed"}
  BY <1>4 DEF Complete
<1>5. ASSUME step \in PollSteps, AfterPoll
      PROVE  \/ step' = "done" /\ verdict' \in {"passed", "failed"}
             \/ GoesOn /\ verdict' = verdict
  BY <1>5, <1>4 DEF AfterPoll, GoTo, GoesOn
<1>6. \/ step' = "done" /\ verdict' \in {"passed", "failed"}
      \/ GoesOn /\ verdict' = verdict
  <2>1. CASE PollTimeout
    BY <2>1, <1>5 DEF PollTimeout
  <2>2. CASE Succeed
    BY <2>2 DEF Succeed, GoTo, GoesOn
  <2>3. CASE NotRefused
    BY <2>3, <1>4 DEF NotRefused
  <2>4. CASE PollAnswer
    BY <2>4, <1>5 DEF PollAnswer, GoesOn
  <2>5. CASE Fail
    <3>1. PICK kind : Refusal(kind) \/ Missed(kind) \/ GiveUpPoll(kind) \/ GiveUp(kind)
      BY <2>5 DEF Fail
    <3>2. CASE Refusal(kind) \/ GiveUp(kind)
      BY <3>2, <1>4 DEF Refusal, GiveUp
    <3>3. CASE Missed(kind)
      BY <3>3 DEF Missed, GoesOn
    <3>4. CASE GiveUpPoll(kind)
      BY <3>4, <1>5 DEF GiveUpPoll
    <3> QED
      BY <3>1, <3>2, <3>3, <3>4
  <2> QED
    BY <2>1, <2>2, <2>3, <2>4, <2>5 DEF Moves
<1> QED
  BY <1>1, <1>2, <1>3, <1>6

(* A step is an attempt at the call in flight, or a move of the runner.     *)
LEMMA EveryStep ==
  ASSUME [Next]_vars
  PROVE  Attempts \/ Moves \/ UNCHANGED vars
BY DEF Next, Runner, Attempts, Moves

(* Where the next step of a scenario is.                                     *)
LEMMA FollowingIs ==
  ASSUME Path, step \in Steps, step \notin PollSteps
  PROVE  /\ Following \in Steps
         /\ step \in {"customer", "review"} <=> Following \in {"review", "paykey"}
         /\ Following # "customer"
         /\ step = "paykey" <=> Following \in {"charge", "payout"}
         /\ Following = "payout" => id = "payout"
         /\ Following = "charge" => id # "payout"
         /\ Following \in {"hold", "confirm"} => id = "h"
         /\ Following = "confirm" <=> step = "hold"
         /\ Following = "hold" => step = "charge"
         /\ Following = "cancel" => id = "i" /\ step = "charge"
         /\ Following = "settle" /\ id = "h" => step = "release"
         /\ Following = "settle" /\ id = "i" => step = "cancel"
         /\ Following # "release"
<1>1. CASE id = "payout"
  BY <1>1 DEF Following, PayoutFollowing, Path, Steps, Created, Actions, PollSteps
<1>2. CASE id # "payout"
  BY <1>2 DEF Following, Path, Steps, Created, Actions, PollSteps
<1> QED
  BY <1>1, <1>2


-----------------------------------------------------------------------------
(* Where the runner is, and what the sandbox has served.                     *)

Way == CallShape /\ Path /\ Course /\ Answers

(* The path of a run, at its start.                                         *)
LEMMA WayBegins == Init => Way
BY DEF Init, Way, CallShape, Path, Course, Answers, NoCall, Steps, Created, Served, Originated

(* The path of a run, step by step.                                         *)
LEMMA WayKept ==
  ASSUME Way, [Next]_vars
  PROVE  Way'
<1> USE DEF Way
<1>1. CASE Attempts
  <2>1. /\ UNCHANGED <<id, step, verdict>>
        /\ CallShape' /\ Answers' /\ call'.st # "none" /\ step # "done"
        /\ \/ UNCHANGED keys
           \/ Honour /\ keys' = keys \cup {<<step, 1>>}
    BY <1>1, AttemptsStay DEF evidence
  <2>2. Path'
    BY <2>1 DEF Path
  <2>3. \A s \in Steps : Served(s) => Served(s)'
    BY <2>1 DEF Served
  <2>4. ASSUME NEW s \in Steps, Served(s)' PROVE Served(s) \/ s = step
    BY <2>1, <2>4 DEF Served
  <2>5. Course'
    BY <2>1, <2>2, <2>3, <2>4 DEF Course, Path, Originated, Steps, Created, Actions, PollSteps
  <2> QED
    BY <2>1, <2>2, <2>5
<1>2. CASE Moves
  <2>1. /\ UNCHANGED <<id, keys>> /\ call' = NoCall /\ step \in Steps
        /\ \/ step' = "done" /\ verdict' \in {"passed", "failed"}
           \/ GoesOn /\ verdict' = verdict
    BY <1>2, MovesLead
  <2>2. CallShape' /\ Answers'
    BY <2>1 DEF CallShape, Answers, NoCall
  <2>3. \A s \in Steps : Served(s)' = Served(s)
    BY <2>1 DEF Served
  <2>4. Originated' = Originated
    BY <2>1 DEF Originated, Served
  <2>5. CASE step' = "done" /\ verdict' \in {"passed", "failed"}
    <3>2. Path'
      BY <2>1, <2>5 DEF Path
    <3>3. Course'
      BY <2>1, <2>3, <2>4, <2>5 DEF Course, Steps, Created, Actions, PollSteps
    <3> QED
      BY <2>2, <3>2, <3>3
  <2>6. CASE step \in PollSteps /\ step' = step /\ verdict' = verdict
    BY <2>1, <2>2, <2>3, <2>4, <2>6 DEF Path, Course, Steps, Created, Actions, PollSteps
  <2>7. CASE step = "confirm" /\ step' = "release" /\ verdict' = verdict
    BY <2>1, <2>2, <2>3, <2>4, <2>7 DEF Path, Course, Steps, Created, Actions, PollSteps
  <2>8. CASE /\ call.st = "ok" /\ step \notin PollSteps /\ ~Deliberate
             /\ step' = Following /\ verdict' = verdict
    <3>1. step # "review" => Served(step)
      BY <2>8 DEF Answers, Reads, GetCustomerReview, GetCharge, GetPayout
    <3>2. /\ step' \in Steps
          /\ step \in {"customer", "review"} <=> step' \in {"review", "paykey"}
          /\ step' # "customer"
          /\ step = "paykey" <=> step' \in {"charge", "payout"}
          /\ step' = "payout" => id = "payout"
          /\ step' = "charge" => id # "payout"
          /\ step' \in {"hold", "confirm"} => id = "h"
          /\ step' = "confirm" <=> step = "hold"
          /\ step' = "hold" => step = "charge"
          /\ step' = "cancel" => id = "i" /\ step = "charge"
          /\ step' = "settle" /\ id = "h" => step = "release"
          /\ step' = "settle" /\ id = "i" => step = "cancel"
          /\ step' # "release"
      BY <2>1, <2>8, FollowingIs
    <3>3. step' # "done" /\ verdict' = "none"
      BY <2>1, <2>8, <3>2 DEF Path, Steps, Created, Actions, PollSteps
    <3>4. Path'
      BY <2>1, <2>8, <3>2, <3>3 DEF Path, Deliberate, Steps, Created, Actions, PollSteps
    <3>5. Originated' => step' \notin {"customer", "review", "paykey"} /\ id' # "e"
      BY <2>1, <2>4, <3>2 DEF Course
    <3>6. step' \in {"hold", "confirm", "release", "cancel", "settle"} => Originated'
      BY <2>1, <2>4, <3>1, <3>2 DEF Course, Originated, Steps, Created, Actions, PollSteps
    <3>7. Course'
      BY <2>1, <2>3, <2>4, <3>1, <3>2, <3>5, <3>6 DEF Course, Steps, Created, Actions, PollSteps
    <3> QED
      BY <2>2, <3>4, <3>7
  <2> QED
    BY <2>1, <2>5, <2>6, <2>7, <2>8 DEF GoesOn
<1>3. CASE UNCHANGED vars
  <2>1. UNCHANGED <<id, step, call, keys, verdict>>
    BY <1>3 DEF vars, sandboxVars
  <2> QED
    BY <2>1 DEF CallShape, Path, Course, Answers, Served, Originated, Reads,
                GetCustomerReview, GetCharge, GetPayout
<1> QED
  BY <1>1, <1>2, <1>3, EveryStep

-----------------------------------------------------------------------------
(* Before the charge exists the runner only waited for answers; the release
   comes later than the confirmation was begun.                              *)
Timing ==
  /\ lag \in 0..MaxLag
  /\ step \in Created \cup {"review"} => now = lag
  /\ step = "confirm" => poll.start <= now /\ (call.st # "none" => poll.start < now)
  /\ step = "release" => poll.start < now

(* While a charge is confirmed, an answer or a failure keeps the loop's start. *)
LEMMA StaysInRecord ==
  ASSUME PollClock, step = "confirm", PollAnswer \/ Fail
  PROVE  poll' = poll \/ \E f, h : poll' = [poll EXCEPT !.fast = f, !.heard = h]
<1>1. AfterPoll => poll' = poll
  BY DEF AfterPoll, GoTo, PollSteps
<1>2. CASE PollAnswer
  <2>1. poll' = poll \/ \E f : poll' = [poll EXCEPT !.heard = TRUE, !.fast = f]
    BY <1>1, <1>2 DEF PollAnswer
  <2>2. ASSUME NEW f, poll' = [poll EXCEPT !.heard = TRUE, !.fast = f]
        PROVE  poll' = [poll EXCEPT !.fast = f, !.heard = TRUE]
    BY <2>2 DEF PollClock
  <2> QED
    BY <2>1, <2>2
<1>3. CASE Fail
  <2>1. poll' = poll \/ poll' = [poll EXCEPT !.heard = FALSE]
    BY <1>1, <1>3 DEF Fail, Refusal, Deliberate, Missed, GiveUpPoll, GiveUp, PollSteps
  <2>2. poll' = [poll EXCEPT !.heard = FALSE] => poll' = [poll EXCEPT !.fast = poll.fast, !.heard = FALSE]
    BY DEF PollClock
  <2> QED
    BY <2>1, <2>2
<1> QED
  BY <1>2, <1>3

(* A loop is left with its record, after an answer or at the hard timeout.   *)
LEMMA MovesPoll ==
  ASSUME PollClock, Path, Moves
  PROVE  /\ step = "confirm" => /\ poll'.start = poll.start
                                /\ step' = "release" /\ call.st = "none" => TimedOut
         /\ step # "confirm" /\ step' = "confirm" => poll'.start = now
<1>1. step = "confirm" => /\ poll'.start = poll.start
                          /\ step' = "release" /\ call.st = "none" => TimedOut
  <2> SUFFICES ASSUME step = "confirm"
               PROVE  /\ poll'.start = poll.start
                      /\ step' = "release" /\ call.st = "none" => TimedOut
    OBVIOUS
  <2>1. CASE PollTimeout
    BY <2>1 DEF PollTimeout, AfterPoll, GoTo, PollSteps
  <2>2. CASE Succeed \/ NotRefused
    BY <2>2 DEF Succeed, NotRefused, PollSteps, Deliberate
  <2>3. CASE PollAnswer \/ Fail
    <3>1. call.st # "none"
      BY <2>3 DEF PollAnswer, Fail
    <3>2. poll' = poll \/ \E f, h : poll' = [poll EXCEPT !.fast = f, !.heard = h]
      BY <2>3, StaysInRecord
    <3>3. poll'.start = poll.start
      BY <3>2 DEF PollClock
    <3> QED
      BY <3>1, <3>3
  <2> QED
    BY <2>1, <2>2, <2>3 DEF Moves
<1>2. step # "confirm" /\ step' = "confirm" => poll'.start = now
  <2> SUFFICES ASSUME step # "confirm", step' = "confirm" PROVE poll'.start = now
    OBVIOUS
  <2>1. Complete => step' = "done"
    BY DEF Complete
  <2>2. AfterPoll => step' = "done"
    BY <2>1 DEF AfterPoll
  <2>3. CASE Succeed
    <3>1. GoTo("confirm")
      BY <2>3 DEF Succeed, GoTo
    <3> QED
      BY <3>1 DEF GoTo, PollSteps
  <2>4. CASE PollTimeout \/ NotRefused \/ PollAnswer
    BY <2>1, <2>2, <2>4 DEF PollTimeout, NotRefused, PollAnswer
  <2>5. CASE Fail
    BY <2>1, <2>2, <2>5 DEF Fail, Refusal, Missed, GiveUpPoll, GiveUp
  <2> QED
    BY <2>3, <2>4, <2>5 DEF Moves
<1> QED
  BY <1>1, <1>2

(* Time goes on, by waiting for an answer or by sleeping before a poll.      *)
LEMMA TimingKept ==
  ASSUME PollClock, Way, Timing, [Next]_vars
  PROVE  Timing' /\ now <= now'
<1> USE PolicyAssumption DEF PollClock
<1>1. CASE Wait
  BY <1>1 DEF Wait, Timing
<1>2. CASE PollCycle
  <2>1. now' \in Nat /\ now' > now
    BY <1>2, SleepIsForward
  <2>2. UNCHANGED <<lag, step, poll>> /\ step \in PollSteps
    BY <1>2 DEF PollCycle
  <2> QED
    BY <2>1, <2>2 DEF Timing, PollSteps, Created
<1>3. CASE Sandboxed \/ Retry \/ StartCall \/ TurnCome
  <2>1. UNCHANGED <<now, lag, step, poll>>
    BY <1>3 DEF Sandboxed, Drop, Honour, Repeat, Refuse, Retry, StartCall, TurnCome
  <2>2. step = "confirm" => call.st # "none"
    BY <1>3 DEF Sandboxed, Drop, Honour, Repeat, Refuse, Retry, StartCall, TurnCome, PollSteps
  <2> QED
    BY <2>1, <2>2 DEF Timing
<1>4. CASE Moves
  <2>1. /\ UNCHANGED <<id, now, lag>> /\ call' = NoCall /\ step \in Steps
        /\ step' = "done" \/ GoesOn
    BY <1>4, MovesLead DEF Way
  <2>2. /\ step = "confirm" => /\ poll'.start = poll.start
                               /\ step' = "release" /\ call.st = "none" => TimedOut
        /\ step # "confirm" /\ step' = "confirm" => poll'.start = now
    BY <1>4, MovesPoll DEF Way
  <2>3. call'.st = "none"
    BY <2>1 DEF NoCall
  <2>4. step' \in Created \cup {"review"} => step \in Created \cup {"review"}
    <3>1. CASE GoesOn /\ step \notin PollSteps
      <4>1. step' = Following
        BY <3>1 DEF GoesOn, PollSteps
      <4>2. CASE Following \in {"review", "paykey", "charge", "payout"}
        BY <2>1, <3>1, <4>2, FollowingIs DEF Way, Created
      <4>3. CASE Following \notin {"review", "paykey", "charge", "payout"}
        BY <2>1, <3>1, <4>1, <4>3, FollowingIs DEF Way, Created
      <4> QED
        BY <4>2, <4>3
    <3>2. CASE step' = "done" \/ step \in PollSteps
      BY <2>1, <3>2 DEF GoesOn, PollSteps, Created
    <3> QED
      BY <2>1, <3>1, <3>2
  <2>5. step' = "confirm" => poll'.start <= now'
    BY <2>1, <2>2 DEF Timing
  <2>6. step' = "release" => poll'.start < now'
    <3> SUFFICES ASSUME step' = "release" PROVE poll'.start < now'
      OBVIOUS
    <3>1. step = "confirm"
      BY <2>1, FollowingIs DEF Way, GoesOn, PollSteps
    <3>2. poll.start < now
      BY <2>2, <3>1 DEF Timing, TimedOut
    <3> QED
      BY <2>1, <2>2, <3>1, <3>2
  <2> QED
    BY <2>1, <2>3, <2>4, <2>5, <2>6 DEF Timing
<1>5. CASE UNCHANGED vars
  BY <1>5 DEF vars, Timing
<1> QED
  BY <1>1, <1>2, <1>3, <1>4, <1>5, EveryStep DEF Attempts

-----------------------------------------------------------------------------
(* What the sandbox reports of a charge.                                     *)

(* A schedule is a sequence of entries.                                      *)
LEMMA OrderlyIs ==
  ASSUME NEW p, Orderly(p)
  PROVE  /\ Len(p) \in Nat \ {0} /\ DOMAIN p = 1..Len(p) /\ p[1].at = 0
         /\ \A i \in 1..Len(p) : /\ p[i] \in ToSet(p)
                                 /\ p[i] = Entry(p[i].status, p[i].code, p[i].at)
                                 /\ p[i].status \in Statuses \ {"on_hold"} /\ p[i].at \in Nat
<1>1. p \in Seq(ToSet(p)) /\ p # <<>>
  BY DEF Orderly
<1>2. Len(p) \in Nat /\ DOMAIN p = 1..Len(p) /\ \A i \in 1..Len(p) : p[i] \in ToSet(p)
  BY ONLY <1>1
<1>3. Len(p) # 0
  BY ONLY <1>1, EmptySeq
<1> QED
  BY <1>2, <1>3 DEF Orderly

(* The due entries are the first ones of the schedule, moved to its base.    *)
LEMMA ProjectedIs ==
  ASSUME NEW c, Orderly(c.schedule), c.base \in Nat, NEW t \in Nat,
         \A e \in ToSet(c.schedule) : e.code \in Codes
  PROVE  LET P == Projected(c, t)
         IN /\ P \in Seq(Moment) /\ Len(P) <= Len(c.schedule)
            /\ \A i \in 1..Len(P) : /\ P[i].status = c.schedule[i].status
                                    /\ P[i].at = c.schedule[i].at + c.base /\ P[i].at <= t
            /\ \A i \in 1..Len(c.schedule) : i > Len(P) => c.schedule[i].at + c.base > t
            /\ c.base <= t => P # <<>>
<1> DEFINE p == c.schedule
           due == {k \in DOMAIN p : p[k].at <= t - c.base}
           n == Max(due \cup {0})
           entry(i) == [p[i] EXCEPT !.at = @ + c.base]
           P == [i \in 1..n |-> entry(i)]
<1>1. /\ Len(p) \in Nat \ {0} /\ DOMAIN p = 1..Len(p) /\ p[1].at = 0
      /\ \A i \in 1..Len(p) : /\ p[i] \in ToSet(p)
                              /\ p[i] = Entry(p[i].status, p[i].code, p[i].at)
                              /\ p[i].status \in Statuses \ {"on_hold"} /\ p[i].at \in Nat
  BY OrderlyIs
<1>2. \A i, j \in 1..Len(p) : i < j => p[i].at <= p[j].at
  BY <1>1 DEF Orderly
<1>3. \A e \in ToSet(p) : e.code \in Codes
  OBVIOUS
<1> HIDE DEF p
<1>4. n \in due \cup {0} /\ \A k \in due \cup {0} : k <= n
  <2> DEFINE S == due \cup {0}
  <2>1. S \in SUBSET (0..Len(p)) /\ S # {} /\ Len(p) \in Nat
    BY <1>1
  <2> HIDE DEF S
  <2>2. Max(S) \in S /\ \A x \in S : x <= Max(S)
    BY ONLY <2>1, MaxIs
  <2> QED
    BY <2>2 DEF S
<1>5. n \in 0..Len(p)
  BY <1>1, <1>4
<1>6. \A k \in 1..Len(p) : k <= n <=> p[k].at + c.base <= t
  <2> SUFFICES ASSUME NEW k \in 1..Len(p) PROVE k <= n <=> p[k].at + c.base <= t
    OBVIOUS
  <2> HIDE DEF n
  <2>1. p[k].at \in Nat
    BY <1>1
  <2>2. k <= n => p[n].at <= t - c.base /\ p[n].at \in Nat /\ p[k].at <= p[n].at
    BY <1>1, <1>2, <1>4, <1>5
  <2>3. p[k].at + c.base <= t => k \in due
    BY <1>1, <2>1
  <2> QED
    BY <1>4, <2>1, <2>2, <2>3
<1>7. due = 1..n
  <2> HIDE DEF n
  <2>1. \A k \in 1..Len(p) : k \in due <=> p[k].at + c.base <= t
    BY <1>1
  <2>2. \A k : k \in due => k \in 1..Len(p)
    BY <1>1
  <2> QED
    BY <1>5, <1>6, <2>1, <2>2
<1>8. Projected(c, t) = P
  BY <1>7 DEF Projected, p
<1> HIDE DEF n, due
<1>9. ASSUME NEW i \in 1..n
      PROVE  /\ entry(i) \in Moment /\ entry(i).status = p[i].status
             /\ entry(i).at = p[i].at + c.base /\ entry(i).at <= t
  <2>1. i \in 1..Len(p)
    BY <1>5
  <2>2. /\ p[i] = [status |-> p[i].status, code |-> p[i].code, at |-> p[i].at]
        /\ p[i].status \in Statuses /\ p[i].code \in Codes /\ p[i].at \in Nat
    BY <1>1, <1>3, <2>1 DEF Entry
  <2>3. entry(i) = [status |-> p[i].status, code |-> p[i].code, at |-> p[i].at + c.base]
    BY <2>2
  <2>4. p[i].at + c.base <= t
    BY <1>6, <2>1
  <2> QED
    BY <2>2, <2>3, <2>4 DEF Moment
<1> HIDE DEF entry
<1>10. P \in Seq(Moment) /\ Len(P) = n /\ \A i \in 1..n : P[i] = entry(i)
  BY <1>5, <1>9
<1>11. c.base <= t => P # <<>>
  <2> SUFFICES ASSUME c.base <= t PROVE P # <<>>
    OBVIOUS
  <2>1. 1 \in 1..Len(p) /\ p[1].at + c.base <= t
    BY <1>1
  <2>2. n >= 1
    BY <1>6, <2>1
  <2> QED
    BY <1>10, <2>2
<1>12. \A i \in 1..Len(p) : i > n => p[i].at + c.base > t
  BY <1>1, <1>5, <1>6
<1> HIDE DEF P
<1> QED
  BY <1>5, <1>8, <1>9, <1>10, <1>11, <1>12 DEF p

(* Nothing that was due is due no more.                                      *)
LEMMA ProjectedGrows ==
  ASSUME NEW c, Orderly(c.schedule), c.base \in Nat, NEW t \in Nat, NEW u \in Nat, t <= u,
         \A e \in ToSet(c.schedule) : e.code \in Codes
  PROVE  Below(Projected(c, t), Projected(c, u))
<1> DEFINE p == c.schedule
           P == Projected(c, t)
           Q == Projected(c, u)
<1>1. /\ P \in Seq(Moment) /\ Len(P) <= Len(p)
      /\ \A i \in 1..Len(P) : P[i].at = p[i].at + c.base /\ P[i].at <= t
  BY ProjectedIs
<1>2. /\ Q \in Seq(Moment) /\ Len(Q) <= Len(p)
      /\ \A i \in 1..Len(p) : i > Len(Q) => p[i].at + c.base > u
  BY ProjectedIs
<1>3. /\ Len(P) \in Nat /\ Len(Q) \in Nat /\ Len(p) \in Nat
      /\ DOMAIN P = 1..Len(P) /\ DOMAIN Q = 1..Len(Q)
      /\ \A i \in 1..Len(p) : p[i].at \in Nat
  <2>1. Len(p) \in Nat /\ \A i \in 1..Len(p) : p[i].at \in Nat
    BY OrderlyIs
  <2>2. P \in Seq(Moment) /\ Q \in Seq(Moment)
    BY <1>1, <1>2
  <2> HIDE DEF P, Q
  <2>3. Len(P) \in Nat /\ Len(Q) \in Nat /\ DOMAIN P = 1..Len(P) /\ DOMAIN Q = 1..Len(Q)
    BY ONLY <2>2
  <2> QED
    BY <2>1, <2>3
<1>4. \A i \in DOMAIN P : P[i] = [p[i] EXCEPT !.at = @ + c.base]
  BY DEF Projected
<1>5. \A i \in DOMAIN Q : Q[i] = [p[i] EXCEPT !.at = @ + c.base]
  BY DEF Projected
<1> HIDE DEF P, Q, p
<1>6. Len(P) <= Len(Q)
  <2> SUFFICES ASSUME Len(Q) < Len(P) PROVE FALSE
    BY <1>3
  <2>1. Len(P) \in 1..Len(p) /\ Len(P) \in 1..Len(P)
    BY <1>1, <1>3
  <2>2. p[Len(P)].at + c.base > u /\ p[Len(P)].at + c.base <= t
    BY <1>1, <1>2, <2>1
  <2> QED
    BY <1>3, <2>1, <2>2
<1>7. \A i \in 1..Len(P) : i \in DOMAIN P /\ i \in DOMAIN Q
  BY <1>3, <1>6
<1> QED
  BY <1>4, <1>5, <1>6, <1>7 DEF Below, P, Q

(* What follows a history does not change it.                                *)
LEMMA BelowAfter ==
  ASSUME NEW A, NEW a \in Seq(A), NEW b \in Seq(A), NEW c \in Seq(A), Below(b, c)
  PROVE  Below(a \o b, a \o c)
<1>1. Len(a) \in Nat /\ Len(b) \in Nat /\ Len(c) \in Nat /\ Len(b) <= Len(c)
  BY DEF Below
<1>2. /\ Len(a \o b) = Len(a) + Len(b) /\ Len(a \o c) = Len(a) + Len(c)
      /\ \A i \in 1..(Len(a) + Len(b)) :
           (a \o b)[i] = IF i <= Len(a) THEN a[i] ELSE b[i - Len(a)]
      /\ \A i \in 1..(Len(a) + Len(c)) :
           (a \o c)[i] = IF i <= Len(a) THEN a[i] ELSE c[i - Len(a)]
  BY ConcatProperties
<1>3. \A i \in 1..(Len(a) + Len(b)) :
        /\ i \in 1..(Len(a) + Len(c))
        /\ i <= Len(a) \/ i - Len(a) \in 1..Len(b)
  BY <1>1
<1> QED
  BY <1>1, <1>2, <1>3 DEF Below

(* A sequence is the beginning of what is appended to it.                   *)
LEMMA BelowMore ==
  ASSUME NEW A, NEW a \in Seq(A), NEW b \in Seq(A)
  PROVE  Below(a, a \o b)
<1>1. Len(a) \in Nat /\ Len(b) \in Nat
  OBVIOUS
<1>2. /\ Len(a \o b) = Len(a) + Len(b)
      /\ \A i \in 1..(Len(a) + Len(b)) :
           (a \o b)[i] = IF i <= Len(a) THEN a[i] ELSE b[i - Len(a)]
  BY ConcatProperties
<1> QED
  BY <1>1, <1>2 DEF Below

-----------------------------------------------------------------------------
(* The scenarios: what each asks for and expects.                            *)
Terminals == {"a", "b", "d", "f", "i", "payout", "c_live", "d_live", "g_live"}

(* The table of scenarios, in the terms the proofs need (scenarios.ts).     *)
LEMMA ScenariosAre ==
  /\ DOMAIN Scenario = Terminals \cup {"c", "e", "g", "h"}
  /\ \A s \in DOMAIN Scenario : Scenario[s].charge = "none" <=> s = "e"
  /\ \A s \in Terminals :
       /\ Scenario[s].needs.kind = "terminal_status"
       /\ Scenario[s].needs.status \in {"paid", "failed", "cancelled"}
  /\ Scenario.e.needs = Rejection
  /\ Scenario.h.needs = InOrder(<<"on_hold", "paid">>)
  /\ \A s \in {"c", "g"} : Scenario[s].needs = InOrder(<<"paid", "reversed">>)
<1> DEFINE Live == {"c_live", "d_live", "g_live"}
           Contract == {"a", "b", "c", "d", "e", "f", "g", "h", "i", "payout"}
<1>1. DOMAIN LiveScenario = Live /\ DOMAIN ContractScenario = Contract
  BY DEF LiveScenario, ContractScenario
<1>2. /\ DOMAIN Scenario = Contract \cup Live
      /\ \A s \in Contract : Scenario[s] = ContractScenario[s]
      /\ \A s \in Live : Scenario[s] = LiveScenario[s]
  BY <1>1 DEF Scenario
<1>3. /\ \A s \in Live : /\ LiveScenario[s].charge # "none"
                         /\ LiveScenario[s].needs.kind = "terminal_status"
                         /\ LiveScenario[s].needs.status \in {"paid", "failed", "cancelled"}
  BY DEF LiveScenario, Terminal
<1>4. \A s \in {"a", "b", "d", "f", "i", "payout"} :
        /\ ContractScenario[s].charge # "none"
        /\ ContractScenario[s].needs.kind = "terminal_status"
        /\ ContractScenario[s].needs.status \in {"paid", "failed", "cancelled"}
  BY DEF ContractScenario, Terminal
<1>5. /\ ContractScenario["e"].needs = Rejection /\ ContractScenario["e"].charge = "none"
      /\ ContractScenario["h"].needs = InOrder(<<"on_hold", "paid">>)
      /\ ContractScenario["h"].charge # "none"
      /\ \A s \in {"c", "g"} : /\ ContractScenario[s].needs = InOrder(<<"paid", "reversed">>)
                              /\ ContractScenario[s].charge # "none"
  BY DEF ContractScenario
<1> QED
  BY <1>2, <1>3, <1>4, <1>5 DEF Terminals

-----------------------------------------------------------------------------
(* The charge at the sandbox.                                                *)

Distinct(h) == \A i, j \in 1..Len(h) : h[i].status = h[j].status => i = j

(* Its mode follows from what was served; an action was taken on a history of
   different statuses, and the schedule starts over after what it did.       *)
Charged ==
  /\ charge.schedule \in Plans[Scenario[id].charge]
  /\ charge.base \in Nat /\ charge.base <= now
  /\ charge.committed \in Seq(Moment) /\ Distinct(charge.committed)

Running ==
  /\ ~Served("hold") => charge.committed = <<>>
  /\ Served("hold") =>
       /\ charge.committed # <<>> /\ Last(charge.committed).status = "on_hold"
       /\ \A i \in 1..Len(charge.committed) : charge.committed[i].at < charge.base

HeldBack ==
  /\ charge.action = Entry("on_hold", "none", charge.action.at)
  /\ charge.action.at \in Nat /\ charge.action.at <= now
  /\ step \in {"confirm", "release"} => charge.action.at <= poll.start
  /\ \A i \in 1..Len(charge.committed) :
       charge.committed[i].at <= charge.action.at /\ charge.committed[i].status # "on_hold"

CancelledOff ==
  /\ charge.action = Entry("cancelled", "none", charge.action.at)
  /\ charge.action.at \in Nat
  /\ \A i \in 1..Len(charge.committed) : charge.committed[i].status # "cancelled"

Shape ==
  /\ charge = [schedule |-> charge.schedule, mode |-> charge.mode, base |-> charge.base,
               committed |-> charge.committed, action |-> charge.action]
  /\ charge.mode = IF ~Originated THEN "none"
                   ELSE IF Served("cancel") THEN "cancelled"
                   ELSE IF Served("hold") /\ ~Served("release") THEN "held"
                   ELSE "running"
  /\ charge.mode # "none" => Charged
  /\ charge.mode = "running" => Running
  /\ charge.mode = "held" => HeldBack
  /\ charge.mode = "cancelled" => CancelledOff

(* What the sandbox does to the charge when it serves a request.             *)
Opens ==
  /\ step \in {"charge", "payout"} /\ charge.mode = "none"
  /\ \E p \in Plans[Scenario[id].charge] : charge' = NewCharge(p, now)

Acts ==
  /\ StatusAt(charge, now) \notin Settled
  /\ \/ step = "hold" /\ charge.mode = "running" /\ charge' = Act(charge, now, "held", "on_hold")
     \/ step = "cancel" /\ charge.mode = "running" /\ charge' = Act(charge, now, "cancelled", "cancelled")
     \/ /\ step = "release" /\ charge.mode = "held"
        /\ charge' = [charge EXCEPT !.committed = History(charge, now), !.mode = "running", !.base = now]

(* An honoured request opens the charge, acts on it, or leaves it alone.    *)
LEMMA HonourDoes ==
  ASSUME Way, Shape, Honour
  PROVE  /\ UNCHANGED <<id, now, step, poll>> /\ keys' = keys \cup {<<step, 1>>}
         /\ \/ Opens
            \/ Acts
            \/ step \in {"customer", "paykey"} /\ charge' = charge
<1>1. /\ UNCHANGED <<id, now, step, poll>> /\ keys' = keys \cup {<<step, 1>>}
      /\ ~Served(step) /\ ~Refused
  BY DEF Honour, Key, Honoured, Served
<1>2. CASE Create
  <2>1. CASE CreateCustomer \/ CreatePaykey
    BY <1>1, <2>1 DEF CreateCustomer, CreatePaykey
  <2>2. CASE CreateCharge \/ CreatePayout
    <3>1. ~Originated
      BY <1>1, <2>2 DEF CreateCharge, CreatePayout, Originated, Way, Path, Course
    <3> QED
      BY <1>1, <2>2, <3>1 DEF CreateCharge, CreatePayout, Originate, Opens, Shape
  <2> QED
    BY <1>2, <2>1, <2>2 DEF Create
<1>3. CASE step \in Actions /\ Alter
  <2>1. StatusAt(charge, now) \notin Settled
    BY <1>1, <1>3 DEF Refused, Refuses
  <2>2. Originated
    BY <1>3 DEF Actions, Way, Course
  <2>3. CASE step = "hold"
    <3>1. charge.mode = "running"
      BY <1>1, <2>2, <2>3 DEF Shape, Way, Course
    <3>2. charge' = Hold(charge, now)
      BY <1>3, <2>3 DEF Alter
    <3> QED
      BY <1>1, <2>1, <2>3, <3>1, <3>2 DEF Acts, Hold
  <2>4. CASE step = "cancel"
    <3>1. charge.mode = "running"
      BY <1>1, <2>2, <2>4 DEF Shape, Way, Course, Path
    <3>2. charge' = Cancel(charge, now)
      BY <1>3, <2>4 DEF Alter
    <3> QED
      BY <1>1, <2>1, <2>4, <3>1, <3>2 DEF Acts, Cancel
  <2>5. CASE step = "release"
    <3>1. charge.mode = "held"
      BY <1>1, <2>2, <2>5 DEF Shape, Way, Course, Path
    <3>2. charge' = Release(charge, now)
      BY <1>3, <2>5 DEF Alter
    <3> QED
      BY <1>1, <2>1, <2>5, <3>1, <3>2 DEF Acts, Release
  <2> QED
    BY <1>3, <2>3, <2>4, <2>5 DEF Actions
<1> QED
  BY <1>1, <1>2, <1>3 DEF Honour

(* Only the sandbox, serving a request, touches the charge.                  *)
LEMMA OthersLeave ==
  ASSUME Way, [Next]_vars, ~Honour
  PROVE  UNCHANGED <<id, keys, charge>>
<1>1. CASE Attempts
  BY <1>1, AttemptsStay DEF Way, evidence
<1>2. CASE Moves
  BY <1>2, MovesLead DEF Way
<1>3. CASE UNCHANGED vars
  BY <1>3 DEF vars, sandboxVars
<1> QED
  BY <1>1, <1>2, <1>3, EveryStep

(* What the schedules are known for, of the charge at hand.                  *)
LEMMA PlanFits ==
  ASSUME OrderlyPlans, SettledPlans, Way, Originated, Charged
  PROVE  /\ Orderly(charge.schedule) /\ RepeatsToTheEnd(id, charge.schedule)
         /\ SettledToTheEnd(id, charge.schedule)
         /\ \A e \in ToSet(charge.schedule) : e.code \in Codes
<1>1. id \in Chosen /\ id # "e" /\ id \in DOMAIN Scenario
  BY ScenariosAssumption DEF Way, Path, Course
<1>2. Scenario[id].charge # "none"
  BY <1>1, ScenariosAre
<1>3. Orderly(charge.schedule) /\ RepeatsToTheEnd(id, charge.schedule)
  BY <1>1, <1>2 DEF OrderlyPlans, Charged
<1>4. SettledToTheEnd(id, charge.schedule)
  BY <1>1, <1>2 DEF SettledPlans, Charged
<1>5. \A e \in ToSet(charge.schedule) : e.code \in Codes
  BY <1>1 DEF Codes, Charged
<1> QED
  BY <1>3, <1>4, <1>5

(* The running schedule of a scenario that acts, so far: each status once.   *)
LEMMA ActingIsDistinct ==
  ASSUME OrderlyPlans, SettledPlans, Way, Originated, Charged, NEW t \in Nat, id \in {"h", "i"}
  PROVE  Distinct(Projected(charge, t))
<1> DEFINE p == charge.schedule
           P == Projected(charge, t)
<1>1. Orderly(p) /\ RepeatsToTheEnd(id, p) /\ charge.base \in Nat
      /\ \A e \in ToSet(p) : e.code \in Codes
  BY PlanFits DEF Charged
<1>2. P \in Seq(Moment) /\ Len(P) <= Len(p) /\ \A i \in 1..Len(P) : P[i].status = p[i].status
  BY <1>1, ProjectedIs
<1>3. DOMAIN p = 1..Len(p) /\ Len(p) \in Nat
  BY <1>1, OrderlyIs
<1> HIDE DEF P, p
<1>4. \A i \in 1..Len(p) : i + 1 \in 1..Len(p) => p[i].status # p[i + 1].status
  BY <1>1, <1>3 DEF RepeatsToTheEnd
<1>5. ASSUME NEW i \in 1..Len(p), NEW j \in 1..Len(p), i < j PROVE p[i].status # p[j].status
  <2>1. CASE j = i + 1
    BY <1>4, <2>1
  <2>2. CASE j # i + 1
    <3>1. i + 1 \in 1..Len(p) /\ i < i + 1 /\ i + 1 < j
      BY <1>3, <1>5, <2>2
    <3> QED
      BY <1>1, <1>3, <1>4, <3>1 DEF Orderly
  <2> QED
    BY <2>1, <2>2
<1>6. ASSUME NEW i \in 1..Len(P), NEW j \in 1..Len(P), P[i].status = P[j].status PROVE i = j
  <2>1. i \in 1..Len(p) /\ j \in 1..Len(p)
    BY <1>2, <1>3
  <2> QED
    BY <1>2, <1>5, <1>6, <2>1
<1> QED
  BY <1>6 DEF Distinct, P

(* Two entries in a row say different things.                                *)
NoRepeat(h) == \A j \in 2..Len(h) : h[j].status # h[j - 1].status

(* A history without two equal statuses comes back to none of them.         *)
LEMMA DistinctIsTidy ==
  ASSUME NEW h \in Seq(Moment), Distinct(h)
  PROVE  Tidy(h) /\ NoRepeat(h)
<1>1. Len(h) \in Nat
  OBVIOUS
<1>2. Tidy(h)
  BY <1>1 DEF Distinct, Tidy
<1>3. \A j \in 2..Len(h) : j \in 1..Len(h) /\ j - 1 \in 1..Len(h) /\ j # j - 1
  BY <1>1
<1> QED
  BY <1>2, <1>3 DEF Distinct, NoRepeat

(* Two parts of a history, entry by entry.                                   *)
LEMMA Parts ==
  ASSUME NEW A, NEW a \in Seq(A), NEW b \in Seq(A)
  PROVE  LET h == a \o b
         IN /\ h \in Seq(A) /\ Len(h) = Len(a) + Len(b)
            /\ Len(a) \in Nat /\ Len(b) \in Nat
            /\ \A i \in 1..Len(h) : \/ i \in 1..Len(a) /\ h[i] = a[i]
                                    \/ i - Len(a) \in 1..Len(b) /\ h[i] = b[i - Len(a)]
            /\ \A i \in 1..Len(a) : i \in 1..Len(h) /\ h[i] = a[i]
            /\ \A i \in 1..Len(b) : Len(a) + i \in 1..Len(h) /\ h[Len(a) + i] = b[i]
<1> DEFINE h == a \o b
<1>1. Len(a) \in Nat /\ Len(b) \in Nat
  OBVIOUS
<1>2. /\ h \in Seq(A) /\ Len(h) = Len(a) + Len(b)
      /\ \A i \in 1..(Len(a) + Len(b)) : h[i] = IF i <= Len(a) THEN a[i] ELSE b[i - Len(a)]
  BY ConcatProperties
<1> HIDE DEF h
<1>3. ASSUME NEW i \in 1..Len(h)
      PROVE  \/ i \in 1..Len(a) /\ h[i] = a[i]
             \/ i - Len(a) \in 1..Len(b) /\ h[i] = b[i - Len(a)]
  BY <1>1, <1>2
<1>4. ASSUME NEW i \in 1..Len(a) PROVE i \in 1..Len(h) /\ h[i] = a[i]
  BY <1>1, <1>2
<1>5. ASSUME NEW i \in 1..Len(b) PROVE Len(a) + i \in 1..Len(h) /\ h[Len(a) + i] = b[i]
  <2>1. Len(a) + i \in 1..Len(h) /\ ~ (Len(a) + i <= Len(a)) /\ (Len(a) + i) - Len(a) = i
    BY <1>1, <1>2
  <2> QED
    BY <1>2, <2>1
<1> QED
  BY <1>1, <1>2, <1>3, <1>4, <1>5 DEF h

(* The schedule's part of the history is tidy, and so is what comes before
   and after a hold: the restart has later times.                            *)
LEMMA ProjectedIsTidy ==
  ASSUME OrderlyPlans, SettledPlans, Way, Originated, Charged, NEW t \in Nat
  PROVE  Tidy(Projected(charge, t))
<1> DEFINE p == charge.schedule
           P == Projected(charge, t)
<1>1. Orderly(p) /\ charge.base \in Nat /\ \A e \in ToSet(p) : e.code \in Codes
  BY PlanFits DEF Charged
<1>2. P \in Seq(Moment) /\ Len(P) <= Len(p) /\ \A i \in 1..Len(P) : P[i].status = p[i].status
  BY <1>1, ProjectedIs
<1>3. DOMAIN p = 1..Len(p) /\ Len(p) \in Nat /\ Len(P) \in Nat
  <2>1. DOMAIN p = 1..Len(p) /\ Len(p) \in Nat
    BY <1>1, OrderlyIs
  <2>2. Len(P) \in Nat
    BY ONLY <1>2
  <2> QED
    BY <2>1, <2>2
<1> HIDE DEF P, p
<1>4. ASSUME NEW i \in 1..Len(P), NEW j \in 1..Len(P), i < j, P[i].status = P[j].status
      PROVE  P[j - 1].status = P[j].status
  <2>1. j - 1 \in 1..Len(P) /\ (i = j - 1 \/ i < j - 1) /\ j - 1 < j
    BY <1>3, <1>4
  <2>2. i \in 1..Len(p) /\ j - 1 \in 1..Len(p) /\ j \in 1..Len(p)
    BY <1>2, <1>3, <2>1
  <2>3. i < j - 1 => p[j - 1].status = p[i].status
    BY <1>1, <1>2, <1>3, <1>4, <2>1, <2>2 DEF Orderly
  <2> QED
    BY <1>2, <1>4, <2>1, <2>3
<1> QED
  BY <1>4 DEF Tidy, P

(* A charge that was held and released comes back to no status.             *)
LEMMA ResumedIsTidy ==
  ASSUME OrderlyPlans, SettledPlans, Way, Originated, Charged, Running, Served("hold"),
         NEW t \in Nat, charge.base <= t
  PROVE  LET h == charge.committed \o Projected(charge, t)
         IN h \in Seq(Moment) /\ Tidy(h) /\ NoRepeat(h)
<1> DEFINE p == charge.schedule
           P == Projected(charge, t)
           C == charge.committed
           h == C \o P
<1>1. Orderly(p) /\ charge.base \in Nat /\ \A e \in ToSet(p) : e.code \in Codes
  BY PlanFits DEF Charged
<1>2. /\ P \in Seq(Moment) /\ Len(P) <= Len(p)
      /\ \A i \in 1..Len(P) : P[i].status = p[i].status /\ P[i].at = p[i].at + charge.base
  BY <1>1, ProjectedIs
<1>3. Distinct(P)
  BY ActingIsDistinct DEF Way, Course
<1>4. C \in Seq(Moment) /\ Distinct(C) /\ C # <<>> /\ Last(C).status = "on_hold"
      /\ \A i \in 1..Len(C) : C[i].at < charge.base
  BY DEF Charged, Running
<1>5. \A i \in 1..Len(P) : P[i].status # "on_hold" /\ P[i].at >= charge.base
  <2>1. Len(p) \in Nat /\ \A i \in 1..Len(p) : p[i].status \in Statuses \ {"on_hold"} /\ p[i].at \in Nat
    BY <1>1, OrderlyIs
  <2>2. \A i \in 1..Len(P) : i \in 1..Len(p)
    BY <1>2, <2>1
  <2> QED
    BY <1>1, <1>2, <2>1, <2>2
<1> HIDE DEF P, C, p
<1>6. /\ h \in Seq(Moment) /\ Len(h) = Len(C) + Len(P) /\ Len(C) \in Nat /\ Len(P) \in Nat
      /\ \A i \in 1..Len(h) : \/ i \in 1..Len(C) /\ h[i] = C[i]
                              \/ i - Len(C) \in 1..Len(P) /\ h[i] = P[i - Len(C)]
  BY <1>2, <1>4, Parts
<1> HIDE DEF h
<1>7. \A i \in 1..Len(C) : C[i].at \in Nat
  <2>1. C \in Seq(Moment)
    BY <1>4
  <2>2. \A i \in 1..Len(C) : C[i] \in Moment
    BY ONLY <2>1
  <2> QED
    BY <2>2 DEF Moment
<1>8. Tidy(h)
  <2> SUFFICES ASSUME NEW i \in 1..Len(h), NEW j \in 1..Len(h),
                      i < j, h[i].status = h[j].status, h[i].at = h[j].at
               PROVE  FALSE
    BY DEF Tidy
  <2>1. CASE j \in 1..Len(C) /\ h[j] = C[j]
    <3>1. i \in 1..Len(C)
      <4>1. i \in Nat /\ 1 <= i /\ j <= Len(C)
        BY <1>6, <2>1
      <4> QED
        BY ONLY i < j, <4>1, <1>6
    <3>2. h[i] = C[i]
      BY <1>6, <3>1
    <3> QED
      BY <1>4, <2>1, <3>1, <3>2 DEF Distinct
  <2>2. CASE j - Len(C) \in 1..Len(P) /\ h[j] = P[j - Len(C)] /\ i \in 1..Len(C) /\ h[i] = C[i]
    BY <1>1, <1>4, <1>5, <1>7, <2>2
  <2>3. CASE /\ j - Len(C) \in 1..Len(P) /\ h[j] = P[j - Len(C)]
             /\ i - Len(C) \in 1..Len(P) /\ h[i] = P[i - Len(C)]
    <3>1. i - Len(C) = j - Len(C)
      BY <1>3, <2>3 DEF Distinct
    <3> QED
      BY <1>6, <3>1
  <2> QED
    BY <1>6, <2>1, <2>2, <2>3
<1>9. NoRepeat(h)
  <2> SUFFICES ASSUME NEW j \in 2..Len(h), h[j].status = h[j - 1].status PROVE FALSE
    BY DEF NoRepeat
  <2>1. j \in 1..Len(h) /\ j - 1 \in 1..Len(h)
    BY <1>6
  <2>2. CASE j \in 1..Len(C) /\ h[j] = C[j]
    <3>1. j - 1 \in 1..Len(C) /\ h[j - 1] = C[j - 1]
      BY <1>6, <2>1, <2>2
    <3> QED
      BY <1>4, <2>2, <3>1 DEF Distinct
  <2>3. CASE j - Len(C) \in 1..Len(P) /\ h[j] = P[j - Len(C)] /\ j - 1 \in 1..Len(C) /\ h[j - 1] = C[j - 1]
    <3>1. j - 1 = Len(C)
      BY <1>6, <2>3
    <3>2. C[j - 1].status = "on_hold"
      BY <1>4, <3>1 DEF Last
    <3> QED
      BY <1>5, <2>3, <3>2
  <2>4. CASE /\ j - Len(C) \in 1..Len(P) /\ h[j] = P[j - Len(C)]
             /\ (j - 1) - Len(C) \in 1..Len(P) /\ h[j - 1] = P[(j - 1) - Len(C)]
    <3>1. (j - 1) - Len(C) = j - Len(C)
      BY <1>3, <2>4 DEF Distinct
    <3> QED
      BY <1>6, <3>1
  <2> QED
    BY <1>6, <2>1, <2>2, <2>3, <2>4
<1> QED
  BY <1>6, <1>8, <1>9 DEF h, C, P

(* What an action added is another status than those before.                 *)
LEMMA StoppedIsDistinct ==
  ASSUME Charged, charge.action \in Moment,
         \A i \in 1..Len(charge.committed) : charge.committed[i].status # charge.action.status
  PROVE  LET h == charge.committed \o <<charge.action>>
         IN h \in Seq(Moment) /\ Distinct(h) /\ h # <<>> /\ Last(h) = charge.action
<1> DEFINE C == charge.committed
           e == charge.action
           h == C \o <<e>>
<1>1. C \in Seq(Moment) /\ Distinct(C) /\ e \in Moment /\ <<e>> \in Seq(Moment)
      /\ \A i \in 1..Len(C) : C[i].status # e.status
  BY DEF Charged
<1> HIDE DEF C, e
<1>2. /\ h \in Seq(Moment) /\ Len(h) = Len(C) + 1 /\ Len(C) \in Nat
      /\ \A i \in 1..Len(h) : (i \in 1..Len(C) /\ h[i] = C[i]) \/ (i = Len(C) + 1 /\ h[i] = e)
  <2>1. Len(<<e>>) = 1 /\ <<e>>[1] = e
    OBVIOUS
  <2>2. /\ h \in Seq(Moment) /\ Len(h) = Len(C) + Len(<<e>>) /\ Len(C) \in Nat
        /\ \A i \in 1..Len(h) : \/ i \in 1..Len(C) /\ h[i] = C[i]
                                \/ i - Len(C) \in 1..Len(<<e>>) /\ h[i] = <<e>>[i - Len(C)]
    BY <1>1, Parts
  <2>3. \A i \in 1..Len(h) : i - Len(C) \in 1..Len(<<e>>) => i - Len(C) = 1 /\ i = Len(C) + 1
    BY <2>1, <2>2
  <2> QED
    BY <2>1, <2>2, <2>3
<1> HIDE DEF h
<1>3. Distinct(h)
  BY <1>1, <1>2 DEF Distinct
<1>4. Len(h) \in 1..Len(h) /\ h # <<>> /\ h[Len(h)] = e
  BY <1>2
<1> QED
  BY <1>2, <1>3, <1>4 DEF Last, h, C, e

(* What the truth is, by what was done to the charge.                        *)
LEMMA TruthIs ==
  ASSUME OrderlyPlans, SettledPlans, Way, Shape, now \in Nat, NEW t \in Nat, now <= t
  PROVE  /\ Truth(t) \in Seq(Moment) /\ Tidy(Truth(t))
         /\ ~Originated => Truth(t) = <<>>
         /\ Originated => Truth(t) # <<>>
         /\ id \in {"h", "i"} => NoRepeat(Truth(t))
         /\ Originated /\ id \notin {"h", "i"} =>
              charge.mode = "running" /\ Truth(t) = Projected(charge, t)
         /\ charge.mode \in {"held", "cancelled"} =>
              Distinct(Truth(t)) /\ Last(Truth(t)) = charge.action
<1>1. CASE ~Originated
  <2>1. Truth(t) = <<>> /\ charge.mode = "none"
    BY <1>1 DEF Shape, Truth
  <2>2. <<>> \in Seq(Moment) /\ Len(<<>>) = 0
    OBVIOUS
  <2>3. Tidy(<<>>) /\ NoRepeat(<<>>)
    BY <2>2 DEF Tidy, NoRepeat
  <2> QED
    BY <1>1, <2>1, <2>2, <2>3
<1>2. CASE Originated
  <2>1. charge.mode \in {"cancelled", "held", "running"} /\ Charged
    BY <1>2 DEF Shape
  <2>2. Truth(t) = charge.committed \o (IF charge.mode = "running" THEN Projected(charge, t)
                                        ELSE <<charge.action>>)
    BY <2>1 DEF Truth, History
  <2>3. charge.base \in Nat /\ charge.base <= t /\ charge.committed \in Seq(Moment)
    BY <2>1 DEF Charged
  <2>4. Orderly(charge.schedule) /\ \A e \in ToSet(charge.schedule) : e.code \in Codes
    BY <1>2, <2>1, PlanFits
  <2>5. Projected(charge, t) \in Seq(Moment) /\ Projected(charge, t) # <<>>
    BY <2>3, <2>4, ProjectedIs
  <2>6. CASE charge.mode = "running" /\ ~Served("hold")
    <3>1. charge.committed = <<>>
      BY <2>6 DEF Shape, Running
    <3>2. Truth(t) = Projected(charge, t)
      BY <2>2, <2>5, <2>6, <3>1, ConcatEmptySeq
    <3>3. Tidy(Projected(charge, t))
      BY <1>2, <2>1, ProjectedIsTidy
    <3>4. id \in {"h", "i"} => NoRepeat(Projected(charge, t))
      BY <1>2, <2>1, <2>5, ActingIsDistinct, DistinctIsTidy
    <3> QED
      BY <1>2, <2>5, <2>6, <3>2, <3>3, <3>4
  <2>7. CASE charge.mode = "running" /\ Served("hold")
    <3> DEFINE h == charge.committed \o Projected(charge, t)
    <3>1. Truth(t) = h /\ id = "h"
      BY <2>2, <2>7 DEF Way, Course
    <3>2. h \in Seq(Moment) /\ Tidy(h) /\ NoRepeat(h)
      BY <1>2, <2>1, <2>3, <2>7, ResumedIsTidy DEF Shape
    <3>3. h # <<>>
      <4>1. Len(h) = Len(charge.committed) + Len(Projected(charge, t))
        BY <2>3, <2>5, Parts
      <4>2. Len(Projected(charge, t)) \in Nat \ {0} /\ Len(charge.committed) \in Nat
        BY <2>3, <2>5, EmptySeq
      <4> HIDE DEF h
      <4>3. Len(h) # 0
        BY <4>1, <4>2
      <4> QED
        BY <4>3
    <3> HIDE DEF h
    <3> QED
      BY <1>2, <2>7, <3>1, <3>2, <3>3
  <2>8. CASE charge.mode \in {"held", "cancelled"}
    <3> DEFINE h == charge.committed \o <<charge.action>>
    <3>1. Truth(t) = h /\ id \in {"h", "i"}
      BY <1>2, <2>2, <2>8 DEF Way, Course, Shape
    <3>2. charge.action \in Moment
      <4>1. charge.action \in {Entry("on_hold", "none", charge.action.at), Entry("cancelled", "none", charge.action.at)}
            /\ charge.action.at \in Nat
        BY <2>8 DEF Shape, HeldBack, CancelledOff
      <4> HIDE DEF h
      <4> QED
        BY <4>1 DEF Entry, Moment, Statuses, Settled, Codes
    <3>3. \A i \in 1..Len(charge.committed) : charge.committed[i].status # charge.action.status
      BY <2>8 DEF Shape, HeldBack, CancelledOff, Entry
    <3>4. h \in Seq(Moment) /\ Distinct(h) /\ h # <<>> /\ Last(h) = charge.action
      BY <2>1, <3>2, <3>3, StoppedIsDistinct
    <3>5. Tidy(h) /\ NoRepeat(h)
      BY <3>4, DistinctIsTidy
    <3> HIDE DEF h
    <3> QED
      BY <1>2, <2>8, <3>1, <3>4, <3>5
  <2> QED
    BY <2>1, <2>6, <2>7, <2>8
<1> QED
  BY <1>1, <1>2

(* It only becomes more as time goes by.                                     *)
LEMMA TruthGrows ==
  ASSUME OrderlyPlans, SettledPlans, Way, Shape, now \in Nat,
         NEW t \in Nat, NEW u \in Nat, now <= t, t <= u
  PROVE  Below(Truth(t), Truth(u))
<1>1. CASE ~Originated
  BY <1>1, TruthIs, BelowItself
<1>2. CASE Originated /\ charge.mode = "running"
  <2>1. Charged
    BY <1>2 DEF Shape
  <2>2. /\ Orderly(charge.schedule) /\ \A e \in ToSet(charge.schedule) : e.code \in Codes
        /\ charge.base \in Nat /\ charge.base <= t /\ charge.committed \in Seq(Moment)
    BY <1>2, <2>1, PlanFits DEF Charged
  <2>3. Below(Projected(charge, t), Projected(charge, u))
    BY <2>2, ProjectedGrows
  <2>4. Projected(charge, t) \in Seq(Moment) /\ Projected(charge, u) \in Seq(Moment)
    BY <2>2, ProjectedIs
  <2>5. Below(charge.committed \o Projected(charge, t), charge.committed \o Projected(charge, u))
    BY <2>2, <2>3, <2>4, BelowAfter
  <2> QED
    BY <1>2, <2>5 DEF Truth, History
<1>3. CASE charge.mode \in {"held", "cancelled"}
  <2>1. Truth(t) = Truth(u)
    BY <1>3 DEF Truth, History
  <2>2. Truth(t) \in Seq(Moment)
    BY TruthIs
  <2> QED
    BY <2>1, <2>2, BelowItself
<1> QED
  BY <1>1, <1>2, <1>3 DEF Shape

(* The record of a loop is kept until the release.                           *)
LEMMA RecordKept ==
  ASSUME PollClock, Way, [Next]_vars, step' \in {"confirm", "release"}
  PROVE  \/ step \in {"confirm", "release"} /\ poll'.start = poll.start
         \/ poll'.start = now
<1>1. CASE Attempts
  <2>1. step' = step
    BY <1>1, AttemptsStay DEF Way
  <2>2. poll' = poll
    BY <1>1 DEF Attempts, Sandboxed, Drop, Honour, Repeat, Refuse, Wait, Retry,
                   StartCall, PollCycle, TurnCome
  <2> QED
    BY <2>1, <2>2
<1>2. CASE Moves
  <2>1. step \in Steps /\ (step' = "done" \/ GoesOn)
    BY <1>2, MovesLead DEF Way
  <2>2. CASE step' = "release"
    <3>1. step = "confirm"
      BY <2>1, <2>2, FollowingIs DEF Way, GoesOn, PollSteps
    <3> QED
      BY <1>2, <3>1, MovesPoll DEF Way
  <2>3. CASE step' = "confirm"
    BY <1>2, <2>3, MovesPoll DEF Way
  <2> QED
    BY <2>2, <2>3
<1>3. CASE UNCHANGED vars
  BY <1>3 DEF vars
<1> QED
  BY <1>1, <1>2, <1>3, EveryStep

(* A charge nobody touches stays in shape, and its history goes on.          *)
LEMMA ShapeUntouched ==
  ASSUME OrderlyPlans, SettledPlans, PollClock, Way, Timing, Shape, [Next]_vars, ~Honour
  PROVE  Shape' /\ Below(Truth(now), Truth(now)')
<1>1. UNCHANGED <<id, keys, charge>>
  BY OthersLeave
<1>2. now \in Nat /\ now <= now'
  BY TimingKept DEF PollClock
<1>3. now' \in Nat
  <2>1. UNCHANGED now \/ now' = now + 1 \/ PollCycle
    <3>1. CASE Attempts
      BY <3>1 DEF Attempts, Sandboxed, Drop, Honour, Repeat, Refuse, Wait, Retry, StartCall, TurnCome
    <3>2. CASE Moves
      BY <3>2, MovesLead DEF Way
    <3>3. CASE UNCHANGED vars
      BY <3>3 DEF vars
    <3> QED
      BY <3>1, <3>2, <3>3, EveryStep
  <2>2. PollCycle => now' \in Nat
    BY SleepIsForward
  <2> QED
    BY <1>2, <2>1, <2>2
<1>4. Below(Truth(now), Truth(now)')
  <2>1. Truth(now)' = IF charge.mode = "none" THEN <<>> ELSE History(charge, now')
    BY <1>1 DEF Truth
  <2>2. Below(Truth(now), Truth(now'))
    BY <1>2, <1>3, TruthGrows
  <2> QED
    BY <2>1, <2>2 DEF Truth
<1>5. \A s \in Steps : Served(s)' = Served(s)
  BY <1>1 DEF Served
<1>6. Originated' = Originated
  BY <1>1 DEF Originated, Served
<1>7. charge.mode # "none" => Charged'
  BY <1>1, <1>2, <1>3 DEF Shape, Charged
<1>8. charge.mode = "running" => Running'
  BY <1>1, <1>5 DEF Shape, Running, Steps, Actions
<1>9. charge.mode = "held" => HeldBack'
  <2> SUFFICES ASSUME charge.mode = "held" PROVE HeldBack'
    OBVIOUS
  <2>1. HeldBack
    BY DEF Shape
  <2>2. step' \in {"confirm", "release"} => charge.action.at <= poll'.start
    BY <2>1, RecordKept DEF HeldBack
  <2> QED
    BY <1>1, <1>2, <1>3, <2>1, <2>2 DEF HeldBack
<1>10. charge.mode = "cancelled" => CancelledOff'
  BY <1>1 DEF Shape, CancelledOff
<1>11. charge.mode' = IF ~Originated' THEN "none"
                      ELSE IF Served("cancel")' THEN "cancelled"
                      ELSE IF Served("hold")' /\ ~Served("release")' THEN "held"
                      ELSE "running"
  BY <1>1, <1>5, <1>6 DEF Shape, Steps, Actions
<1> QED
  BY <1>1, <1>4, <1>7, <1>8, <1>9, <1>10, <1>11 DEF Shape

(* An action is taken on the schedule's part of the history.                 *)
LEMMA BeforeAction ==
  ASSUME OrderlyPlans, SettledPlans, Way, Shape, now \in Nat,
         charge.mode = "running", step \in {"hold", "cancel"}
  PROVE  LET h == History(charge, now)
         IN /\ h = Truth(now) /\ h \in Seq(Moment) /\ Distinct(h)
            /\ \A i \in 1..Len(h) : h[i].at <= now /\ h[i].status # "on_hold"
            /\ StatusAt(charge, now) \notin Settled =>
                 \A i \in 1..Len(h) : h[i].status # "cancelled"
<1> DEFINE p == charge.schedule
           P == Projected(charge, now)
<1>1. Originated /\ Charged /\ id \in {"h", "i"} /\ charge.committed = <<>>
  BY DEF Shape, Running, Way, Path, Course
<1>2. Orderly(p) /\ SettledToTheEnd(id, p) /\ charge.base \in Nat
      /\ \A e \in ToSet(p) : e.code \in Codes
  BY <1>1, PlanFits DEF Charged
<1>3. /\ P \in Seq(Moment) /\ Len(P) <= Len(p) /\ (charge.base <= now => P # <<>>)
      /\ \A i \in 1..Len(P) : P[i].status = p[i].status /\ P[i].at <= now
  BY <1>2, ProjectedIs
<1>4. Len(p) \in Nat /\ DOMAIN p = 1..Len(p) /\ \A i \in 1..Len(p) : p[i].status # "on_hold"
  BY <1>2, OrderlyIs
<1>5. History(charge, now) = P
  BY <1>1, <1>3, ConcatEmptySeq DEF History
<1>6. Distinct(P)
  BY <1>1, ActingIsDistinct
<1>7. Truth(now) = P
  BY <1>5 DEF Truth
<1>8. charge.base <= now
  BY <1>1 DEF Charged
<1> HIDE DEF P, p
<1>9. Len(P) \in 1..Len(P) /\ Len(P) \in Nat
  BY <1>3, <1>8, EmptySeq
<1>10. \A i \in 1..Len(P) : P[i].status # "on_hold" /\ i \in 1..Len(p)
  BY <1>3, <1>4, <1>9
<1>11. ASSUME StatusAt(charge, now) \notin Settled, NEW i \in 1..Len(P), P[i].status = "cancelled"
       PROVE  FALSE
  <2>1. P[Len(P)].status \notin Settled
    BY <1>5, <1>11 DEF StatusAt, Last
  <2>2. i # Len(P)
    BY <1>11, <2>1 DEF Settled
  <2>3. i + 1 \in 1..Len(p)
    BY <1>3, <1>4, <1>9, <2>2
  <2>4. p[i].status = "cancelled" /\ i \in DOMAIN p /\ i + 1 \in DOMAIN p
    BY <1>3, <1>4, <1>10, <1>11, <2>3
  <2> QED
    BY <1>2, <2>4 DEF SettledToTheEnd, Settled
<1> QED
  BY <1>3, <1>5, <1>6, <1>7, <1>10, <1>11 DEF P

(* A new charge has just begun its schedule.                                 *)
LEMMA ShapeOpened ==
  ASSUME OrderlyPlans, SettledPlans, Way, Way', Shape, now \in Nat, Honour, Opens
  PROVE  Shape' /\ Below(Truth(now), Truth(now)')
<1>1. UNCHANGED <<id, now, step, poll>> /\ keys' = keys \cup {<<step, 1>>}
  BY HonourDoes
<1>2. PICK p \in Plans[Scenario[id].charge] : charge' = NewCharge(p, now)
  BY DEF Opens
<1>3. charge' = [schedule |-> p, mode |-> "running", base |-> now, committed |-> <<>>,
                 action |-> Entry("created", "none", 0)]
  BY <1>2 DEF NewCharge, NoCharge
<1>4. Truth(now) = <<>>
  BY DEF Opens, Truth
<1>5. Charged'
  <2>1. <<>> \in Seq(Moment) /\ Len(<<>>) = 0
    OBVIOUS
  <2>2. Distinct(<<>>)
    BY <2>1 DEF Distinct
  <2> QED
    BY <1>1, <1>3, <2>1, <2>2 DEF Charged
<1>6. step' \in {"charge", "payout"} /\ Served(step)'
  BY <1>1 DEF Opens, Served
<1>7. Originated' /\ ~Served("hold")' /\ ~Served("cancel")'
  BY <1>6 DEF Way, Course, Originated
<1>8. Running'
  BY <1>3, <1>7 DEF Running
<1>9. Shape'
  BY <1>3, <1>5, <1>7, <1>8 DEF Shape
<1>10. Truth(now)' \in Seq(Moment)
  <2>1. id \in Chosen /\ id # "e" /\ id \in DOMAIN Scenario
    BY <1>1, <1>7, ScenariosAssumption DEF Way, Path, Course
  <2>2. Orderly(p) /\ \A e \in ToSet(p) : e.code \in Codes
    BY <2>1, ScenariosAre DEF OrderlyPlans, Codes
  <2>3. charge'.schedule = p /\ charge'.base = now
    BY <1>3
  <2>4. Projected(charge', now) \in Seq(Moment)
    BY <2>2, <2>3, ProjectedIs
  <2>5. Truth(now)' = <<>> \o Projected(charge', now)
    BY <1>1, <1>3 DEF Truth, History
  <2> QED
    BY <2>4, <2>5, ConcatEmptySeq
<1> HIDE DEF Truth
<1>11. Below(<<>>, Truth(now)')
  BY <1>10 DEF Below
<1> QED
  BY <1>4, <1>9, <1>11

(* Held or cancelled, the history ends with what the action says.            *)
LEMMA ShapeStopped ==
  ASSUME OrderlyPlans, SettledPlans, Way, Way', Shape, now \in Nat, Honour, Acts,
         step \in {"hold", "cancel"}
  PROVE  Shape' /\ Below(Truth(now), Truth(now)')
<1> DEFINE h == History(charge, now)
           how == IF step = "hold" THEN "held" ELSE "cancelled"
           what == IF step = "hold" THEN "on_hold" ELSE "cancelled"
<1>1. UNCHANGED <<id, now, step, poll>> /\ keys' = keys \cup {<<step, 1>>}
  BY HonourDoes
<1>2. charge.mode = "running" /\ StatusAt(charge, now) \notin Settled
      /\ charge' = Act(charge, now, how, what)
  BY DEF Acts
<1>3. charge' = [schedule |-> charge.schedule, mode |-> how, base |-> charge.base,
                 committed |-> h, action |-> Entry(what, "none", now)]
  BY <1>2 DEF Act, Shape
<1>4. /\ h = Truth(now) /\ h \in Seq(Moment) /\ Distinct(h)
      /\ \A i \in 1..Len(h) : h[i].at <= now /\ h[i].status # "on_hold"
      /\ \A i \in 1..Len(h) : h[i].status # "cancelled"
  BY <1>2, BeforeAction
<1> HIDE DEF h
<1>5. Charged'
  BY <1>1, <1>2, <1>3, <1>4 DEF Charged, Shape
<1>6. Served(step)'
  BY <1>1 DEF Served
<1>7. Originated'
  BY <1>1 DEF Way, Course
<1>8. IF step = "hold" THEN Served("hold")' /\ ~Served("release")' /\ ~Served("cancel")'
      ELSE Served("cancel")'
  BY <1>1, <1>6 DEF Way, Course
<1>9. Entry(what, "none", now) = [status |-> what, code |-> "none", at |-> now]
  BY DEF Entry
<1>10. step = "hold" => HeldBack'
  BY <1>1, <1>3, <1>4, <1>9 DEF HeldBack
<1>11. step = "cancel" => CancelledOff'
  BY <1>1, <1>3, <1>4, <1>9 DEF CancelledOff
<1>12. charge'.mode = how
  BY <1>3
<1>13. Shape'
  BY <1>3, <1>5, <1>7, <1>8, <1>10, <1>11, <1>12 DEF Shape
<1>14. Truth(now)' = h \o <<Entry(what, "none", now)>>
  BY <1>1, <1>3 DEF Truth, History
<1>15. <<Entry(what, "none", now)>> \in Seq(Moment)
  BY <1>9 DEF Moment, Codes, Statuses, Settled
<1> QED
  BY <1>4, <1>13, <1>14, <1>15, BelowMore

(* Released, the schedule starts over after what was reported.               *)
LEMMA ShapeResumed ==
  ASSUME OrderlyPlans, SettledPlans, PollClock, Timing, Way, Way', Shape, Honour, Acts,
         step = "release"
  PROVE  Shape' /\ Below(Truth(now), Truth(now)')
<1> DEFINE h == History(charge, now)
<1>1. /\ UNCHANGED <<id, now, step, poll>> /\ keys' = keys \cup {<<step, 1>>}
      /\ now \in Nat
  BY HonourDoes DEF PollClock
<1>2. /\ charge.mode = "held"
      /\ charge' = [charge EXCEPT !.committed = h, !.mode = "running", !.base = now]
  BY DEF Acts
<1>3. charge' = [schedule |-> charge.schedule, mode |-> "running", base |-> now,
                 committed |-> h, action |-> charge.action]
  BY <1>2 DEF Shape
<1>4. /\ charge.action = Entry("on_hold", "none", charge.action.at)
      /\ charge.action.at \in Nat /\ charge.action.at < now
      /\ \A i \in 1..Len(charge.committed) : charge.committed[i].at <= charge.action.at
  BY <1>1, <1>2 DEF Shape, HeldBack, Timing, PollClock
<1>5. /\ h = Truth(now) /\ h \in Seq(Moment) /\ Distinct(h) /\ h # <<>>
      /\ Last(h) = charge.action
  <2>1. h = Truth(now)
    BY <1>2 DEF Truth
  <2>2. charge.mode # "none"
    BY <1>2
  <2>3. Originated
    BY <2>2 DEF Shape
  <2> QED
    BY <1>1, <1>2, <2>1, <2>3, TruthIs
<1>6. h = charge.committed \o <<charge.action>>
  BY <1>2 DEF History
<1>7. \A i \in 1..Len(h) : h[i].at < now
  <2>1. charge.committed \in Seq(Moment) /\ charge.action \in Moment
    <3>1. charge.action.at \in Nat /\ charge.action = [status |-> "on_hold", code |-> "none", at |-> charge.action.at]
      BY <1>4 DEF Entry
    <3>2. charge.action \in Moment
      BY <3>1 DEF Moment, Codes, Statuses, Settled
    <3> QED
      BY <1>2, <3>2 DEF Shape, Charged
  <2>2. <<charge.action>> \in Seq(Moment) /\ Len(<<charge.action>>) = 1
        /\ <<charge.action>>[1] = charge.action
    BY <2>1
  <2>3. \A i \in 1..Len(h) : \/ i \in 1..Len(charge.committed) /\ h[i] = charge.committed[i]
                             \/ /\ i - Len(charge.committed) \in 1..Len(<<charge.action>>)
                                /\ h[i] = <<charge.action>>[i - Len(charge.committed)]
    BY <1>6, <2>1, <2>2, Parts
  <2>4. \A i \in 1..Len(charge.committed) : charge.committed[i].at \in Nat
    <3>1. \A i \in 1..Len(charge.committed) : charge.committed[i] \in Moment
      BY ONLY <2>1
    <3> QED
      BY <3>1 DEF Moment
  <2> HIDE DEF h
  <2>5. ASSUME NEW i \in 1..Len(h) PROVE h[i].at < now
    <3>1. CASE i \in 1..Len(charge.committed) /\ h[i] = charge.committed[i]
      BY <1>1, <1>4, <2>4, <3>1
    <3>2. CASE /\ i - Len(charge.committed) \in 1..Len(<<charge.action>>)
               /\ h[i] = <<charge.action>>[i - Len(charge.committed)]
      <4>1. i - Len(charge.committed) = 1
        BY <2>2, <3>2
      <4> QED
        BY <1>4, <2>2, <3>2, <4>1
    <3> QED
      BY <2>3, <3>1, <3>2
  <2> QED
    BY <2>5
<1> HIDE DEF h
<1>8. Charged'
  BY <1>1, <1>2, <1>3, <1>5 DEF Charged, Shape
<1>9. Originated' /\ Served("release")' /\ Served("hold")' /\ ~Served("cancel")'
  BY <1>1 DEF Way, Course, Path, Served
<1>10. Running'
  <2>1. Last(h).status = "on_hold"
    BY <1>4, <1>5 DEF Entry
  <2> QED
    BY <1>1, <1>3, <1>5, <1>7, <1>9, <2>1 DEF Running
<1>11. Shape'
  BY <1>3, <1>8, <1>9, <1>10 DEF Shape
<1>12. Truth(now)' = h \o Projected(charge', now)
  BY <1>1, <1>3 DEF Truth, History
<1>13. Projected(charge', now) \in Seq(Moment)
  <2>1. charge'.schedule = charge.schedule /\ charge'.base = now
    BY <1>3
  <2>2. Originated /\ Charged
    BY <1>2 DEF Shape
  <2>3. Orderly(charge.schedule) /\ \A e \in ToSet(charge.schedule) : e.code \in Codes
    BY <2>2, PlanFits
  <2> QED
    BY <1>1, <2>1, <2>3, ProjectedIs
<1> QED
  BY <1>5, <1>11, <1>12, <1>13, BelowMore

(* The charge keeps its shape with every step, and its history only grows.   *)
LEMMA ShapeKept ==
  ASSUME OrderlyPlans, SettledPlans, PollClock, Way, Timing, Shape, [Next]_vars
  PROVE  Shape' /\ Below(Truth(now), Truth(now)')
<1>1. CASE ~Honour
  BY <1>1, ShapeUntouched
<1>2. CASE Honour
  <2>1. Way' /\ now \in Nat
    BY WayKept DEF PollClock
  <2>2. CASE Opens
    BY <1>2, <2>1, <2>2, ShapeOpened
  <2>3. CASE Acts
    <3>1. CASE step \in {"hold", "cancel"}
      BY <1>2, <2>1, <2>3, <3>1, ShapeStopped
    <3>2. CASE step = "release"
      BY <1>2, <2>1, <2>3, <3>2, ShapeResumed
    <3> QED
      BY <2>3, <3>1, <3>2 DEF Acts
  <2>4. CASE step \in {"customer", "paykey"} /\ charge' = charge
    <3>1. UNCHANGED <<id, now, step, poll>> /\ keys' = keys \cup {<<step, 1>>}
      BY <1>2, HonourDoes
    <3>2. ~Originated /\ ~Originated'
      BY <2>1, <2>4, <3>1 DEF Way, Course
    <3>3. Truth(now)' = Truth(now) /\ Truth(now) = <<>>
      BY <2>4, <3>1, <3>2 DEF Truth, Shape
    <3>4. Below(<<>>, <<>>)
      BY DEF Below
    <3> QED
      BY <2>4, <3>2, <3>3, <3>4 DEF Shape
  <2> QED
    BY <1>2, <2>2, <2>3, <2>4, HonourDoes
<1> QED
  BY <1>1, <1>2

(* In every state, so also in the next.                                      *)
LEMMA TruthIsHistory ==
  OrderlyPlans /\ SettledPlans /\ Way /\ Shape /\ now \in Nat => Truth(now) \in Seq(Moment)
BY TruthIs

(* The true history is a sequence of moments after every step.              *)
LEMMA TruthStaysHistory ==
  ASSUME OrderlyPlans, SettledPlans, Way', Shape', (now \in Nat)'
  PROVE  Truth(now)' \in Seq(Moment)
<1>1. (OrderlyPlans /\ SettledPlans /\ Way /\ Shape /\ now \in Nat => Truth(now) \in Seq(Moment))'
  BY TruthIsHistory, PTL
<1> QED
  BY <1>1

-----------------------------------------------------------------------------
(* The evidence: the changes of a beginning of the true history, of which a
   later answer tells all that was noted before.  While the run goes on, a
   status that was noted as repeated is the last one noted.                  *)
Witness(h) ==
  /\ h \in Seq(Moment) /\ trans = Changes(h) /\ Below(h, Truth(now))
  /\ step # "done" => Settling(h)
  /\ call.st = "ok" =>
       call.seen \in Seq(Moment) /\ Below(h, call.seen) /\ Below(call.seen, Truth(now))

Evidence == \E h : Witness(h)

(* A history told before watching ends: a repeated status is its last one.   *)
LEMMA SeenSettles ==
  ASSUME OrderlyPlans, SettledPlans, Way, Shape, now \in Nat,
         NEW q \in Seq(Moment), Below(q, Truth(now)),
         id \notin {"h", "i"} =>
           now <= MaxLag \/ q = <<>> \/ Last(q).status \notin Closing(id)
  PROVE  Settling(q)
<1>1. Len(q) \in Nat /\ Len(q) <= Len(Truth(now)) /\ \A i \in 1..Len(q) : q[i] = Truth(now)[i]
  BY DEF Below
<1>2. \A i \in 1..Len(q) : q[i].at \in Nat
  <2>1. \A i \in 1..Len(q) : q[i] \in Moment
    OBVIOUS
  <2> QED
    BY <2>1 DEF Moment
<1> SUFFICES ASSUME NEW j \in 2..Len(q), q[j].status = q[j - 1].status
             PROVE  q[Len(q)].status = q[j].status
  BY DEF Settling
<1>3. j \in 1..Len(q) /\ j - 1 \in 1..Len(q) /\ Len(q) \in 1..Len(q) /\ q # <<>>
  BY <1>1
<1>4. CASE id \in {"h", "i"}
  <2>1. NoRepeat(Truth(now)) /\ Truth(now) \in Seq(Moment)
    BY <1>4, TruthIs
  <2>2. j \in 2..Len(Truth(now)) /\ Truth(now)[j] = q[j] /\ Truth(now)[j - 1] = q[j - 1]
    <3>1. Len(Truth(now)) \in Nat
      BY ONLY <2>1
    <3> QED
      BY <1>1, <1>3, <3>1
  <2> QED
    BY <2>1, <2>2 DEF NoRepeat
<1>5. CASE ~Originated
  <2>1. Truth(now) = <<>>
    BY <1>5, TruthIs
  <2> QED
    BY <1>1, <2>1
<1>6. CASE Originated /\ id \notin {"h", "i"}
  <2> DEFINE p == charge.schedule
             P == Projected(charge, now)
  <2>1. charge.mode = "running" /\ Truth(now) = P /\ Charged
    BY <1>6, TruthIs DEF Shape
  <2>2. /\ Orderly(p) /\ RepeatsToTheEnd(id, p) /\ charge.base \in Nat
        /\ \A e \in ToSet(p) : e.code \in Codes
    BY <1>6, <2>1, PlanFits DEF Charged
  <2>3. /\ P \in Seq(Moment) /\ Len(P) <= Len(p)
        /\ \A i \in 1..Len(P) : /\ P[i].status = p[i].status
                                /\ P[i].at = p[i].at + charge.base /\ P[i].at <= now
    BY <2>2, ProjectedIs
  <2>4. DOMAIN p = 1..Len(p) /\ Len(p) \in Nat /\ \A i \in 1..Len(p) : p[i].at \in Nat
    BY <2>2, OrderlyIs
  <2> HIDE DEF p, P
  <2>5. Len(P) \in Nat /\ Len(q) <= Len(P)
    <3>1. Len(P) \in Nat
      BY ONLY <2>3
    <3> QED
      BY <1>1, <2>1, <3>1
  <2>6. \A i \in 1..Len(q) : /\ i \in 1..Len(p) /\ q[i].status = p[i].status
                             /\ p[i].at + charge.base <= now
    <3> SUFFICES ASSUME NEW i \in 1..Len(q)
                 PROVE  /\ i \in 1..Len(p) /\ q[i].status = p[i].status
                        /\ p[i].at + charge.base <= now
      OBVIOUS
    <3>1. i \in 1..Len(P) /\ i \in 1..Len(p)
      <4>1. Len(P) <= Len(p) /\ Len(p) \in Nat
        BY <2>3, <2>4
      <4> QED
        BY ONLY <1>1, <2>5, <4>1
    <3>2. q[i] = P[i]
      BY <1>1, <2>1
    <3> QED
      BY <2>3, <3>1, <3>2
  <2>7. (j - 1) + 1 = j /\ p[j - 1].status = p[j].status
    BY <1>3, <2>6
  <2>8. \A k \in 1..Len(p) : k > j => \/ p[k].status = p[j].status
                                      \/ p[k].status \in Closing(id) /\ p[k].at > MaxLag
    BY <1>3, <2>2, <2>4, <2>6, <2>7 DEF RepeatsToTheEnd
  <2>9. CASE Len(q) = j
    BY <2>9
  <2>10. CASE Len(q) > j
    <3>1. \/ q[Len(q)].status = q[j].status
          \/ q[Len(q)].status \in Closing(id) /\ p[Len(q)].at > MaxLag
      BY <1>3, <2>6, <2>8, <2>10
    <3>2. ~ (now <= MaxLag /\ p[Len(q)].at > MaxLag)
      BY <1>3, <2>2, <2>4, <2>6, PolicyAssumption
    <3> QED
      BY <1>3, <1>6, <3>1, <3>2 DEF Last
  <2> QED
    BY <1>1, <1>3, <2>9, <2>10
<1> QED
  BY <1>4, <1>5, <1>6

(* An answer tells the history as it was when the sandbox answered.          *)
LEMMA SeenIs ==
  ASSUME CallShape, Attempts, call'.st = "ok"
  PROVE  \/ call' = call
         \/ call'.seen = Truth(now)'
<1>1. ASSUME NEW r, Reply(r), now' = now
      PROVE  call'.seen = Truth(now)'
  <2>1. PICK st \in {r, "broken", "garbled"} :
          call' = [call EXCEPT !.st = st,
                     !.seen = IF charge'.mode = "none" THEN <<>> ELSE History(charge', now)]
    BY <1>1 DEF Reply
  <2> DEFINE seen == IF charge'.mode = "none" THEN <<>> ELSE History(charge', now)
  <2>2. call' = [call EXCEPT !.st = st, !.seen = seen]
    BY <2>1
  <2>3. seen = Truth(now)'
    BY <1>1 DEF Truth
  <2> HIDE DEF seen
  <2>4. call'.seen = seen
    BY <2>2 DEF CallShape
  <2> QED
    BY <2>3, <2>4
<1>2. CASE Honour \/ Repeat \/ Refuse
  <2>1. now' = now
    BY <1>2 DEF Honour, Repeat, Refuse
  <2>2. CASE Honour \/ Repeat
    <3>1. Reply("ok")
      BY <2>2 DEF Honour, Repeat
    <3> QED
      BY <1>1, <2>1, <3>1
  <2>3. CASE Refuse
    <3>1. Reply("refused")
      BY <2>3 DEF Refuse
    <3> QED
      BY <1>1, <2>1, <3>1
  <2> QED
    BY <1>2, <2>2, <2>3
<1>3. CASE Wait
  BY <1>3 DEF Wait
<1>4. CASE Drop \/ Retry \/ TurnCome
  <2>1. CASE Drop
    <3>1. call' = [st |-> "broken", attempt |-> call.attempt, seen |-> call.seen]
      BY <2>1 DEF Drop, CallShape
    <3> QED
      BY <3>1
  <2>2. CASE Retry
    <3>1. call' = [st |-> "sent", attempt |-> call.attempt + 1, seen |-> <<>>]
      BY <2>2 DEF Retry, CallShape
    <3> QED
      BY <3>1
  <2>3. CASE TurnCome
    <3>1. call' = [st |-> "sent", attempt |-> call.attempt, seen |-> call.seen]
      BY <2>3 DEF TurnCome, CallShape
    <3> QED
      BY <3>1
  <2> QED
    BY <1>4, <2>1, <2>2, <2>3
<1>5. CASE StartCall \/ PollCycle
  BY <1>5 DEF StartCall, PollCycle, Send, NoCall
<1> QED
  BY <1>2, <1>3, <1>4, <1>5 DEF Attempts, Sandboxed

(* What the runner does with an answer: it notes it whole or not at all.     *)
LEMMA MovesNote ==
  ASSUME Way, Moves
  PROVE  \/ trans' = trans
         \/ /\ Succeed \/ PollAnswer
            /\ call.st = "ok" /\ trans' = Observe(trans, call.seen)
<1>1. CASE PollTimeout
  BY <1>1 DEF PollTimeout, Blame
<1>2. CASE NotRefused
  BY <1>2 DEF NotRefused, Blame
<1>3. CASE Fail
  BY <1>3 DEF Fail, Refusal, Missed, GiveUpPoll, GiveUp, Blame, evidence
<1>4. CASE Succeed \/ PollAnswer
  BY <1>4 DEF Succeed, PollAnswer
<1> QED
  BY <1>1, <1>2, <1>3, <1>4 DEF Moves

(* An answer after which the run goes on is told before watching ends.       *)
LEMMA NotedSettles ==
  ASSUME OrderlyPlans, SettledPlans, PollClock, Timing, Way, Shape,
         Succeed \/ PollAnswer, step' # "done",
         call.seen \in Seq(Moment), Below(call.seen, Truth(now))
  PROVE  Settling(call.seen)
<1>1. CASE id \in {"h", "i"}
  BY <1>1, SeenSettles DEF PollClock
<1>2. CASE id \notin {"h", "i"} /\ Succeed
  <2>1. step \in Created \cup {"review"}
    <3>1. step \in Steps /\ step \notin PollSteps
      BY <1>2 DEF Succeed, Way, Path, NoCall
    <3> QED
      BY <1>2, <3>1 DEF Way, Path, Steps, Actions
  <2>2. now <= MaxLag
    BY <2>1, PolicyAssumption DEF Timing
  <2> QED
    BY <2>2, SeenSettles DEF PollClock
<1>3. CASE id \notin {"h", "i"} /\ PollAnswer
  <2>1. step = "settle"
    BY <1>3 DEF PollAnswer, Way, Path, PollSteps
  <2>2. AfterPoll => step' = "done"
    BY <2>1 DEF AfterPoll, Complete
  <2>3. ~ IsSettled(Last(call.seen).status, trans')
    BY <1>3, <2>2 DEF PollAnswer
  <2>4. Last(call.seen).status \notin Closing(id)
    BY <2>1, <2>3 DEF IsSettled, Closing, ExpectsReversal
  <2> QED
    BY <2>4, SeenSettles DEF PollClock
<1> QED
  BY <1>1, <1>2, <1>3

(* What is noted is the changes of what was answered, and more than before.  *)
LEMMA NotedWhole ==
  ASSUME OrderlyPlans, SettledPlans, Way, Shape, now \in Nat, Evidence, step # "done",
         call.st = "ok", trans' = Observe(trans, call.seen)
  PROVE  /\ call.seen \in Seq(Moment) /\ Below(call.seen, Truth(now))
         /\ trans' = Changes(call.seen)
         /\ trans \in Seq(Transition) /\ Below(trans, trans')
<1> DEFINE s == call.seen
<1>1. PICK h : Witness(h)
  BY DEF Evidence
<1>2. /\ h \in Seq(Moment) /\ trans = Changes(h) /\ Settling(h)
      /\ s \in Seq(Moment) /\ Below(h, s) /\ Below(s, Truth(now))
  BY <1>1 DEF Witness
<1>3. Truth(now) \in Seq(Moment) /\ Tidy(Truth(now))
  BY TruthIs
<1>4. trans' = Observe(trans, s)
  OBVIOUS
<1> HIDE DEF s
<1>5. Tidy(s)
  <2>1. Len(s) \in Nat /\ Len(Truth(now)) \in Nat
    BY ONLY <1>2, <1>3
  <2>2. \A i \in 1..Len(s) : i \in 1..Len(Truth(now)) /\ s[i] = Truth(now)[i]
    BY <1>2, <2>1 DEF Below
  <2>3. \A i, j \in 1..Len(s) : i < j => j - 1 \in 1..Len(s)
    BY <2>1
  <2> QED
    BY <1>3, <2>2, <2>3 DEF Tidy
<1>6. trans' = Changes(s)
  BY <1>2, <1>4, <1>5, Reobserved
<1>7. trans \in Seq(Transition) /\ Below(trans, Changes(s))
  BY <1>2, ChangesGrow
<1> QED
  BY <1>2, <1>6, <1>7 DEF s

(* The evidence stays a reading of the true history, whatever the step.     *)
LEMMA EvidenceKept ==
  ASSUME OrderlyPlans, SettledPlans, PollClock, Timing, Way, Shape, Evidence,
         [Next]_vars
  PROVE  Evidence'
<1>1. PICK h : Witness(h)
  BY DEF Evidence
<1>2. h \in Seq(Moment) /\ Below(h, Truth(now)) /\ Truth(now) \in Seq(Moment) /\ now \in Nat
  BY <1>1, TruthIs DEF Witness, PollClock
<1>3. Below(Truth(now), Truth(now)')
  BY ShapeKept
<1>4. Truth(now)' \in Seq(Moment)
  <2>1. Way' /\ Shape' /\ PollClock'
    BY WayKept, ShapeKept, ClockKept
  <2>2. (now \in Nat)'
    BY <2>1 DEF PollClock
  <2> QED
    BY <2>1, <2>2, TruthStaysHistory
<1>5. Below(h, Truth(now)')
  BY <1>2, <1>3, <1>4, BelowBelow
<1>6. CASE Attempts
  <2>1. UNCHANGED <<step, trans>> /\ step # "done"
    BY <1>6, AttemptsStay DEF Way, evidence
  <2>2. call'.st = "ok" =>
          call'.seen \in Seq(Moment) /\ Below(h, call'.seen) /\ Below(call'.seen, Truth(now)')
    <3> SUFFICES ASSUME call'.st = "ok"
                 PROVE  /\ call'.seen \in Seq(Moment) /\ Below(h, call'.seen)
                        /\ Below(call'.seen, Truth(now)')
      OBVIOUS
    <3>1. CASE call' = call
      <4>1. call.seen \in Seq(Moment) /\ Below(h, call.seen) /\ Below(call.seen, Truth(now))
        BY <1>1, <3>1 DEF Witness
      <4> QED
        BY <1>2, <1>3, <1>4, <3>1, <4>1, BelowBelow
    <3>2. CASE call'.seen = Truth(now)'
      <4> HIDE DEF Truth
      <4>1. Below(Truth(now)', Truth(now)')
        BY <1>4, BelowItself
      <4> QED
        BY <1>4, <1>5, <3>2, <4>1
    <3> QED
      BY <1>6, <3>1, <3>2, SeenIs DEF Way
  <2>3. Witness(h)'
    BY <1>1, <1>5, <2>1, <2>2 DEF Witness
  <2> QED
    BY <2>3 DEF Evidence
<1>7. CASE Moves
  <2>1. /\ UNCHANGED <<id, now, charge>> /\ call' = NoCall /\ step \in Steps
    BY <1>7, MovesLead DEF Way
  <2>2. call'.st # "ok" /\ step # "done"
    BY <2>1 DEF NoCall, Steps, Created, Actions, PollSteps
  <2>3. CASE trans' = trans
    <3>1. Witness(h)'
      BY <1>1, <1>5, <2>2, <2>3 DEF Witness
    <3> QED
      BY <3>1 DEF Evidence
  <2>4. CASE /\ Succeed \/ PollAnswer
             /\ call.st = "ok" /\ trans' = Observe(trans, call.seen)
    <3> DEFINE s == call.seen
    <3>1. s \in Seq(Moment) /\ Below(s, Truth(now)) /\ trans' = Changes(s)
      BY <1>2, <2>2, <2>4, NotedWhole
    <3>2. step' # "done" => Settling(s)
      BY <2>4, <3>1, NotedSettles
    <3>3. Below(s, Truth(now)')
      BY <1>2, <1>3, <1>4, <3>1, BelowBelow
    <3> HIDE DEF s
    <3>4. \E q : Witness(q)'
      BY <2>2, <3>1, <3>2, <3>3 DEF Witness
    <3> QED
      BY <3>4 DEF Evidence
  <2> QED
    BY <1>7, <2>3, <2>4, MovesNote
<1>8. CASE UNCHANGED vars
  <2>1. UNCHANGED <<step, trans, call, now, charge>>
    BY <1>8 DEF vars, evidence, sandboxVars
  <2>2. Truth(now)' = Truth(now)
    BY <2>1 DEF Truth
  <2>3. Witness(h)'
    BY <1>1, <2>1, <2>2 DEF Witness
  <2> QED
    BY <2>3 DEF Evidence
<1> QED
  BY <1>6, <1>7, <1>8, EveryStep

(* All of it together. *)
Watch == PollClock /\ Way /\ Timing /\ Shape /\ Evidence

(* The inductive invariant, at the start.                                   *)
LEMMA WatchBegins == Init => Watch
<1> SUFFICES ASSUME Init PROVE Watch
  OBVIOUS
<1>1. PollClock
  BY DEF Init, PollClock
<1>2. Way
  BY WayBegins
<1>3. Timing
  BY PolicyAssumption DEF Init, Timing, Created
<1>4. ~Originated
  BY DEF Init, Originated, Served
<1>5. Shape
  BY <1>4 DEF Init, Shape, NoCharge
<1>6. Evidence
  <2>1. <<>> \in Seq(Moment) /\ Len(<<>>) = 0
    OBVIOUS
  <2>2. Changes(<<>>) = <<>>
    BY <2>1, ChangesTell
  <2>3. Truth(now) = <<>>
    BY DEF Init, NoCharge, Truth
  <2>4. Witness(<<>>)
    BY <2>1, <2>2, <2>3 DEF Init, Witness, Below, Settling, NoCall
  <2> QED
    BY <2>4 DEF Evidence
<1> QED
  BY <1>1, <1>2, <1>3, <1>5, <1>6 DEF Watch

(* The inductive invariant, step by step.                                   *)
LEMMA WatchKept ==
  ASSUME OrderlyPlans, SettledPlans, Watch, [Next]_vars
  PROVE  Watch'
BY ClockKept, WayKept, TimingKept, ShapeKept, EvidenceKept DEF Watch

(* The transitions a run reports are the first changes of the charge's true
   history, in order, complete and without invention: whatever is held,
   released, cancelled, lost or late (runner.ts observeCharge).              *)
THEOREM EvidenceIsTheTruth ==
  ASSUME OrderlyPlans, SettledPlans
  PROVE  Spec => []EvidenceFaithful
<1>1. Watch => EvidenceFaithful
  <2> SUFFICES ASSUME Watch PROVE EvidenceFaithful
    OBVIOUS
  <2>1. PICK h : h \in Seq(Moment) /\ trans = Changes(h) /\ Below(h, Truth(now))
    BY DEF Watch, Evidence, Witness
  <2>2. Truth(now) \in Seq(Moment)
    BY TruthIs DEF Watch, PollClock
  <2>3. trans \in Seq(Transition) /\ Below(trans, TrueChanges(now))
    BY <2>1, <2>2, ChangesGrow DEF TrueChanges
  <2>4. TrueChanges(now) \in Seq(Transition)
    BY <2>2, ChangesTell DEF TrueChanges
  <2> QED
    BY <2>3, <2>4, BelowIsPrefix DEF EvidenceFaithful
<1>2. Watch /\ [Next]_vars => Watch'
  BY WatchKept
<1> QED
  BY <1>1, <1>2, WatchBegins, PTL DEF Spec

-----------------------------------------------------------------------------
(* What is told to the runner is enough for its verdict: that a charge was on
   hold once it is to be released, and something of the schedule that follows
   the last action once the run waits for its end.                           *)
Told ==
  /\ id = "h" /\ step \in {"confirm", "release", "settle"} =>
       \E n \in 1..Len(trans) : trans[n].to = "on_hold"
  /\ step = "hold" /\ call.st = "ok" =>
       \E i \in 1..Len(call.seen) : call.seen[i].status = "on_hold"
  /\ step = "settle" /\ call.st = "ok" => Len(call.seen) > Len(charge.committed)

(* Something always follows what was committed.                              *)
LEMMA TruthGoesOn ==
  ASSUME OrderlyPlans, SettledPlans, Way, Shape, now \in Nat, Originated
  PROVE  Len(Truth(now)) > Len(charge.committed)
<1> DEFINE segment == IF charge.mode = "running" THEN Projected(charge, now) ELSE <<charge.action>>
           C == charge.committed
<1>1. charge.mode # "none" /\ Charged
  BY DEF Shape
<1>2. Truth(now) = C \o segment
  BY <1>1 DEF Truth, History
<1>3. segment \in Seq(Moment) /\ segment # <<>>
  <2>1. CASE charge.mode = "running"
    <3>1. /\ Orderly(charge.schedule) /\ charge.base \in Nat /\ charge.base <= now
          /\ \A e \in ToSet(charge.schedule) : e.code \in Codes
      BY <1>1, PlanFits DEF Charged
    <3>2. Projected(charge, now) \in Seq(Moment) /\ Projected(charge, now) # <<>>
      BY <3>1, ProjectedIs
    <3> QED
      BY <2>1, <3>2
  <2>2. CASE charge.mode # "running"
    <3>1. charge.mode \in {"held", "cancelled"}
      BY <1>1, <2>2 DEF Shape
    <3>2. charge.action.at \in Nat /\ (\/ charge.action = Entry("on_hold", "none", charge.action.at)
                                       \/ charge.action = Entry("cancelled", "none", charge.action.at))
      BY <3>1 DEF Shape, HeldBack, CancelledOff
    <3>3. charge.action \in Moment
      BY <3>2 DEF Entry, Moment, Codes, Statuses, Settled
    <3> QED
      BY <2>2, <3>3
  <2> QED
    BY <2>1, <2>2
<1>4. C \in Seq(Moment)
  BY <1>1 DEF Charged
<1> HIDE DEF segment, C
<1>5. Len(Truth(now)) = Len(C) + Len(segment)
  BY <1>2, <1>3, <1>4, Parts
<1>6. Len(C) \in Nat /\ Len(segment) \in Nat \ {0}
  BY ONLY <1>3, <1>4, EmptySeq
<1> QED
  BY <1>5, <1>6 DEF C

(* In every state, so also in the next.                                      *)
LEMMA TruthTells ==
  OrderlyPlans /\ SettledPlans /\ Way /\ Shape /\ now \in Nat =>
    /\ Originated => Len(Truth(now)) > Len(charge.committed)
    /\ charge.mode = "held" => \E i \in 1..Len(Truth(now)) : Truth(now)[i].status = "on_hold"
<1> SUFFICES ASSUME OrderlyPlans, SettledPlans, Way, Shape, now \in Nat
             PROVE  /\ Originated => Len(Truth(now)) > Len(charge.committed)
                    /\ charge.mode = "held" =>
                         \E i \in 1..Len(Truth(now)) : Truth(now)[i].status = "on_hold"
  OBVIOUS
<1>1. ASSUME charge.mode = "held"
      PROVE  \E i \in 1..Len(Truth(now)) : Truth(now)[i].status = "on_hold"
  <2>1. charge.mode # "none"
    BY <1>1
  <2>2. Originated
    BY <2>1 DEF Shape
  <2>3. Truth(now) # <<>> /\ Last(Truth(now)) = charge.action /\ Truth(now) \in Seq(Moment)
    BY <1>1, <2>2, TruthIs
  <2>4. charge.action.status = "on_hold"
    BY <1>1 DEF Shape, HeldBack, Entry
  <2>5. Len(Truth(now)) \in 1..Len(Truth(now))
    BY ONLY <2>3, EmptySeq
  <2> QED
    BY <2>3, <2>4, <2>5 DEF Last
<1> QED
  BY <1>1, TruthGoesOn

(* What the true history holds beyond its committed part, after a step.     *)
LEMMA TruthTellsNext ==
  ASSUME OrderlyPlans, SettledPlans, Way', Shape', (now \in Nat)'
  PROVE  /\ Originated' => Len(Truth(now)') > Len(charge'.committed)
         /\ charge'.mode = "held" =>
              \E i \in 1..Len(Truth(now)') : (Truth(now)')[i].status = "on_hold"
<1>1. (OrderlyPlans /\ SettledPlans /\ Way /\ Shape /\ now \in Nat =>
         /\ Originated => Len(Truth(now)) > Len(charge.committed)
         /\ charge.mode = "held" =>
              \E i \in 1..Len(Truth(now)) : Truth(now)[i].status = "on_hold")'
  BY TruthTells, PTL
<1> QED
  BY <1>1

(* What an answer in flight tells stays true of the charge.                 *)
LEMMA ToldKept ==
  ASSUME OrderlyPlans, SettledPlans, Watch, Told, [Next]_vars
  PROVE  Told'
<1>1. Way' /\ Shape' /\ (now \in Nat)' /\ now \in Nat
  BY WatchKept DEF Watch, PollClock
<1>2. /\ Originated' => Len(Truth(now)') > Len(charge'.committed)
      /\ charge'.mode = "held" =>
           \E i \in 1..Len(Truth(now)') : (Truth(now)')[i].status = "on_hold"
  BY <1>1, TruthTellsNext
<1>3. CASE Attempts
  <2>1. UNCHANGED <<id, step, trans>>
    BY <1>3, AttemptsStay DEF Watch, Way, evidence
  <2>2. step' = "hold" /\ call'.st = "ok" =>
          \E i \in 1..Len(call'.seen) : call'.seen[i].status = "on_hold"
    <3> SUFFICES ASSUME step' = "hold", call'.st = "ok"
                 PROVE  \E i \in 1..Len(call'.seen) : call'.seen[i].status = "on_hold"
      OBVIOUS
    <3>1. Served("hold")' /\ ~Served("release")' /\ ~Served("cancel")' /\ Originated'
      BY <1>1 DEF Way, Answers, Course, Path, Reads, GetCustomerReview, GetCharge, GetPayout,
                  PollSteps
    <3>2. charge'.mode = "held"
      BY <1>1, <3>1 DEF Shape
    <3>3. CASE call' = call
      BY <2>1, <3>3 DEF Told
    <3>4. CASE call'.seen = Truth(now)'
      BY <1>2, <3>2, <3>4
    <3> QED
      BY <1>3, <3>3, <3>4, SeenIs DEF Watch, Way
  <2>3. step' = "settle" /\ call'.st = "ok" => Len(call'.seen) > Len(charge'.committed)
    <3> SUFFICES ASSUME step' = "settle", call'.st = "ok"
                 PROVE  Len(call'.seen) > Len(charge'.committed)
      OBVIOUS
    <3>1. Originated'
      BY <1>1 DEF Way, Course
    <3>2. CASE call' = call
      <4>1. ~Honour
        BY <2>1 DEF Honour, Reads, GetCharge, GetPayout, PollSteps
      <4>2. charge' = charge
        BY <4>1, OthersLeave DEF Watch
      <4> QED
        BY <2>1, <3>2, <4>2 DEF Told
    <3>3. CASE call'.seen = Truth(now)'
      BY <1>2, <3>1, <3>3
    <3> QED
      BY <1>3, <3>2, <3>3, SeenIs DEF Watch, Way
  <2> QED
    BY <2>1, <2>2, <2>3 DEF Told
<1>4. CASE Moves
  <2>1. /\ UNCHANGED id /\ call' = NoCall /\ step \in Steps /\ (step' = "done" \/ GoesOn)
    BY <1>4, MovesLead DEF Watch, Way
  <2>2. call'.st # "ok" /\ step # "done"
    BY <2>1 DEF NoCall, Steps, Created, Actions, PollSteps
  <2>3. ASSUME id = "h", step' \in {"confirm", "release", "settle"}
        PROVE  \E n \in 1..Len(trans') : trans'[n].to = "on_hold"
    <3>1. CASE step \in {"confirm", "release", "settle"}
      <4>1. PICK n \in 1..Len(trans) : trans[n].to = "on_hold"
        BY <2>3, <3>1 DEF Told
      <4>2. CASE trans' = trans
        BY <4>1, <4>2
      <4>3. CASE call.st = "ok" /\ trans' = Observe(trans, call.seen)
        <5>1. /\ call.seen \in Seq(Moment) /\ trans' = Changes(call.seen)
              /\ trans \in Seq(Transition) /\ Below(trans, trans')
          BY <1>1, <2>2, <4>3, NotedWhole DEF Watch
        <5>2. trans' \in Seq(Transition)
          BY <5>1, ChangesTell
        <5>3. Len(trans) \in Nat /\ Len(trans') \in Nat
          BY ONLY <5>1, <5>2
        <5> QED
          BY <4>1, <5>1, <5>3 DEF Below
      <4> QED
        BY <1>4, <4>2, <4>3, MovesNote DEF Watch
    <3>2. CASE step \notin {"confirm", "release", "settle"}
      <4>1. step = "hold" /\ call.st = "ok"
        BY <2>1, <2>3, <3>2, FollowingIs DEF GoesOn, PollSteps, Watch, Way
      <4>2. trans' = Observe(trans, call.seen)
        BY <1>4, <4>1 DEF Moves, PollTimeout, Succeed, NotRefused, PollAnswer, Fail, Deliberate,
                          PollSteps
      <4>3. call.seen \in Seq(Moment) /\ trans' = Changes(call.seen)
        BY <1>1, <2>2, <4>1, <4>2, NotedWhole DEF Watch
      <4>4. PICK i \in 1..Len(call.seen) : call.seen[i].status = "on_hold"
        BY <4>1 DEF Told
      <4> QED
        BY <4>3, <4>4, ChangesTell
    <3> QED
      BY <3>1, <3>2
  <2> QED
    BY <2>1, <2>2, <2>3 DEF Told
<1>5. CASE UNCHANGED vars
  BY <1>5 DEF vars, evidence, sandboxVars, Told
<1> QED
  BY <1>3, <1>4, <1>5, EveryStep

-----------------------------------------------------------------------------
(* The end of the history: the whole schedule after the last action.         *)
LEMMA ForeverIs ==
  ASSUME OrderlyPlans, SettledPlans, Way, Shape, now \in Nat, Originated
  PROVE  LET F == Truth(Forever)
             p == charge.schedule
             n == Len(charge.committed)
         IN /\ F \in Seq(Moment) /\ Below(Truth(now), F)
            /\ charge.mode # "running" => Len(F) = n + 1
            /\ charge.mode = "running" =>
                 Len(F) = n + Len(p) /\ \A k \in 1..Len(p) : F[n + k].status = p[k].status
<1> DEFINE p == charge.schedule
           C == charge.committed
           P == Projected(charge, now)
           Q == Projected(charge, Forever)
<1>1. charge.mode \in {"running", "held", "cancelled"} /\ Charged
  BY DEF Shape
<1>2. /\ Orderly(p) /\ charge.base \in Nat /\ C \in Seq(Moment)
      /\ \A e \in ToSet(p) : e.code \in Codes
  BY <1>1, PlanFits DEF Charged
<1>3. Len(p) \in Nat \ {0} /\ \A i \in 1..Len(p) : p[i].at \in Nat
  BY <1>2, OrderlyIs
<1>4. Forever \in Nat /\ Forever = charge.base + p[Len(p)].at
  BY <1>2, <1>3 DEF Forever, Last
<1>5. CASE charge.mode # "running"
  <2>1. Truth(Forever) = Truth(now)
    BY <1>5 DEF Truth, History
  <2>2. Truth(now) \in Seq(Moment)
    BY TruthIs
  <2>3. Truth(now) = C \o <<charge.action>>
    BY <1>1, <1>5 DEF Truth, History
  <2>4. charge.action \in Moment
    <3>1. charge.action.at \in Nat /\ (\/ charge.action = Entry("on_hold", "none", charge.action.at)
                                       \/ charge.action = Entry("cancelled", "none", charge.action.at))
      BY <1>1, <1>5 DEF Shape, HeldBack, CancelledOff
    <3> QED
      BY <3>1 DEF Entry, Moment, Codes, Statuses, Settled
  <2>5. <<charge.action>> \in Seq(Moment) /\ Len(<<charge.action>>) = 1
    BY <2>4
  <2>6. Len(Truth(now)) = Len(C) + 1
    BY <1>2, <2>3, <2>5, Parts
  <2> QED
    BY <1>5, <2>1, <2>2, <2>6, BelowItself
<1>6. CASE charge.mode = "running"
  <2>1. Truth(Forever) = C \o Q /\ Truth(now) = C \o P
    BY <1>6 DEF Truth, History
  <2>2. P \in Seq(Moment) /\ Len(P) <= Len(p)
    BY <1>2, ProjectedIs
  <2>3. /\ Q \in Seq(Moment) /\ Len(Q) <= Len(p)
        /\ \A i \in 1..Len(Q) : Q[i].status = p[i].status
        /\ \A i \in 1..Len(p) : i > Len(Q) => p[i].at + charge.base > Forever
    BY <1>2, <1>4, ProjectedIs
  <2>4. Below(P, Q) \/ Below(Q, P)
    <3>1. CASE now <= Forever
      BY <1>2, <1>4, <3>1, ProjectedGrows
    <3>2. CASE Forever <= now
      BY <1>2, <1>4, <3>2, ProjectedGrows
    <3> QED
      BY <1>4, <3>1, <3>2
  <2> HIDE DEF p, C, P, Q
  <2>5. Len(Q) \in Nat
    BY ONLY <2>3
  <2>6. Len(p) \in 1..Len(p) /\ ~ (p[Len(p)].at + charge.base > Forever)
    BY <1>2, <1>3, <1>4
  <2>7. Len(Q) = Len(p)
    BY <1>3, <2>3, <2>5, <2>6
  <2>8. Below(P, Q)
    <3>1. CASE Below(Q, P)
      <4>1. Q = P
        BY <2>2, <2>3, <2>7, <3>1, BelowFull
      <4> QED
        BY <3>1, <4>1
    <3> QED
      BY <2>4, <3>1
  <2>9. Below(C \o P, C \o Q)
    BY <1>2, <2>2, <2>3, <2>8, BelowAfter
  <2>10. /\ C \o Q \in Seq(Moment) /\ Len(C \o Q) = Len(C) + Len(Q)
         /\ \A i \in 1..Len(Q) : (C \o Q)[Len(C) + i] = Q[i]
    BY <1>2, <2>3, Parts
  <2>11. \A k \in 1..Len(p) : (C \o Q)[Len(C) + k].status = p[k].status
    BY <2>3, <2>7, <2>10
  <2> QED
    BY <1>6, <2>1, <2>7, <2>9, <2>10, <2>11 DEF p, C
<1> QED
  BY <1>1, <1>5, <1>6

(* Once held and later paid, for ever so.                                    *)
LEMMA HeldThenPaid ==
  ASSUME NEW ts \in Seq(Transition), NEW n \in 1..Len(ts), NEW m \in 1..Len(ts), n < m,
         ts[n].to = "on_hold", ts[m].to = "paid"
  PROVE  Occur(<<"on_hold", "paid">>, ts)
<1> DEFINE statuses == <<"on_hold", "paid">>
           at == [k \in 1..2 |-> IF k = 1 THEN n ELSE m]
<1>1. DOMAIN statuses = 1..2 /\ statuses[1] = "on_hold" /\ statuses[2] = "paid"
  OBVIOUS
<1>2. DOMAIN ts = 1..Len(ts)
  OBVIOUS
<1>3. at \in [1..2 -> DOMAIN ts] /\ at[1] = n /\ at[2] = m
  BY <1>2
<1> HIDE DEF statuses, at
<1>4. \A k \in 1..2 : ts[at[k]].to = statuses[k]
  BY <1>1, <1>3
<1>5. \A k, l \in 1..2 : k < l => at[k] < at[l]
  BY <1>3
<1>6. Occur(statuses, ts)
  BY <1>1, <1>3, <1>4, <1>5 DEF Occur
<1> QED
  BY <1>6 DEF statuses

(* Which scenarios wait for a reversal.                                      *)
LEMMA WhoReverses ==
  /\ ~Reverses("h") /\ Reverses("c") /\ Reverses("g")
  /\ \A s \in Terminals : ~Reverses(s)
<1>1. \A s \in Terminals : ~Reverses(s)
  BY ScenariosAre DEF Reverses
<1>2. ~Reverses("h")
  <2> DEFINE statuses == <<"on_hold", "paid">>
  <2>1. Scenario["h"].needs.statuses = statuses
    BY ScenariosAre DEF InOrder
  <2>2. DOMAIN statuses = 1..2 /\ statuses[1] # "reversed" /\ statuses[2] # "reversed"
    OBVIOUS
  <2> HIDE DEF statuses
  <2>3. \A k \in DOMAIN statuses : statuses[k] # "reversed"
    BY <2>2
  <2> QED
    BY <2>1, <2>3 DEF Reverses
<1>3. ASSUME NEW s \in {"c", "g"} PROVE Reverses(s)
  <2> DEFINE statuses == <<"paid", "reversed">>
  <2>1. Scenario[s].needs.statuses = statuses /\ Scenario[s].needs.kind = "ordered_statuses"
    BY ScenariosAre DEF InOrder
  <2>2. 2 \in DOMAIN statuses /\ statuses[2] = "reversed"
    OBVIOUS
  <2> HIDE DEF statuses
  <2> QED
    BY <2>1, <2>2 DEF Reverses
<1> QED
  BY <1>1, <1>2, <1>3

(* An answer that ends the wait for the end decides what the end would.      *)
LEMMA EndIsDecided ==
  ASSUME OrderlyPlans, SettledPlans, Watch, Told, PollAnswer, step = "settle",
         IsSettled(Last(call.seen).status, trans')
  PROVE  Meets(Scenario[id].needs, trans') <=> Meets(Scenario[id].needs, TrueChanges(Forever))
<1> DEFINE q == call.seen
           F == Truth(Forever)
           C == charge.committed
           p == charge.schedule
           L == Len(q)
           k == L - Len(C)
<1>1. /\ Way /\ Shape /\ Evidence /\ now \in Nat /\ Originated /\ call.st = "ok" /\ step # "done"
      /\ trans' = Observe(trans, call.seen)
  BY DEF Watch, PollClock, Way, Course, PollAnswer
<1>2. /\ q \in Seq(Moment) /\ Below(q, Truth(now)) /\ trans' = Changes(q)
      /\ trans \in Seq(Transition) /\ Below(trans, trans')
  BY <1>1, NotedWhole
<1>3. /\ F \in Seq(Moment) /\ Below(Truth(now), F)
      /\ charge.mode # "running" => Len(F) = Len(C) + 1
      /\ charge.mode = "running" =>
           Len(F) = Len(C) + Len(p) /\ \A n \in 1..Len(p) : F[Len(C) + n].status = p[n].status
  BY <1>1, ForeverIs
<1>4. Below(q, F)
  <2>1. Truth(now) \in Seq(Moment)
    BY <1>1, TruthIs
  <2> HIDE DEF q, F
  <2> QED
    BY <1>2, <1>3, <2>1, BelowBelow
<1>5. L > Len(C)
  BY <1>1 DEF Told
<1>6. /\ charge.mode # "none" /\ Charged /\ C \in Seq(Moment)
      /\ id \in Terminals \cup {"c", "g", "h"}
  <2>1. id \in DOMAIN Scenario /\ id # "e"
    BY <1>1, ScenariosAssumption DEF Way, Path, Course
  <2> QED
    BY <1>1, <2>1, ScenariosAre DEF Shape, Charged
<1>7. /\ Orderly(p) /\ SettledToTheEnd(id, p) /\ DOMAIN p = 1..Len(p) /\ Len(p) \in Nat
  <2>1. Orderly(p) /\ SettledToTheEnd(id, p)
    BY <1>1, <1>6, PlanFits
  <2> QED
    BY <2>1, OrderlyIs
<1>8. Len(C) \in Nat /\ L \in Nat /\ Len(F) \in Nat /\ L <= Len(F)
      /\ q # <<>> /\ L \in 1..L /\ L \in 1..Len(F) /\ q[L] = F[L]
  <2>1. Len(C) \in Nat /\ L \in Nat /\ Len(F) \in Nat
    BY ONLY <1>2, <1>3, <1>6
  <2>2. L <= Len(F) /\ \A i \in 1..L : q[i] = F[i]
    BY <1>4 DEF Below
  <2>3. L \in 1..L
    BY <1>5, <2>1
  <2>4. q # <<>>
    BY <2>3
  <2> QED
    BY <2>1, <2>2, <2>3, <2>4
<1>9. IsSettled(q[L].status, trans')
  BY DEF Last
<1>10. TrueChanges(Forever) = Changes(F)
  BY DEF TrueChanges
<1> HIDE DEF q, F, C, p, L, k
<1>11. ASSUME q = F
       PROVE  Meets(Scenario[id].needs, trans') <=> Meets(Scenario[id].needs, TrueChanges(Forever))
  BY <1>2, <1>10, <1>11
<1>12. CASE charge.mode # "running"
  <2>1. Len(F) <= L
    BY <1>3, <1>5, <1>8, <1>12
  <2> QED
    BY <1>2, <1>3, <1>4, <1>11, <2>1, BelowFull DEF L
<1>13. CASE charge.mode = "running"
  <2>1. k \in 1..Len(p) /\ L = Len(C) + k /\ q[L].status = p[k].status
    BY <1>3, <1>5, <1>7, <1>8, <1>13 DEF k
  <2>2. CASE k = Len(p)
    <3>1. Len(F) <= L
      BY <1>3, <1>7, <1>8, <1>13, <2>1, <2>2
    <3> QED
      BY <1>2, <1>3, <1>4, <1>11, <3>1, BelowFull DEF L
  <2>3. CASE k # Len(p)
    <3>1. \A i \in 1..Len(p) : i # Len(p) /\ p[i].status \in Settled =>
            /\ i + 1 \in 1..Len(p)
            /\ p[i].status = "paid" /\ p[i + 1].status = "reversed"
            /\ Scenario[id].needs.kind = "terminal_status" =>
                 Scenario[id].needs.status \notin {"paid", "reversed"}
      <4>1. \A i \in 1..Len(p) : i # Len(p) => i + 1 \in 1..Len(p)
        <5>1. Len(p) \in Nat
          BY <1>7
        <5> QED
          BY ONLY <5>1
      <4> QED
        BY <1>7, <4>1 DEF SettledToTheEnd
    <3>2. CASE id \in Terminals \cup {"h"}
      <4>1. p[k].status \in Settled
        BY <1>9, <2>1, <3>2, WhoReverses DEF IsSettled, ExpectsReversal
      <4>2. k + 1 \in 1..Len(p) /\ p[k].status = "paid" /\ p[k + 1].status = "reversed"
        BY <2>1, <2>3, <3>1, <4>1
      <4>3. LastTo(Changes(q)) = "paid" /\ Changes(q) \in Seq(Transition)
        BY <1>2, <1>8, <2>1, <4>2, ChangesTell DEF Last, L
      <4>4. CASE id \in Terminals
        <5>1. /\ Scenario[id].needs.kind = "terminal_status"
              /\ Scenario[id].needs.status \notin {"paid", "reversed"}
          BY <2>1, <2>3, <3>1, <4>1, <4>4, ScenariosAre
        <5>2. k + 1 = Len(p)
          BY <3>1, <4>2 DEF Settled
        <5>3. F[Len(F)].status = "reversed" /\ F # <<>>
          <6>1. F[Len(C) + (k + 1)].status = "reversed"
            BY <1>3, <1>13, <4>2
          <6>2. Len(F) = Len(C) + (k + 1) /\ Len(F) # 0
            <7>1. Len(F) = Len(C) + Len(p)
              BY <1>3, <1>13
            <7>2. Len(p) \in Nat /\ k \in 1..Len(p) /\ Len(C) \in Nat
              BY <1>7, <1>8, <2>1
            <7> QED
              BY ONLY <5>2, <7>1, <7>2
          <6> QED
            BY <6>1, <6>2
        <5>4. LastTo(Changes(F)) = "reversed"
          BY <1>3, <5>3, ChangesTell DEF Last
        <5> QED
          BY <1>2, <1>10, <4>3, <5>1, <5>4 DEF Meets
      <4>5. CASE id = "h"
        <5>1. PICK n \in 1..Len(trans) : trans[n].to = "on_hold"
          BY <4>5 DEF Told
        <5> DEFINE ts == Changes(q)
                   us == Changes(F)
        <5>2. ts \in Seq(Transition) /\ us \in Seq(Transition) /\ Below(ts, us)
          BY <1>2, <1>3, <1>4, ChangesGrow, ChangesTell
        <5>3. LastTo(ts) = "paid" /\ Below(trans, ts)
          BY <1>2, <4>3
        <5> HIDE DEF ts, us
        <5>4. Len(trans) \in Nat /\ Len(ts) \in Nat /\ Len(us) \in Nat
          BY ONLY <1>2, <5>2
        <5>5. n \in 1..Len(ts) /\ ts[n].to = "on_hold"
          BY <5>1, <5>3, <5>4 DEF Below
        <5>6. ts # <<>> /\ ts[Len(ts)].to = "paid"
          BY <5>3 DEF LastTo, Last
        <5>7. Len(ts) \in 1..Len(ts) /\ n < Len(ts)
          BY <5>4, <5>5, <5>6
        <5>8. Occur(<<"on_hold", "paid">>, ts)
          BY <5>2, <5>5, <5>6, <5>7, HeldThenPaid
        <5>9. /\ n \in 1..Len(us) /\ Len(ts) \in 1..Len(us)
              /\ us[n].to = "on_hold" /\ us[Len(ts)].to = "paid"
          BY <5>2, <5>4, <5>5, <5>6, <5>7 DEF Below
        <5>10. Occur(<<"on_hold", "paid">>, us)
          BY <5>2, <5>7, <5>9, HeldThenPaid
        <5>11. Scenario[id].needs.kind = "ordered_statuses"
               /\ Scenario[id].needs.statuses = <<"on_hold", "paid">>
          BY <4>5, ScenariosAre DEF InOrder
        <5>12. Meets(Scenario[id].needs, ts) /\ Meets(Scenario[id].needs, us)
          BY <5>8, <5>10, <5>11 DEF Meets
        <5> QED
          BY <1>2, <1>10, <5>12 DEF ts, us
      <4> QED
        BY <3>2, <4>4, <4>5
    <3>3. CASE id \in {"c", "g"}
      <4>1. C = <<>>
        BY <1>1, <1>13, <3>3 DEF C, Shape, Running, Way, Course
      <4>2. Len(C) = 0 /\ k = L
        BY <1>8, <2>1, <4>1
      <4>3. p[k].status \notin Settled \ {"paid"}
        BY <2>1, <2>3, <3>1
      <4>4. PICK i \in DOMAIN trans' : trans'[i].to = "reversed"
        BY <1>9, <2>1, <3>3, <4>3, WhoReverses DEF IsSettled, ExpectsReversal
      <4>5. i \in 1..Len(Changes(q)) /\ Changes(q)[i].to = "reversed"
        <5>1. Changes(q) \in Seq(Transition)
          BY <1>2, ChangesTell
        <5>2. DOMAIN Changes(q) = 1..Len(Changes(q))
          BY ONLY <5>1
        <5> QED
          BY <1>2, <4>4, <5>2
      <4>6. PICK j \in 1..Len(q) : q[j].status = "reversed"
        BY <1>2, <4>5, ChangesTell
      <4>7. j \in 1..Len(p) /\ j # Len(p) /\ p[j].status = "reversed"
        <5>1. j \in 1..L /\ q[j] = F[j]
          BY <1>4, <4>6 DEF Below, L
        <5>2. j \in 1..Len(p) /\ j # Len(p) /\ Len(C) + j = j
          <6>1. Len(p) \in Nat /\ k \in 1..Len(p) /\ k # Len(p) /\ k = L /\ Len(C) = 0 /\ j \in 1..L
            BY <1>7, <2>1, <2>3, <4>2, <5>1
          <6> QED
            BY ONLY <6>1
        <5> QED
          BY <1>3, <1>13, <4>6, <5>1, <5>2
      <4> QED
        BY <3>1, <4>7 DEF Settled
    <3> QED
      BY <1>6, <3>2, <3>3
  <2> QED
    BY <2>2, <2>3
<1> QED
  BY <1>12, <1>13

-----------------------------------------------------------------------------
(* How a run ends, and what it blames.                                       *)

Plain(kind) == kind \in {"timeout", "garbled"} \/ step \notin PollSteps

Blamed == \E kind : Plain(kind) /\ diag' = diag \cup {[step |-> step, kind |-> kind]}

Deliberated ==
  /\ Deliberate /\ call.st \in {"refused", "broken"}
  /\ refusal' = IF call.st = "refused" THEN "rejected" ELSE "other"
  /\ UNCHANGED <<review, diag>>

Watched ==
  /\ PollAnswer /\ step = "settle" /\ IsSettled(Last(call.seen).status, trans')
  /\ UNCHANGED diag

(* An outage while polling is never blamed, and a refusal never met there.   *)
LEMMA MovesBlame ==
  ASSUME Way, Moves
  PROVE  /\ Blamed \/ UNCHANGED diag
         /\ step' = "done" =>
              /\ Blamed \/ Deliberated \/ Watched
              /\ verdict' = IF Passes(trans', review', refusal', diag') THEN "passed" ELSE "failed"
<1>1. AfterPoll /\ step' = "done" => step # "confirm" /\ Complete
  BY DEF AfterPoll, GoTo
<1>2. ASSUME NEW kind, Plain(kind), Blame(kind) PROVE Blamed
  BY <1>2 DEF Blamed, Blame
<1>3. CASE PollTimeout
  <2>1. Blamed
    BY <1>2, <1>3 DEF PollTimeout, Plain
  <2> QED
    BY <1>1, <1>3, <2>1 DEF PollTimeout, Complete
<1>4. CASE Succeed
  <2>1. step \in Steps /\ step \notin PollSteps
    BY <1>4 DEF Succeed, Way, Path, NoCall
  <2>2. step' \in Steps
    BY <1>4, <2>1, FollowingIs DEF Succeed, GoTo, Way
  <2>3. step' # "done"
    BY <2>2 DEF Steps, Created, Actions, PollSteps
  <2> QED
    BY <1>4, <2>3 DEF Succeed
<1>5. CASE NotRefused
  <2>1. step \notin PollSteps
    BY <1>5 DEF NotRefused, Deliberate, PollSteps
  <2>2. Blamed
    BY <1>2, <1>5, <2>1 DEF NotRefused, Plain
  <2> QED
    BY <1>5, <2>2 DEF NotRefused, Complete
<1>6. CASE PollAnswer
  <2>1. step \in PollSteps /\ UNCHANGED diag
    BY <1>6 DEF PollAnswer
  <2>2. ASSUME step' = "done" PROVE Watched /\ Complete
    <3>1. IsSettled(Last(call.seen).status, trans') /\ AfterPoll
      BY <1>6, <2>1, <2>2 DEF PollAnswer, PollSteps
    <3> QED
      BY <1>1, <1>6, <2>1, <2>2, <3>1 DEF Watched, PollSteps
  <2> QED
    BY <2>1, <2>2 DEF Complete
<1>7. CASE Fail
  <2>1. PICK kind \in {"refused", "garbled", "unreachable"} :
          /\ call.st = IF kind = "unreachable" THEN "broken" ELSE kind
          /\ Refusal(kind) \/ Missed(kind) \/ GiveUpPoll(kind) \/ GiveUp(kind)
    BY <1>7 DEF Fail
  <2>2. CASE Refusal(kind)
    <3>1. Deliberated
      BY <2>1, <2>2 DEF Refusal, Deliberated
    <3> QED
      BY <2>2, <3>1 DEF Refusal, Complete, Deliberated
  <2>3. CASE Missed(kind)
    <3>1. step' \in PollSteps /\ UNCHANGED diag
      BY <2>3 DEF Missed, evidence
    <3> QED
      BY <3>1 DEF PollSteps
  <2>4. CASE GiveUpPoll(kind)
    <3>1. step \in PollSteps /\ kind # "unreachable"
      BY <2>4 DEF GiveUpPoll, Transient
    <3>2. kind # "refused"
      BY <2>1, <3>1 DEF Way, Answers, Reads, GetCharge, GetPayout
    <3>3. Blamed
      BY <1>2, <2>1, <2>4, <3>1, <3>2 DEF GiveUpPoll, Plain
    <3> QED
      BY <1>1, <2>4, <3>3 DEF GiveUpPoll, Complete
  <2>5. CASE GiveUp(kind)
    <3>1. Blamed
      BY <1>2, <2>5 DEF GiveUp, Plain
    <3> QED
      BY <2>5, <3>1 DEF GiveUp, Complete
  <2> QED
    BY <2>1, <2>2, <2>3, <2>4, <2>5
<1> QED
  BY <1>3, <1>4, <1>5, <1>6, <1>7 DEF Moves

(* Once done, nothing happens.                                               *)
LEMMA DoneIsDone ==
  ASSUME Way, [Next]_vars, step = "done"
  PROVE  UNCHANGED vars
<1>1. ~Attempts
  BY AttemptsStay DEF Way
<1>2. ~Moves
  BY MovesLead DEF Way, Steps, Created, Actions, PollSteps
<1> QED
  BY <1>1, <1>2, EveryStep

(* A charge is not touched by the step that ends the run.                    *)
LEMMA ForeverStays ==
  ASSUME UNCHANGED <<id, charge>>
  PROVE  /\ Meets(Scenario[id].needs, TrueChanges(Forever))' =
              Meets(Scenario[id].needs, TrueChanges(Forever))
         /\ charge'.mode = charge.mode
BY DEF TrueChanges, Truth, Forever

(* Whether the expectations of a scenario with a charge are met decides.     *)
LEMMA PassesIs ==
  ASSUME Way, Shape, charge.mode # "none", NEW ts, NEW rev, NEW ref, NEW dg
  PROVE  Passes(ts, rev, ref, dg) <=> dg = {} /\ Meets(Scenario[id].needs, ts)
<1>1. id \in DOMAIN Scenario /\ id # "e"
  BY ScenariosAssumption DEF Shape, Way, Path, Course
<1>2. Scenario[id].needs.kind \in {"terminal_status", "ordered_statuses"}
  BY <1>1, ScenariosAre DEF InOrder
<1>3. Scenario[id].needs # Rejection
  BY <1>2 DEF Rejection
<1> QED
  BY <1>3 DEF Passes

(* A verdict given stays the one the whole history would give.              *)
LEMMA VerdictKept ==
  ASSUME OrderlyPlans, SettledPlans, Watch, Told, VerdictFinal, [Next]_vars
  PROVE  VerdictFinal'
<1>1. Way /\ Shape /\ Way'
  BY WatchKept DEF Watch
<1>2. CASE step = "done"
  <2>1. UNCHANGED <<id, charge, verdict, diag>>
    BY <1>1, <1>2, DoneIsDone DEF vars, evidence, sandboxVars
  <2> QED
    BY <2>1, ForeverStays DEF VerdictFinal
<1>3. CASE step' # "done"
  BY <1>1, <1>3 DEF Way, Path, VerdictFinal
<1>4. CASE step # "done" /\ step' = "done"
  <2>1. Moves
    <3>1. ~Attempts
      BY <1>1, <1>4, AttemptsStay DEF Way
    <3> QED
      BY <1>4, <3>1, EveryStep DEF vars
  <2>2. UNCHANGED <<id, charge>>
    BY <1>1, <2>1, MovesLead DEF Way
  <2>3. /\ Blamed \/ Deliberated \/ Watched
        /\ verdict' = IF Passes(trans', review', refusal', diag') THEN "passed" ELSE "failed"
    BY <1>1, <1>4, <2>1, MovesBlame
  <2> SUFFICES ASSUME diag' = {}, charge.mode # "none"
               PROVE  (verdict' = "passed") <=> Meets(Scenario[id].needs, TrueChanges(Forever))
    BY <2>2, ForeverStays DEF VerdictFinal
  <2>4. ~Blamed
    BY DEF Blamed
  <2>5. ~Deliberated
    BY <1>1 DEF Deliberated, Deliberate, Shape, Way, Course
  <2>6. Meets(Scenario[id].needs, trans') <=> Meets(Scenario[id].needs, TrueChanges(Forever))
    BY <2>3, <2>4, <2>5, EndIsDecided DEF Watched
  <2>7. Passes(trans', review', refusal', diag') <=> Meets(Scenario[id].needs, trans')
    BY <1>1, PassesIs
  <2> QED
    BY <2>3, <2>6, <2>7
<1> QED
  BY <1>2, <1>3, <1>4

(* Nothing is told, and there is no verdict, at the start.                  *)
LEMMA ToldBegins == Init => Told /\ VerdictFinal
BY DEF Init, Told, VerdictFinal, NoCall

(* A verdict without a diagnostic is the one that watching the charge for
   ever would give (isChargeSettled, evaluateScenario).                      *)
THEOREM VerdictIsFinal ==
  ASSUME OrderlyPlans, SettledPlans
  PROVE  Spec => []VerdictFinal
<1>1. Init => Watch /\ Told /\ VerdictFinal
  BY WatchBegins, ToldBegins
<1>2. Watch /\ Told /\ VerdictFinal /\ [Next]_vars => Watch' /\ Told' /\ VerdictFinal'
  BY WatchKept, ToldKept, VerdictKept
<1> QED
  BY <1>1, <1>2, PTL DEF Spec

-----------------------------------------------------------------------------
(* What is blamed is never an outage while polling; the rejected scenario has
   seen the rejection it is refused for.                                     *)
Cause ==
  /\ \A d \in diag : d.kind \in {"timeout", "garbled"} \/ d.step \notin PollSteps
  /\ id = "e" /\ step = "paykey" => review = customer
  /\ id = "e" /\ call.st = "refused" => customer = "rejected"

(* The cause recorded for a call given up, step by step.                    *)
LEMMA CauseKept ==
  ASSUME Way, Cause, [Next]_vars
  PROVE  Cause'
<1>1. CASE Attempts
  <2>1. /\ UNCHANGED <<id, step, review, diag>>
        /\ UNCHANGED customer \/ Honour
    BY <1>1, AttemptsStay DEF Way, evidence
  <2>2. step = "paykey" => UNCHANGED customer
    BY <2>1 DEF Honour, Create, CreateCustomer, CreatePaykey, CreateCharge, CreatePayout, Alter,
                Actions
  <2>3. id = "e" /\ call'.st = "refused" => customer' = "rejected"
    <3> SUFFICES ASSUME id = "e", call'.st = "refused" PROVE customer' = "rejected"
      OBVIOUS
    <3>1. CASE Honour \/ Repeat
      <4>1. PICK st \in {"ok", "broken", "garbled"} : \E seen : call' = [call EXCEPT !.st = st, !.seen = seen]
        BY <3>1 DEF Honour, Repeat, Reply
      <4>2. call'.st = st
        BY <4>1 DEF Way, CallShape
      <4> QED
        BY <4>2
    <3>2. CASE Refuse
      <4>1. Refused /\ UNCHANGED customer
        BY <3>2 DEF Refuse, sandboxVars
      <4>2. step \notin {"charge", "payout"} \cup Actions
        BY DEF Way, Path, Actions
      <4> QED
        BY <4>1, <4>2 DEF Refused
    <3>3. CASE Drop \/ Retry \/ TurnCome
      <4>1. call'.st \in {"sent", "broken"}
        BY <3>3 DEF Drop, Retry, TurnCome, Way, CallShape
      <4> QED
        BY <4>1
    <3>4. CASE StartCall \/ PollCycle
      BY <3>4 DEF StartCall, PollCycle, Send, NoCall
    <3>5. CASE Wait
      BY <3>5 DEF Wait, sandboxVars, Cause
    <3> QED
      BY <1>1, <3>1, <3>2, <3>3, <3>4, <3>5 DEF Attempts, Sandboxed
  <2> QED
    BY <2>1, <2>2, <2>3 DEF Cause
<1>2. CASE Moves
  <2>1. /\ UNCHANGED <<id, customer>> /\ call' = NoCall /\ step \in Steps
        /\ step' = "done" \/ GoesOn
    BY <1>2, MovesLead DEF Way
  <2>2. \A d \in diag' : d.kind \in {"timeout", "garbled"} \/ d.step \notin PollSteps
    BY <1>2, MovesBlame DEF Cause, Blamed, Plain
  <2>3. id = "e" /\ step' = "paykey" => review' = customer
    <3> SUFFICES ASSUME step' = "paykey" PROVE review' = customer
      OBVIOUS
    <3>1. step \notin PollSteps /\ call.st = "ok" /\ step' = Following /\ ~Deliberate
      BY <2>1 DEF GoesOn, PollSteps
    <3>2. step = "review"
      BY <3>1 DEF Following, PayoutFollowing
    <3>3. Succeed
      BY <1>2, <3>1, <3>2 DEF Moves, PollTimeout, NotRefused, PollAnswer, Fail
    <3> QED
      BY <3>2, <3>3 DEF Succeed
  <2>4. call'.st # "refused"
    BY <2>1 DEF NoCall
  <2> QED
    BY <2>1, <2>2, <2>3, <2>4 DEF Cause
<1>3. CASE UNCHANGED vars
  BY <1>3 DEF vars, evidence, sandboxVars, Cause
<1> QED
  BY <1>1, <1>2, <1>3, EveryStep

(* The cause of a failure, step by step.                                    *)
LEMMA FailureKept ==
  ASSUME OrderlyPlans, SettledPlans, Watch, Told, Cause, FailureHasCause, [Next]_vars
  PROVE  FailureHasCause'
<1>1. Way /\ Shape /\ Way' /\ Cause'
  BY WatchKept, CauseKept DEF Watch
<1>2. CASE step = "done"
  <2>1. UNCHANGED <<id, charge, verdict, diag, refusal>>
    BY <1>1, <1>2, DoneIsDone DEF vars, evidence, sandboxVars
  <2> QED
    BY <2>1, ForeverStays DEF FailureHasCause
<1>3. CASE step' # "done"
  BY <1>1, <1>3 DEF Way, Path, FailureHasCause
<1>4. CASE step # "done" /\ step' = "done"
  <2>1. Moves
    <3>1. ~Attempts
      BY <1>1, <1>4, AttemptsStay DEF Way
    <3> QED
      BY <1>4, <3>1, EveryStep DEF vars
  <2>2. UNCHANGED <<id, charge, customer>>
    BY <1>1, <2>1, MovesLead DEF Way
  <2>3. /\ Blamed \/ Deliberated \/ Watched
        /\ verdict' = IF Passes(trans', review', refusal', diag') THEN "passed" ELSE "failed"
    BY <1>1, <1>4, <2>1, MovesBlame
  <2>4. CASE diag' # {}
    BY <1>1, <2>4 DEF Cause, FailureHasCause
  <2>5. CASE diag' = {} /\ Deliberated
    <3>1. id = "e" /\ step = "paykey" /\ call.st \in {"refused", "broken"} /\ UNCHANGED review
          /\ refusal' = IF call.st = "refused" THEN "rejected" ELSE "other"
      BY <2>5 DEF Deliberated, Deliberate
    <3>2. CASE call.st = "refused"
      <4>1. review' = "rejected" /\ refusal' = "rejected" /\ Scenario[id].needs = Rejection
        BY <3>1, <3>2, ScenariosAre DEF Cause
      <4>2. verdict' = "passed"
        BY <2>3, <2>5, <4>1 DEF Passes
      <4> QED
        BY <4>2 DEF FailureHasCause
    <3>3. CASE call.st = "broken"
      BY <2>2, <3>1, <3>3 DEF FailureHasCause
    <3> QED
      BY <3>1, <3>2, <3>3
  <2>6. CASE diag' = {} /\ Watched
    <3>1. charge.mode # "none"
      BY <1>1, <2>6 DEF Watched, Way, Course, Shape
    <3>2. Meets(Scenario[id].needs, trans') <=> Meets(Scenario[id].needs, TrueChanges(Forever))
      BY <2>6, EndIsDecided DEF Watched
    <3>3. Passes(trans', review', refusal', diag') <=> diag' = {} /\ Meets(Scenario[id].needs, trans')
      BY <1>1, <3>1, PassesIs
    <3>4. verdict' = "failed" => ~ Meets(Scenario[id].needs, TrueChanges(Forever))
      BY <2>3, <2>6, <3>2, <3>3
    <3> QED
      BY <2>2, <3>1, <3>4, ForeverStays DEF FailureHasCause
  <2>7. ~ (diag' = {} /\ Blamed)
    BY DEF Blamed
  <2> QED
    BY <2>3, <2>4, <2>5, <2>6, <2>7
<1> QED
  BY <1>2, <1>3, <1>4

(* A run fails for what the charge did, a timeout, an answer without sense or
   a refused call, and never for an outage while polling (onFetchError).     *)
THEOREM FailuresHaveCauses ==
  ASSUME OrderlyPlans, SettledPlans
  PROVE  Spec => []FailureHasCause
<1>1. Init => Watch /\ Told /\ Cause /\ FailureHasCause
  <2>1. Init => Cause /\ FailureHasCause
    BY DEF Init, Cause, FailureHasCause, NoCall
  <2> QED
    BY <2>1, WatchBegins, ToldBegins
<1>2. Watch /\ Told /\ Cause /\ FailureHasCause /\ [Next]_vars =>
        Watch' /\ Told' /\ Cause' /\ FailureHasCause'
  <2>1. Watch => Way
    BY DEF Watch
  <2> QED
    BY <2>1, WatchKept, ToldKept, CauseKept, FailureKept
<1> QED
  BY <1>1, <1>2, PTL DEF Spec

-----------------------------------------------------------------------------
(* A timeout is earned.  TimeoutIsEarned speaks of one step; what it needs to
   know is when the latest answer of a loop was true (Answered) and that it
   did not end the loop (StillOpen).                                         *)

(* A moment since which the run has only waited. *)
Recent(t) == t \in Nat /\ t <= now /\ now <= t + lag

Exists ==
  /\ charge = [schedule |-> charge.schedule, mode |-> charge.mode, base |-> charge.base,
               committed |-> charge.committed, action |-> charge.action]
  /\ Originated => charge.mode # "none"

Answered ==
  step \in PollSteps /\ call.st = "ok" =>
    \E t : Recent(t) /\ call.seen = History(charge, t)

StillOpen ==
  step \in PollSteps /\ call.st = "none" /\ poll.heard =>
    \E t : Recent(t) /\ ~EndsWatching(StatusAt(charge, t))

(* A charge that was created stays, whatever is done to it. *)
LEMMA ExistsKept ==
  ASSUME Way, Exists, [Next]_vars
  PROVE  Exists'
<1>1. CASE ~Honour
  <2>1. UNCHANGED <<keys, charge>>
    BY <1>1, OthersLeave
  <2> QED
    BY <2>1 DEF Exists, Originated, Served
<1>2. CASE Honour
  <2>1. keys' = keys \cup {<<step, 1>>}
    BY <1>2 DEF Honour, Key
  <2>2. Create \/ (step \in Actions /\ Alter)
    BY <1>2 DEF Honour
  <2>3. CASE CreateCharge \/ CreatePayout
    <3>1. PICK p : charge' = [schedule |-> p, mode |-> "running", base |-> now, committed |-> <<>>,
                              action |-> Entry("created", "none", 0)]
      BY <2>3 DEF CreateCharge, CreatePayout, Originate, NewCharge, NoCharge
    <3> QED
      BY <3>1 DEF Exists
  <2>4. CASE CreateCustomer \/ CreatePaykey
    <3>1. step \in {"customer", "paykey"} /\ UNCHANGED charge
      BY <2>4 DEF CreateCustomer, CreatePaykey
    <3> QED
      BY <2>1, <3>1 DEF Exists, Originated, Served
  <2>5. CASE step \in Actions /\ Alter
    <3>1. charge.mode # "none"
      BY <2>5 DEF Way, Course, Actions, Exists
    <3>2. \/ charge' = charge
          \/ \E h : charge' = [charge EXCEPT !.committed = h, !.mode = "running", !.base = now]
          \/ \E h, a : \E m \in {"held", "cancelled"} :
               charge' = [charge EXCEPT !.committed = h, !.mode = m, !.action = a]
      BY <2>5 DEF Actions, Alter, Hold, Release, Cancel, Act
    <3>3. CASE charge' = charge
      BY <3>1, <3>3 DEF Exists
    <3>4. CASE \E h : charge' = [charge EXCEPT !.committed = h, !.mode = "running", !.base = now]
      BY <3>4 DEF Exists
    <3>5. CASE \E h, a : \E m \in {"held", "cancelled"} :
                 charge' = [charge EXCEPT !.committed = h, !.mode = m, !.action = a]
      BY <3>5 DEF Exists
    <3> QED
      BY <3>2, <3>3, <3>4, <3>5
  <2> QED
    BY <2>2, <2>3, <2>4, <2>5 DEF Create
<1> QED
  BY <1>1, <1>2

(* An answer to a poll tells the charge as it was when the payment API
   answered, and since then the run only waited.                            *)
LEMMA AnsweredKept ==
  ASSUME PollClock, Timing, Way, Exists, Answered, Attempts
  PROVE  Answered' /\ StillOpen'
<1>1. step' = step /\ call'.st # "none"
  BY AttemptsStay DEF Way
<1>2. StillOpen'
  BY <1>1 DEF StillOpen
<1> SUFFICES ASSUME step \in PollSteps, call'.st = "ok"
             PROVE  \E t : Recent(t)' /\ call'.seen = History(charge', t)
  BY <1>1, <1>2 DEF Answered
<1>3. now \in Nat /\ lag \in Nat /\ charge.mode # "none"
  BY PolicyAssumption DEF PollClock, Timing, Exists, Way, Course, Path, PollSteps
<1>4. Reads
  BY DEF Reads, GetCharge, GetPayout
<1>5. CASE Wait
  <2>1. /\ UNCHANGED <<step, call, charge>> /\ now' = now + 1 /\ lag' = lag + 1
    BY <1>5 DEF Wait, sandboxVars
  <2>2. PICK t : Recent(t) /\ call.seen = History(charge, t)
    BY <2>1 DEF Answered
  <2>3. Recent(t)'
    BY <1>3, <2>1, <2>2 DEF Recent
  <2> QED
    BY <2>1, <2>2, <2>3
<1>6. CASE Repeat
  <2>1. UNCHANGED <<now, lag, charge>> /\ call.st = "sent"
    BY <1>6 DEF Repeat, sandboxVars
  <2>2. Attempts /\ call' # call
    BY <2>1
  <2>3. call'.seen = Truth(now)'
    BY <2>2, SeenIs DEF Way
  <2>4. call'.seen = History(charge', now)
    BY <1>3, <2>1, <2>3 DEF Truth
  <2>5. Recent(now)'
    BY <1>3, <2>1 DEF Recent
  <2> QED
    BY <2>1, <2>4, <2>5
<1>7. CASE Honour \/ Refuse
  BY <1>4, <1>7 DEF Honour, Refuse
<1>8. CASE Drop \/ Retry \/ TurnCome
  <2>1. call'.st \in {"sent", "broken"}
    BY <1>8 DEF Drop, Retry, TurnCome, Way, CallShape
  <2> QED
    BY <2>1
<1>9. CASE StartCall \/ PollCycle
  BY <1>9 DEF StartCall, PollCycle, Send, NoCall
<1> QED
  BY <1>5, <1>6, <1>7, <1>8, <1>9 DEF Attempts, Sandboxed

(* A loop that goes on after an answer was told of a charge still open. *)
LEMMA OpenKept ==
  ASSUME PollClock, Way, Answered, Moves
  PROVE  Answered' /\ StillOpen'
<1>1. UNCHANGED <<id, now, lag, charge>> /\ call' = NoCall
  BY MovesLead DEF Way
<1>2. Answered'
  BY <1>1 DEF Answered, NoCall
<1> SUFFICES ASSUME step' \in PollSteps, poll'.heard
             PROVE  \E t : Recent(t)' /\ ~EndsWatching(StatusAt(charge, t))'
  BY <1>1, <1>2 DEF StillOpen
<1>3. ~Complete /\ ~AfterPoll
  BY DEF Complete, AfterPoll, GoTo, PollSteps
<1>4. ~PollTimeout /\ ~NotRefused
  BY <1>3 DEF PollTimeout, NotRefused
<1>5. ~Succeed
  BY DEF Succeed, GoTo
<1>6. ~Fail
  <2>1. Fail => poll' = [poll EXCEPT !.heard = FALSE]
    BY <1>3 DEF Fail, Refusal, Missed, GiveUpPoll, GiveUp
  <2> QED
    BY <2>1 DEF PollClock
<1>7. PollAnswer
  BY <1>4, <1>5, <1>6 DEF Moves
<1>8. ~IsSettled(Last(call.seen).status, trans') /\ step' = step
  BY <1>3, <1>7 DEF PollAnswer
<1>9. PICK t : Recent(t) /\ call.seen = History(charge, t)
  BY <1>7 DEF PollAnswer, Answered
<1>10. ~EndsWatching(StatusAt(charge, t))
  <2>1. ~IsSettled(StatusAt(charge, t), trans')
    BY <1>8, <1>9 DEF StatusAt
  <2> QED
    BY <2>1, <1>8 DEF IsSettled, EndsWatching, Closing, ExpectsReversal, PollSteps
<1>11. Recent(t)'
  BY <1>1, <1>9 DEF Recent
<1>12. ~EndsWatching(StatusAt(charge, t))'
  BY <1>1, <1>8, <1>10 DEF EndsWatching
<1> QED
  BY <1>11, <1>12

Patient == PollClock /\ Way /\ Timing /\ Exists /\ Answered /\ StillOpen

(* What a timeout rests on, step by step. *)
LEMMA PatientKept ==
  ASSUME Patient, [Next]_vars
  PROVE  Patient'
<1>1. PollClock' /\ Way' /\ Timing' /\ Exists'
  BY ClockKept, WayKept, TimingKept, ExistsKept DEF Patient
<1>2. CASE Attempts
  BY <1>1, <1>2, AnsweredKept DEF Patient
<1>3. CASE Moves
  BY <1>1, <1>3, OpenKept DEF Patient
<1>4. CASE UNCHANGED vars
  <2>1. UNCHANGED <<id, now, lag, step, call, charge, poll>>
    BY <1>4 DEF vars, sandboxVars
  <2>2. Answered'
    BY <2>1 DEF Patient, Answered, Recent
  <2>3. StillOpen'
    BY <2>1 DEF Patient, StillOpen, Recent, EndsWatching
  <2> QED
    BY <1>1, <2>2, <2>3 DEF Patient
<1> QED
  BY <1>2, <1>3, <1>4, EveryStep

(* Only the top of the poll loop declares a timeout. *)
LEMMA OnlyThere ==
  ASSUME Patient, [Next]_vars, [step |-> step, kind |-> "timeout"] \in diag' \ diag
  PROVE  PollTimeout
<1>1. diag' # diag
  OBVIOUS
<1>2. ~Attempts
  BY <1>1, AttemptsStay DEF Patient, Way, evidence
<1>3. Moves
  BY <1>1, <1>2, EveryStep DEF vars, evidence
<1>4. \A kind : Blame(kind) => kind = "timeout"
  BY DEF Blame
<1>5. ~Succeed /\ ~PollAnswer
  BY <1>1 DEF Succeed, PollAnswer
<1>6. ~NotRefused
  BY <1>4 DEF NotRefused
<1>7. ~Fail
  BY <1>1, <1>4 DEF Fail, Refusal, Missed, GiveUpPoll, GiveUp, evidence
<1> QED
  BY <1>3, <1>5, <1>6, <1>7 DEF Moves

(* For every policy, latency and schedule: a loop neither gives up early nor
   declares a timeout of a charge it could have seen end in time (poller.ts
   poll).                                                                    *)
THEOREM TimeoutsAreEarned == Spec => TimeoutIsEarned
<1>1. Init => Patient
  <2>1. Init => PollClock /\ Timing
    BY PolicyAssumption DEF Init, PollClock, Timing, Created
  <2>2. Init => Exists /\ Answered /\ StillOpen
    BY DEF Init, Exists, NoCharge, Originated, Served, Answered, StillOpen, PollSteps
  <2> QED
    BY <2>1, <2>2, WayBegins DEF Patient
<1>2. Patient /\ [Next]_vars => Patient'
  BY PatientKept
<1> DEFINE
  Earned == [step |-> step, kind |-> "timeout"] \in diag' \ diag =>
              /\ now' - poll.start >= HardTimeout
              /\ poll.heard => \E t \in (poll.start + HardTimeout - lag)..now' :
                                 ~EndsWatching(StatusAt(charge, t))
<1>3. Patient /\ [Next]_vars => [Earned]_vars
  <2> SUFFICES ASSUME Patient, [Next]_vars,
                      [step |-> step, kind |-> "timeout"] \in diag' \ diag
               PROVE  /\ now' - poll.start >= HardTimeout
                      /\ poll.heard => \E t \in (poll.start + HardTimeout - lag)..now' :
                                         ~EndsWatching(StatusAt(charge, t))
    OBVIOUS
  <2>1. PollTimeout
    BY OnlyThere
  <2>2. now' = now /\ now - poll.start >= HardTimeout /\ step \in PollSteps /\ call.st = "none"
    BY <2>1 DEF PollTimeout, TimedOut
  <2>3. poll.heard => \E t : Recent(t) /\ ~EndsWatching(StatusAt(charge, t))
    BY <2>2 DEF Patient, StillOpen
  <2>4. ASSUME NEW t, Recent(t) PROVE t \in (poll.start + HardTimeout - lag)..now'
    BY <2>2, <2>4, PolicyAssumption DEF Recent, Patient, PollClock, Timing
  <2> QED
    BY <2>2, <2>3, <2>4
<1> QED
  BY <1>1, <1>2, <1>3, PTL DEF Spec, TimeoutIsEarned
=============================================================================
