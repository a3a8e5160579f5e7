--------------------------- MODULE DashboardProofs ---------------------------
(***************************************************************************)
(* Proofs about Dashboard, for every log, every set of runs and every      *)
(* bound: what the store holds and derives depends only on the events that *)
(* have arrived, what a run shows stays, the summary is of the latest      *)
(* runs, the wire log has each attempt where it belongs, and the toasts    *)
(* announce each transition once, none of them because of a snapshot, and  *)
(* miss none.                                                              *)
(***************************************************************************)
EXTENDS Dashboard, TLAPS, SequenceTheorems, FiniteSetTheorems, FunctionTheorems,
        WellFoundedInduction

-----------------------------------------------------------------------------
(* Numbers: induction over a set, and the ends of a finite set.             *)

(* Induction over a set of numbers.                                         *)
LEMMA NatSet ==
  ASSUME NEW S, 0 \in S, \A n \in Nat : n \in S => n + 1 \in S
  PROVE  Nat \subseteq S
<1> DEFINE T == Nat \ S
<1> SUFFICES ASSUME T # {} PROVE FALSE
  OBVIOUS
<1>1. PICK x \in T : \A y \in T : <<y, x>> \notin OpToRel(<, Nat)
  BY NatLessThanWellFounded, WFMin, T \subseteq Nat
<1>2. \A y \in T : ~ (y < x)
  BY <1>1 DEF OpToRel
<1>3. x # 0 /\ x - 1 \in Nat /\ x - 1 \notin T
  BY <1>2
<1> QED
  BY <1>3

(* The largest of finitely many numbers.                                    *)
LEMMA MaxIs ==
  ASSUME NEW n \in Nat, NEW S \in SUBSET (0..n), S # {}
  PROVE  Max(S) \in S /\ \A x \in S : x <= Max(S)
<1> DEFINE Bounded == {m \in Nat : \A R \in SUBSET (0..m) :
                         R # {} => \E x \in R : \A y \in R : x >= y}
<1>1. 0 \in Bounded
  <2> SUFFICES ASSUME NEW R \in SUBSET (0..0), R # {}
               PROVE  \E x \in R : \A y \in R : x >= y
    OBVIOUS
  <2>1. PICK x \in R : TRUE
    OBVIOUS
  <2>2. \A y \in R : y = 0
    OBVIOUS
  <2>3. x = 0 /\ \A y \in R : x >= y
    BY <2>2
  <2> QED
    BY <2>3
<1>2. ASSUME NEW m \in Nat, m \in Bounded PROVE m + 1 \in Bounded
  <2> SUFFICES ASSUME NEW R \in SUBSET (0..(m + 1)), R # {}
               PROVE  \E x \in R : \A y \in R : x >= y
    OBVIOUS
  <2>1. CASE m + 1 \in R
    BY <2>1
  <2>2. CASE m + 1 \notin R
    <3>1. R \in SUBSET (0..m)
      BY <2>2
    <3> QED
      BY <3>1, <1>2
  <2> QED
    BY <2>1, <2>2
<1> HIDE DEF Bounded
<1>3. n \in Bounded
  BY <1>1, <1>2, NatSet
<1>4. \E x \in S : \A y \in S : x >= y
  BY <1>3 DEF Bounded
<1> QED
  BY <1>4 DEF Max

(* The smallest of some numbers.                                            *)
LEMMA MinIs ==
  ASSUME NEW S \in SUBSET Nat, S # {}
  PROVE  Min(S) \in S /\ \A x \in S : Min(S) <= x
<1>1. PICK x \in S : \A y \in S : <<y, x>> \notin OpToRel(<, Nat)
  BY NatLessThanWellFounded, WFMin
<1>2. ASSUME NEW y \in S PROVE x <= y
  <2>1. x \in Nat /\ y \in Nat
    OBVIOUS
  <2>2. ~ (y < x)
    BY <1>1, <2>1 DEF OpToRel
  <2> QED
    BY <2>1, <2>2
<1> QED
  BY <1>2 DEF Min

-----------------------------------------------------------------------------
(* The store: a fold inserts one event after the other.                     *)

InsertStep(f, r, held, q, indices) ==
  [s \in SUBSET indices |->
     IF s = {} THEN held ELSE InsertFor(r, f[s \ {Max(s)}], q[Max(s)])]

(* The function a fold is defined by exists on every stretch of indices.    *)
LEMMA InsertFoldExists ==
  ASSUME NEW r, NEW held, NEW q
  PROVE  \A n \in Nat : \E f : f = InsertStep(f, r, held, q, 1..n)
<1> DEFINE Body(f, n) == InsertStep(f, r, held, q, 1..n)
           Defined == {n \in Nat : \E f : f = Body(f, n)}
<1>1. 0 \in Defined
  <2> DEFINE f == [s \in SUBSET (1..0) |-> held]
  <2>1. \A s \in SUBSET (1..0) : s = {}
    OBVIOUS
  <2>2. f = Body(f, 0)
    BY <2>1 DEF InsertStep
  <2> HIDE DEF f
  <2> QED
    BY <2>2
<1>2. ASSUME NEW n \in Nat, n \in Defined PROVE n + 1 \in Defined
  <2>1. PICK f : f = Body(f, n)
    BY <1>2
  <2> DEFINE g == [s \in SUBSET (1..(n + 1)) |->
                     IF n + 1 \in s THEN InsertFor(r, f[s \ {n + 1}], q[n + 1]) ELSE f[s]]
  <2>2. ASSUME NEW s \in SUBSET (1..(n + 1))
        PROVE  g[s] = IF s = {} THEN held ELSE InsertFor(r, g[s \ {Max(s)}], q[Max(s)])
    <3>1. CASE n + 1 \in s
      <4>1. Max(s) \in s /\ \A x \in s : x <= Max(s)
        <5>1. n + 1 \in Nat /\ s \in SUBSET (0..(n + 1)) /\ s # {}
          BY <3>1
        <5> QED
          BY ONLY <5>1, MaxIs
      <4>2. Max(s) = n + 1
        <5>1. Max(s) \in 1..(n + 1) /\ n + 1 <= Max(s)
          BY <4>1, <3>1
        <5> QED
          BY ONLY <5>1, n \in Nat
      <4>3. s \ {n + 1} \in SUBSET (1..(n + 1)) /\ n + 1 \notin s \ {n + 1}
        OBVIOUS
      <4>4. g[s \ {n + 1}] = f[s \ {n + 1}]
        BY <4>3
      <4> QED
        BY <3>1, <4>2, <4>4
    <3>2. CASE n + 1 \notin s /\ s # {}
      <4>1. s \in SUBSET (1..n)
        BY <3>2
      <4>2. Max(s) \in s
        <5>1. s \in SUBSET (0..n)
          BY <4>1
        <5> QED
          BY ONLY <5>1, <3>2, n \in Nat, MaxIs
      <4>3. g[s] = f[s] /\ g[s \ {Max(s)}] = f[s \ {Max(s)}]
        BY <3>2
      <4>4. f[s] = InsertFor(r, f[s \ {Max(s)}], q[Max(s)])
        BY <2>1, <4>1, <3>2 DEF InsertStep
      <4> QED
        BY <4>3, <4>4, <3>2
    <3>3. CASE s = {}
      <4>1. s \in SUBSET (1..n) /\ n + 1 \notin s
        BY <3>3
      <4>2. f[s] = held
        BY <2>1, <4>1, <3>3 DEF InsertStep
      <4> QED
        BY <4>1, <4>2, <3>3
    <3> QED
      BY <3>1, <3>2, <3>3
  <2>3. g = [s \in SUBSET (1..(n + 1)) |-> g[s]]
    OBVIOUS
  <2> HIDE DEF g
  <2>4. g = Body(g, n + 1)
    BY <2>2, <2>3 DEF InsertStep
  <2> QED
    BY <2>4
<1> HIDE DEF Defined
<1>3. Nat \subseteq Defined
  BY <1>1, <1>2, NatSet
<1> QED
  BY <1>3 DEF Defined

(* Folding is inserting step by step.                                       *)
LEMMA InsertFold ==
  ASSUME NEW r, NEW held, NEW A, NEW q \in Seq(A)
  PROVE  \E h : /\ h[0] = held
                /\ \A i \in 1..Len(q) : h[i] = InsertFor(r, h[i - 1], q[i])
                /\ InsertEach(r, held, q) = h[Len(q)]
<1> DEFINE Body(f) == InsertStep(f, r, held, q, DOMAIN q)
           iter == CHOOSE f : f = Body(f)
           h == [i \in 0..Len(q) |-> iter[1..i]]
<1>1. DOMAIN q = 1..Len(q) /\ Len(q) \in Nat
  OBVIOUS
<1>2. \E f : f = Body(f)
  <2>1. \A n \in Nat : \E f : f = InsertStep(f, r, held, q, 1..n)
    BY InsertFoldExists
  <2> QED
    BY <2>1, <1>1
<1>3. iter = Body(iter)
  BY <1>2
<1>4. InsertEach(r, held, q) = iter[DOMAIN q]
  BY DEF InsertEach, FoldLeft, MapThenFoldSet, InsertStep
<1> HIDE DEF iter
<1>5. h[0] = held
  BY <1>1, <1>3, 1..0 = {} DEF InsertStep
<1>6. ASSUME NEW i \in 1..Len(q) PROVE h[i] = InsertFor(r, h[i - 1], q[i])
  <2> DEFINE s == 1..i
  <2>1. s # {} /\ s \in SUBSET (0..i) /\ i \in Nat /\ i \in s
    <3>1. i \in Nat /\ i >= 1
      BY <1>1
    <3>2. i \in s
      BY <3>1
    <3>3. s \in SUBSET (0..i)
      BY <3>1
    <3> QED
      BY <3>1, <3>2, <3>3
  <2>2. Max(s) \in s /\ \A x \in s : x <= Max(s)
    <3> HIDE DEF s
    <3> QED
      BY ONLY <2>1, MaxIs
  <2>3. Max(s) = i
    BY <2>1, <2>2
  <2>4. s \ {i} = 1..(i - 1) /\ s \in SUBSET DOMAIN q
    BY <1>1
  <2>5. iter[s] = InsertFor(r, iter[s \ {Max(s)}], q[Max(s)])
    <3> HIDE DEF s
    <3> QED
      BY <1>3, <2>1, <2>4 DEF InsertStep
  <2>6. h[i] = iter[s] /\ h[i - 1] = iter[1..(i - 1)]
    BY <1>1
  <2> QED
    BY <2>3, <2>4, <2>5, <2>6
<1>7. h[Len(q)] = iter[DOMAIN q]
  BY <1>1
<1> HIDE DEF h
<1> QED
  BY <1>4, <1>5, <1>6, <1>7

Ordered(list) == \A i, j \in DOMAIN list : i < j => list[i].seq < list[j].seq

(* No two events of a log have the same seq.                                *)
Numbered(S) ==
  /\ \A e \in S : e.seq \in Nat
  /\ \A e, f \in S : e.seq = f.seq => e = f

Opened(new, list, at, e) ==
  /\ Len(new) = Len(list) + 1
  /\ \A k \in 1..at : new[k] = list[k]
  /\ new[at + 1] = e
  /\ \A k \in (at + 2)..(Len(list) + 1) : new[k] = list[k - 1]

(* An element put into a sequence.                                          *)
LEMMA InsertedAt ==
  ASSUME NEW S, NEW list \in Seq(S), NEW e \in S, NEW at \in 0..Len(list)
  PROVE  InsertAt(list, at + 1, e) \in Seq(S) /\ Opened(InsertAt(list, at + 1, e), list, at, e)
<1> DEFINE n == Len(list)
           front == SubSeq(list, 1, at)
           back == SubSeq(list, at + 1, n)
           new == (front \o <<e>>) \o back
<1>1. n \in Nat /\ at \in Nat /\ at <= n /\ DOMAIN list = 1..n
  OBVIOUS
<1>2. front \in Seq(S) /\ Len(front) = at /\ \A k \in 1..at : front[k] = list[k]
  BY <1>1
<1>3. back \in Seq(S) /\ Len(back) = n - at /\ \A k \in 1..(n - at) : back[k] = list[k + at]
  <2>1. back \in Seq(S)
    BY <1>1
  <2>2. Len(back) = n - at
    <3>1. \A i \in (at + 1)..n : list[i] \in S
      BY <1>1
    <3>2. Len(back) = IF at + 1 <= n THEN n - (at + 1) + 1 ELSE 0
      <4> HIDE DEF n
      <4> QED
        BY <1>1, <3>1, SubSeqProperties
    <3> HIDE DEF n, back
    <3> QED
      BY <1>1, <3>2
  <2>3. \A k \in 1..(n - at) : back[k] = list[k + at]
    BY <1>1
  <2> QED
    BY <2>1, <2>2, <2>3
<1>4. InsertAt(list, at + 1, e) = new
  <2>1. (at + 1) - 1 = at
    BY <1>1
  <2> QED
    BY <2>1 DEF InsertAt
<1> HIDE DEF front, back, n
<1>5. /\ front \o <<e>> \in Seq(S) /\ Len(front \o <<e>>) = at + 1
      /\ \A k \in 1..at : (front \o <<e>>)[k] = list[k]
      /\ (front \o <<e>>)[at + 1] = e
  BY <1>1, <1>2
<1> DEFINE upto == front \o <<e>>
<1> HIDE DEF upto
<1>6. upto \in Seq(S) /\ Len(upto) = at + 1 /\ \A k \in 1..at : upto[k] = list[k]
  BY <1>5 DEF upto
<1>7. upto[at + 1] = e
  BY <1>5 DEF upto
<1>8. new = upto \o back
  BY DEF upto
<1> HIDE DEF new
<1>9. new \in Seq(S) /\ Len(new) = n + 1
  BY <1>1, <1>3, <1>6, <1>8
<1>10. \A k \in 1..(at + 1) : new[k] = upto[k]
  BY <1>1, <1>3, <1>6, <1>8
<1>11. ASSUME NEW k \in (at + 2)..(n + 1) PROVE new[k] = list[k - 1]
  <2>1. new[k] = back[k - (at + 1)]
    BY <1>1, <1>3, <1>6, <1>8
  <2>2. k - (at + 1) \in 1..(n - at) /\ (k - (at + 1)) + at = k - 1
    BY <1>1
  <2> QED
    BY <2>1, <2>2, <1>3
<1>12. (\A k \in 1..at : new[k] = list[k]) /\ new[at + 1] = e
  BY <1>1, <1>6, <1>7, <1>10
<1> QED
  BY <1>4, <1>9, <1>11, <1>12 DEF n, Opened

(* An insertion keeps the order and adds the event, unless it is there.     *)
LEMMA Inserted ==
  ASSUME NEW S, Numbered(S), NEW list \in Seq(S), Ordered(list), NEW e \in S
  PROVE  /\ InsertEvent(list, e) \in Seq(S)
         /\ Ordered(InsertEvent(list, e))
         /\ ToSet(InsertEvent(list, e)) = ToSet(list) \cup {e}
<1> DEFINE n == Len(list)
           below == {i \in DOMAIN list : list[i].seq < e.seq} \cup {0}
           at == Max(below)
           new == InsertAt(list, at + 1, e)
<1>1. n \in Nat /\ DOMAIN list = 1..n /\ \A i \in 1..n : list[i] \in S /\ list[i].seq \in Nat
  BY DEF Numbered
<1>2. e.seq \in Nat
  BY DEF Numbered
<1>3. at \in below /\ \A i \in below : i <= at
  <2>1. below \in SUBSET (0..n) /\ below # {}
    BY <1>1
  <2> HIDE DEF below
  <2> QED
    BY ONLY <2>1, <1>1, MaxIs
<1>4. at \in 0..n /\ at \in Nat
  BY <1>1, <1>3
<1> DEFINE dup == \E i \in DOMAIN list : i > at /\ list[i].seq = e.seq
<1>5. InsertEvent(list, e) = IF dup THEN list ELSE new
  BY DEF InsertEvent
<1> HIDE DEF at
<1>6. ASSUME NEW i \in 1..n, i > at PROVE ~ (list[i].seq < e.seq)
  <2>1. i \notin below
    BY <1>3, <1>4, <1>6
  <2> QED
    BY <1>1, <2>1
<1>7. ASSUME NEW i \in 1..n, i <= at PROVE list[i].seq < e.seq
  <2>1. at \in 1..n /\ list[at].seq < e.seq
    <3>1. at # 0
      BY <1>1, <1>4, <1>7
    <3> QED
      BY <1>1, <1>3, <1>4, <3>1
  <2>2. i = at \/ list[i].seq < list[at].seq
    BY <1>1, <1>4, <1>7, <2>1 DEF Ordered
  <2> QED
    BY <1>1, <1>2, <2>1, <2>2
<1>8. CASE dup
  <2>1. e \in ToSet(list)
    BY <1>1, <1>8 DEF Numbered, ToSet
  <2> QED
    BY <1>5, <1>8, <2>1
<1>9. CASE ~dup
  <2>1. \A i \in 1..n : i > at => e.seq < list[i].seq
    BY <1>1, <1>2, <1>6, <1>9
  <2>2. /\ new \in Seq(S) /\ Len(new) = n + 1
        /\ \A k \in 1..at : new[k] = list[k]
        /\ new[at + 1] = e
        /\ \A k \in (at + 2)..(n + 1) : new[k] = list[k - 1]
    <3> HIDE DEF n
    <3>1. new \in Seq(S) /\ Opened(new, list, at, e)
      BY <1>4, InsertedAt DEF n
    <3> QED
      BY <3>1 DEF Opened, n
  <2> HIDE DEF new, n
  <2>3. ASSUME NEW i \in 1..(n + 1), NEW j \in 1..(n + 1), i < j
        PROVE  new[i].seq < new[j].seq
    <3>1. CASE j <= at
      <4>1. i \in 1..at /\ j \in 1..at /\ i \in 1..n /\ j \in 1..n
        BY <1>1, <1>4, <3>1, <2>3
      <4> QED
        BY <1>1, <2>2, <2>3, <4>1 DEF Ordered
    <3>2. CASE j = at + 1
      <4>1. i \in 1..at /\ i \in 1..n /\ i <= at
        BY <1>1, <1>4, <3>2, <2>3
      <4> QED
        BY <1>7, <2>2, <3>2, <4>1
    <3>3. CASE j > at + 1 /\ i <= at
      <4>1. i \in 1..at /\ i \in 1..n /\ j \in (at + 2)..(n + 1) /\ j - 1 \in 1..n /\ i < j - 1
        BY <1>1, <1>4, <3>3, <2>3
      <4> QED
        BY <1>1, <2>2, <4>1 DEF Ordered
    <3>4. CASE j > at + 1 /\ i = at + 1
      <4>1. j \in (at + 2)..(n + 1) /\ j - 1 \in 1..n /\ j - 1 > at
        BY <1>1, <1>4, <3>4, <2>3
      <4> QED
        BY <2>1, <2>2, <3>4, <4>1
    <3>5. CASE j > at + 1 /\ i > at + 1
      <4>1. /\ i \in (at + 2)..(n + 1) /\ j \in (at + 2)..(n + 1)
            /\ i - 1 \in 1..n /\ j - 1 \in 1..n /\ i - 1 < j - 1
        BY <1>1, <1>4, <3>5, <2>3
      <4> QED
        BY <1>1, <2>2, <4>1 DEF Ordered
    <3>6. i \in Nat /\ j \in Nat
      BY <1>1
    <3> QED
      BY <1>4, <3>1, <3>2, <3>3, <3>4, <3>5, <3>6
  <2>4. DOMAIN new = 1..(n + 1)
    BY <2>2
  <2>5. ToSet(new) \subseteq ToSet(list) \cup {e}
    <3> SUFFICES ASSUME NEW k \in 1..(n + 1)
                 PROVE  new[k] = e \/ \E i \in 1..n : new[k] = list[i]
      BY <1>1, <2>4 DEF ToSet
    <3>1. \/ k \in 1..at /\ k \in 1..n
          \/ k = at + 1
          \/ k \in (at + 2)..(n + 1) /\ k - 1 \in 1..n
      BY <1>1, <1>4
    <3> QED
      BY <2>2, <3>1
  <2>6. ToSet(list) \cup {e} \subseteq ToSet(new)
    <3>1. at + 1 \in 1..(n + 1)
      BY <1>1, <1>4
    <3>2. e \in ToSet(new)
      BY <2>2, <2>4, <3>1 DEF ToSet
    <3>3. ASSUME NEW i \in 1..n PROVE list[i] \in ToSet(new)
      <4>1. CASE i <= at
        <5>1. i \in 1..at /\ i \in 1..(n + 1)
          BY <1>1, <1>4, <4>1
        <5> QED
          BY <2>2, <2>4, <5>1 DEF ToSet
      <4>2. CASE ~(i <= at)
        <5>1. i + 1 \in (at + 2)..(n + 1) /\ i + 1 \in 1..(n + 1) /\ (i + 1) - 1 = i
          BY <1>1, <1>4, <4>2
        <5>2. new[i + 1] = list[i]
          BY <2>2, <5>1
        <5> QED
          BY <2>4, <5>1, <5>2 DEF ToSet
      <4> QED
        BY <4>1, <4>2
    <3> QED
      BY <1>1, <3>2, <3>3 DEF ToSet
  <2> QED
    BY <1>5, <1>9, <2>2, <2>3, <2>4, <2>5, <2>6 DEF Ordered
<1> QED
  BY <1>8, <1>9

(* A batch of events, folded into the list of a run.                        *)
LEMMA Folded ==
  ASSUME NEW S, Numbered(S), NEW r, NEW held \in Seq(S), Ordered(held), NEW q \in Seq(S)
  PROVE  LET list == InsertEach(r, held, q)
         IN /\ list \in Seq(S) /\ Ordered(list)
            /\ ToSet(list) = ToSet(held) \cup {e \in ToSet(q) : e.run = r}
<1>1. PICK h : /\ h[0] = held
               /\ \A i \in 1..Len(q) : h[i] = InsertFor(r, h[i - 1], q[i])
               /\ InsertEach(r, held, q) = h[Len(q)]
  BY InsertFold
<1>2. Len(q) \in Nat /\ DOMAIN q = 1..Len(q) /\ \A i \in 1..Len(q) : q[i] \in S
  OBVIOUS
<1> DEFINE Good(i) ==
      /\ h[i] \in Seq(S) /\ Ordered(h[i])
      /\ ToSet(h[i]) = ToSet(held) \cup {e \in {q[k] : k \in 1..i} : e.run = r}
           Right == {i \in Nat : i <= Len(q) => Good(i)}
<1>3. 0 \in Right
  <2>1. {q[k] : k \in 1..0} = {}
    OBVIOUS
  <2> QED
    BY <1>1, <2>1
<1>4. ASSUME NEW i \in Nat, i \in Right PROVE i + 1 \in Right
  <2> SUFFICES ASSUME i + 1 <= Len(q) PROVE Good(i + 1)
    OBVIOUS
  <2>1. Good(i)
    BY <1>2, <1>4
  <2> DEFINE e == q[i + 1]
  <2>2. i + 1 \in 1..Len(q) /\ (i + 1) - 1 = i /\ e \in S
    BY <1>2
  <2>3. h[i + 1] = InsertFor(r, h[i], e)
    BY <1>1, <2>2
  <2>4. {q[k] : k \in 1..(i + 1)} = {q[k] : k \in 1..i} \cup {e}
    OBVIOUS
  <2> HIDE DEF e
  <2>5. CASE e.run = r
    <3>1. h[i + 1] = InsertEvent(h[i], e)
      BY <2>3, <2>5 DEF InsertFor
    <3> DEFINE g == h[i]
    <3>2. g \in Seq(S) /\ Ordered(g)
      BY <2>1
    <3> HIDE DEF g
    <3>3. /\ InsertEvent(g, e) \in Seq(S) /\ Ordered(InsertEvent(g, e))
          /\ ToSet(InsertEvent(g, e)) = ToSet(g) \cup {e}
      BY <2>2, <3>2, Inserted
    <3>4. {x \in {q[k] : k \in 1..(i + 1)} : x.run = r}
            = {x \in {q[k] : k \in 1..i} : x.run = r} \cup {e}
      BY <2>4, <2>5
    <3> QED
      BY <2>1, <3>1, <3>3, <3>4 DEF g
  <2>6. CASE e.run # r
    <3>1. h[i + 1] = h[i]
      BY <2>3, <2>6 DEF InsertFor
    <3>2. {x \in {q[k] : k \in 1..(i + 1)} : x.run = r}
            = {x \in {q[k] : k \in 1..i} : x.run = r}
      BY <2>4, <2>6
    <3> QED
      BY <2>1, <3>1, <3>2
  <2> QED
    BY <2>5, <2>6
<1> HIDE DEF Right
<1>5. Len(q) \in Right
  BY <1>2, <1>3, <1>4, NatSet
<1>6. Good(Len(q))
  BY <1>2, <1>5 DEF Right
<1>7. {q[k] : k \in 1..Len(q)} = ToSet(q)
  BY <1>2 DEF ToSet
<1> QED
  BY <1>1, <1>6, <1>7

-----------------------------------------------------------------------------
(* What is derived from the events of a run.                                *)

PushStep(f, reversal, refusal, q, indices) ==
  [s \in SUBSET indices |->
     IF s = {} THEN <<>> ELSE Push(f[s \ {Max(s)}], q[Max(s)], reversal, refusal)]

(* The same for the fold that pushes the nodes of a timeline.               *)
LEMMA PushFoldExists ==
  ASSUME NEW reversal, NEW refusal, NEW q
  PROVE  \A n \in Nat : \E f : f = PushStep(f, reversal, refusal, q, 1..n)
<1> DEFINE Body(f, n) == PushStep(f, reversal, refusal, q, 1..n)
           Defined == {n \in Nat : \E f : f = Body(f, n)}
<1>1. 0 \in Defined
  <2> DEFINE f == [s \in SUBSET (1..0) |-> <<>>]
  <2>1. \A s \in SUBSET (1..0) : s = {}
    OBVIOUS
  <2>2. f = Body(f, 0)
    BY <2>1 DEF PushStep
  <2> HIDE DEF f
  <2> QED
    BY <2>2
<1>2. ASSUME NEW n \in Nat, n \in Defined PROVE n + 1 \in Defined
  <2>1. PICK f : f = Body(f, n)
    BY <1>2
  <2> DEFINE g == [s \in SUBSET (1..(n + 1)) |->
                     IF n + 1 \in s THEN Push(f[s \ {n + 1}], q[n + 1], reversal, refusal) ELSE f[s]]
  <2>2. ASSUME NEW s \in SUBSET (1..(n + 1))
        PROVE  g[s] = IF s = {} THEN <<>> ELSE Push(g[s \ {Max(s)}], q[Max(s)], reversal, refusal)
    <3>1. CASE n + 1 \in s
      <4>1. Max(s) \in s /\ \A x \in s : x <= Max(s)
        <5>1. n + 1 \in Nat /\ s \in SUBSET (0..(n + 1)) /\ s # {}
          BY <3>1
        <5> QED
          BY ONLY <5>1, MaxIs
      <4>2. Max(s) = n + 1
        <5>1. Max(s) \in 1..(n + 1) /\ n + 1 <= Max(s)
          BY <4>1, <3>1
        <5> QED
          BY ONLY <5>1, n \in Nat
      <4>3. s \ {n + 1} \in SUBSET (1..(n + 1)) /\ n + 1 \notin s \ {n + 1}
        OBVIOUS
      <4>4. g[s \ {n + 1}] = f[s \ {n + 1}]
        BY <4>3
      <4> QED
        BY <3>1, <4>2, <4>4
    <3>2. CASE n + 1 \notin s /\ s # {}
      <4>1. s \in SUBSET (1..n)
        BY <3>2
      <4>2. Max(s) \in s
        <5>1. s \in SUBSET (0..n)
          BY <4>1
        <5> QED
          BY ONLY <5>1, <3>2, n \in Nat, MaxIs
      <4>3. g[s] = f[s] /\ g[s \ {Max(s)}] = f[s \ {Max(s)}]
        BY <3>2
      <4>4. f[s] = Push(f[s \ {Max(s)}], q[Max(s)], reversal, refusal)
        BY <2>1, <4>1, <3>2 DEF PushStep
      <4> QED
        BY <4>3, <4>4, <3>2
    <3>3. CASE s = {}
      <4>1. s \in SUBSET (1..n) /\ n + 1 \notin s
        BY <3>3
      <4>2. f[s] = <<>>
        BY <2>1, <4>1, <3>3 DEF PushStep
      <4> QED
        BY <4>1, <4>2, <3>3
    <3> QED
      BY <3>1, <3>2, <3>3
  <2>3. g = [s \in SUBSET (1..(n + 1)) |-> g[s]]
    OBVIOUS
  <2> HIDE DEF g
  <2>4. g = Body(g, n + 1)
    BY <2>2, <2>3 DEF PushStep
  <2> QED
    BY <2>4
<1> HIDE DEF Defined
<1>3. Nat \subseteq Defined
  BY <1>1, <1>2, NatSet
<1> QED
  BY <1>3 DEF Defined

(* Folding is pushing step by step.                                         *)
LEMMA PushFold ==
  ASSUME NEW reversal, NEW refusal, NEW A, NEW q \in Seq(A)
  PROVE  \E h : /\ h[0] = <<>>
                /\ \A i \in 1..Len(q) : h[i] = Push(h[i - 1], q[i], reversal, refusal)
                /\ Nodes(q, reversal, refusal) = h[Len(q)]
<1> DEFINE Body(f) == PushStep(f, reversal, refusal, q, DOMAIN q)
           iter == CHOOSE f : f = Body(f)
           h == [i \in 0..Len(q) |-> iter[1..i]]
<1>1. DOMAIN q = 1..Len(q) /\ Len(q) \in Nat
  OBVIOUS
<1>2. \E f : f = Body(f)
  <2>1. \A n \in Nat : \E f : f = PushStep(f, reversal, refusal, q, 1..n)
    BY PushFoldExists
  <2> QED
    BY <2>1, <1>1
<1>3. iter = Body(iter)
  BY <1>2
<1>4. Nodes(q, reversal, refusal) = iter[DOMAIN q]
  BY DEF Nodes, FoldLeft, MapThenFoldSet, PushStep
<1> HIDE DEF iter
<1>5. h[0] = <<>>
  BY <1>1, <1>3, 1..0 = {} DEF PushStep
<1>6. ASSUME NEW i \in 1..Len(q) PROVE h[i] = Push(h[i - 1], q[i], reversal, refusal)
  <2> DEFINE s == 1..i
  <2>1. s # {} /\ s \in SUBSET (0..i) /\ i \in Nat /\ i \in s
    <3>1. i \in Nat /\ i >= 1
      BY <1>1
    <3>2. i \in s
      BY <3>1
    <3>3. s \in SUBSET (0..i)
      BY <3>1
    <3> QED
      BY <3>1, <3>2, <3>3
  <2>2. Max(s) \in s /\ \A x \in s : x <= Max(s)
    <3> HIDE DEF s
    <3> QED
      BY ONLY <2>1, MaxIs
  <2>3. Max(s) = i
    BY <2>1, <2>2
  <2>4. s \ {i} = 1..(i - 1) /\ s \in SUBSET DOMAIN q
    BY <1>1
  <2>5. iter[s] = Push(iter[s \ {Max(s)}], q[Max(s)], reversal, refusal)
    <3> HIDE DEF s
    <3> QED
      BY <1>3, <2>1, <2>4 DEF PushStep
  <2>6. h[i] = iter[s] /\ h[i - 1] = iter[1..(i - 1)]
    BY <1>1
  <2> QED
    BY <2>3, <2>4, <2>5, <2>6
<1>7. h[Len(q)] = iter[DOMAIN q]
  BY <1>1
<1> HIDE DEF h
<1> QED
  BY <1>4, <1>5, <1>6, <1>7

(* One more at the end of a sequence.                                       *)
LEMMA Appended ==
  ASSUME NEW N, NEW g \in Seq(N), NEW x \in N
  PROVE  LET new == Append(g, x)
         IN /\ new \in Seq(N) /\ Len(g) \in Nat /\ Len(new) = Len(g) + 1
            /\ DOMAIN g = 1..Len(g) /\ DOMAIN new = 1..(Len(g) + 1)
            /\ \A k \in 1..Len(g) : new[k] = g[k]
            /\ new[Len(g) + 1] = x
            /\ ToSet(new) = ToSet(g) \cup {x}
<1> DEFINE new == Append(g, x)
<1>1. DOMAIN g = 1..Len(g) /\ Len(g) \in Nat
  OBVIOUS
<1>2. /\ new \in Seq(N) /\ Len(new) = Len(g) + 1
      /\ DOMAIN new = 1..(Len(g) + 1)
      /\ \A k \in 1..Len(g) : new[k] = g[k]
      /\ new[Len(g) + 1] = x
  BY <1>1
<1>3. /\ \A k \in 1..(Len(g) + 1) : k \in 1..Len(g) \/ k = Len(g) + 1
      /\ \A k \in 1..Len(g) : k \in 1..(Len(g) + 1)
      /\ Len(g) + 1 \in 1..(Len(g) + 1)
  BY <1>1
<1> HIDE DEF new
<1>4. ToSet(new) = ToSet(g) \cup {x}
  BY <1>1, <1>2, <1>3 DEF ToSet
<1> QED
  BY <1>1, <1>2, <1>4 DEF new

(* Appending above everything there keeps the order.                        *)
LEMMA AppendedAbove ==
  ASSUME NEW N, \A y \in N : y.seq \in Nat, NEW g \in Seq(N), Ordered(g), NEW x \in N,
         \A y \in ToSet(g) : y.seq < x.seq
  PROVE  Ordered(Append(g, x))
<1> DEFINE new == Append(g, x)
           n == Len(g)
<1>1. /\ n \in Nat /\ DOMAIN g = 1..n /\ DOMAIN new = 1..(n + 1)
      /\ \A k \in 1..n : new[k] = g[k]
      /\ new[n + 1] = x
  BY Appended
<1>2. \A k \in 1..n : g[k] \in ToSet(g)
  BY <1>1 DEF ToSet
<1> HIDE DEF new, n
<1>3. ASSUME NEW i \in 1..(n + 1), NEW j \in 1..(n + 1), i < j
      PROVE  new[i].seq < new[j].seq
  <2>1. i \in 1..n /\ (j \in 1..n \/ j = n + 1)
    BY <1>1, <1>3
  <2>2. CASE j \in 1..n
    BY <1>1, <1>3, <2>1, <2>2 DEF Ordered
  <2>3. CASE j = n + 1
    BY <1>1, <1>2, <2>1, <2>3
  <2> QED
    BY <2>1, <2>2, <2>3
<1>4. Ordered(new)
  BY <1>1, <1>3 DEF Ordered
<1> QED
  BY <1>4 DEF new

AnyNodes(S, reversal) == {Node(e, reversal) : e \in S}

ShownNodes(S, reversal, refusal) ==
  {Node(e, reversal) : e \in {x \in S : Lifecycle(x) \/ x = refusal}}

(* The nodes of a timeline, in the order of their events: one of each       *)
(* status change and review, and one of the refusal.                        *)
LEMMA NodesOf ==
  ASSUME NEW S, NEW q \in Seq(S), NEW reversal, NEW refusal
  PROVE  /\ Nodes(q, reversal, refusal) \in Seq(AnyNodes(S, reversal))
         /\ ToSet(Nodes(q, reversal, refusal)) = ShownNodes(ToSet(q), reversal, refusal)
         /\ Numbered(S) /\ Ordered(q) => Ordered(Nodes(q, reversal, refusal))
<1>1. PICK h : /\ h[0] = <<>>
               /\ \A i \in 1..Len(q) : h[i] = Push(h[i - 1], q[i], reversal, refusal)
               /\ Nodes(q, reversal, refusal) = h[Len(q)]
  BY PushFold
<1>2. Len(q) \in Nat /\ DOMAIN q = 1..Len(q) /\ \A i \in 1..Len(q) : q[i] \in S
  OBVIOUS
<1> DEFINE Shown(A) == ShownNodes(A, reversal, refusal)
           N == AnyNodes(S, reversal)
           upto(i) == {q[k] : k \in 1..i}
           sorted == Numbered(S) /\ Ordered(q)
           Good(i) == /\ h[i] \in Seq(N) /\ ToSet(h[i]) = Shown(upto(i))
                      /\ sorted => Ordered(h[i])
           Right == {i \in Nat : i <= Len(q) => Good(i)}
<1>3. 0 \in Right
  <2>1. upto(0) = {}
    OBVIOUS
  <2>2. <<>> \in Seq(N) /\ ToSet(<<>>) = {} /\ Ordered(<<>>)
    BY DEF ToSet, Ordered
  <2> QED
    BY <1>1, <2>1, <2>2 DEF ShownNodes
<1>4. ASSUME NEW i \in Nat, i \in Right PROVE i + 1 \in Right
  <2> SUFFICES ASSUME i + 1 <= Len(q) PROVE Good(i + 1)
    OBVIOUS
  <2> HIDE DEF N, Shown
  <2>1. Good(i)
    BY <1>2, <1>4
  <2> DEFINE e == q[i + 1]
             g == h[i]
             node == Node(e, reversal)
  <2>2. i + 1 \in 1..Len(q) /\ (i + 1) - 1 = i /\ e \in S
    BY <1>2
  <2>3. h[i + 1] = Push(g, e, reversal, refusal)
    BY <1>1, <2>2
  <2>4. upto(i + 1) = upto(i) \cup {e}
    OBVIOUS
  <2>5. node \in N /\ g \in Seq(N)
    BY <2>1, <2>2 DEF N, AnyNodes
  <2>6. ASSUME sorted PROVE \A y \in ToSet(g) : y.seq < node.seq
    <3>1. \A x \in upto(i) : x.seq < e.seq
      <4> SUFFICES ASSUME NEW k \in 1..i PROVE q[k].seq < e.seq
        OBVIOUS
      <4>1. k \in DOMAIN q /\ i + 1 \in DOMAIN q /\ k < i + 1
        BY <1>2, <2>2
      <4> QED
        BY <2>6, <4>1 DEF Ordered
    <3> QED
      BY <2>1, <3>1 DEF Shown, ShownNodes, Node
  <2> HIDE DEF e, g, node
  <2>7. CASE Lifecycle(e) \/ e = refusal
    <3>1. h[i + 1] = Append(g, node)
      BY <2>3, <2>7 DEF Push, node
    <3>2. Append(g, node) \in Seq(N) /\ ToSet(Append(g, node)) = ToSet(g) \cup {node}
      BY <2>5, Appended
    <3>3. Shown(upto(i + 1)) = Shown(upto(i)) \cup {node}
      BY <2>4, <2>7 DEF Shown, ShownNodes, node
    <3>4. sorted => Ordered(Append(g, node))
      <4> SUFFICES ASSUME sorted PROVE Ordered(Append(g, node))
        OBVIOUS
      <4>1. \A y \in N : y.seq \in Nat
        BY DEF N, AnyNodes, Node, Numbered
      <4>2. Ordered(g) /\ \A y \in ToSet(g) : y.seq < node.seq
        BY <2>1, <2>6 DEF g
      <4> HIDE DEF N
      <4> QED
        BY ONLY <2>5, <4>1, <4>2, AppendedAbove
    <3> QED
      BY <2>1, <3>1, <3>2, <3>3, <3>4 DEF g
  <2>8. CASE ~(Lifecycle(e) \/ e = refusal)
    <3>1. h[i + 1] = g
      BY <2>3, <2>8 DEF Push
    <3>2. Shown(upto(i + 1)) = Shown(upto(i))
      BY <2>4, <2>8 DEF Shown, ShownNodes
    <3> QED
      BY <2>1, <3>1, <3>2 DEF g
  <2> QED
    BY <2>7, <2>8
<1> HIDE DEF Right
<1>5. Len(q) \in Right
  BY <1>2, <1>3, <1>4, NatSet
<1>6. Good(Len(q))
  BY <1>2, <1>5 DEF Right
<1>7. upto(Len(q)) = ToSet(q)
  BY <1>2 DEF ToSet
<1> QED
  BY <1>1, <1>6, <1>7

(* A model value is not a record.                                           *)
NoneIsNoRun == \A events, start : RunState(events, start) # None

(* A run is there as soon as its start is, and shows what the start says.   *)
LEMMA Derived ==
  ASSUME NEW S, NEW list \in Seq(S), NoneIsNoRun
  PROVE  \/ /\ DeriveRun(list) = None
            /\ \A e \in ToSet(list) : e.type # "started"
         \/ /\ DeriveRun(list) # None
            /\ \E s \in ToSet(list) : s.type = "started" /\ DeriveRun(list) = RunState(list, s)
<1> DEFINE started == {i \in 1..Len(list) : list[i].type = "started"}
           first == SelectInSeq(list, LAMBDA e : e.type = "started")
<1>1. DOMAIN list = 1..Len(list) /\ Len(list) \in Nat
  OBVIOUS
<1>2. first = IF started # {} THEN Min(started) ELSE 0
  BY DEF SelectInSeq
<1>3. DeriveRun(list) = IF first = 0 THEN None ELSE RunState(list, list[first])
  BY DEF DeriveRun
<1> HIDE DEF first
<1>4. CASE started = {}
  <2>1. \A e \in ToSet(list) : e.type # "started"
    BY <1>1, <1>4 DEF ToSet
  <2> QED
    BY <1>2, <1>3, <1>4, <2>1
<1>5. CASE started # {}
  <2>1. Min(started) \in started
    <3>1. started \in SUBSET Nat
      BY <1>1
    <3> HIDE DEF started
    <3> QED
      BY <1>5, <3>1, MinIs
  <2>2. first \in started
    BY <1>2, <1>5, <2>1
  <2>3. first \in 1..Len(list) /\ first # 0 /\ list[first].type = "started"
    BY <2>2
  <2>4. list[first] \in ToSet(list)
    BY <1>1, <2>3 DEF ToSet
  <2> QED
    BY <1>3, <2>3, <2>4 DEF NoneIsNoRun
<1> QED
  BY <1>4, <1>5

(* A run is started once.                                                   *)
StartsOnce(S) ==
  \A e, f \in S : e.type = "started" /\ f.type = "started" /\ e.run = f.run => e = f

(* Lists of events, each run's own.                                         *)
Sorted(kept, S) ==
  /\ kept \in [Runs -> Seq(S)]
  /\ \A r \in Runs : \A e \in ToSet(kept[r]) : e.run = r

DerivedFrom(kept) == [r \in Runs |-> DeriveRun(kept[r])]

(* The transition of a status change e of a run that s started.             *)
TransitionOf(s, e) == [run |-> e.run, status |-> e.to, seq |-> e.seq, scen |-> s.scen]

Told(t, list) ==
  \E s, e \in ToSet(list) :
    s.type = "started" /\ e.type = "status" /\ e.to \in Notable /\ t = TransitionOf(s, e)

(* What a node keeps of its event.                                          *)
LEMMA NodeIs ==
  ASSUME NEW e, NEW reversal
  PROVE  /\ Node(e, reversal).kind = "status" <=> e.type = "status"
         /\ e.type = "status" => Node(e, reversal).status = e.to
         /\ Node(e, reversal).seq = e.seq
BY DEF Node

(* The transitions worth a toast are those that the events of a run tell.   *)
LEMMA Transitions ==
  ASSUME NEW S, StartsOnce(S), NoneIsNoRun, NEW kept, Sorted(kept, S)
  PROVE  \A t : t \in ToastTransitions(DerivedFrom(kept)) <=> \E r \in Runs : Told(t, kept[r])
<1> DEFINE all == DerivedFrom(kept)
           notable(r) == {n \in ToSet(all[r].timeline) : n.kind = "status" /\ n.status \in Notable}
           shown(r, n) == [run |-> r, status |-> n.status, seq |-> n.seq, scen |-> all[r].scen]
<1>1. DOMAIN all = Runs /\ \A r \in Runs : all[r] = DeriveRun(kept[r])
  BY DEF DerivedFrom
<1>2. ASSUME NEW r \in Runs, NEW t
      PROVE  Told(t, kept[r]) <=> r \in Materialized(all) /\ \E n \in notable(r) : t = shown(r, n)
  <2> DEFINE list == kept[r]
  <2>1. list \in Seq(S) /\ (\A e \in ToSet(list) : e.run = r) /\ ToSet(list) \subseteq S
    BY DEF Sorted, ToSet
  <2>2. all[r] = DeriveRun(list) /\ (r \in Materialized(all) <=> DeriveRun(list) # None)
    BY <1>1 DEF Materialized
  <2> HIDE DEF all, list
  <2>3. CASE DeriveRun(list) = None
    <3>1. \A e \in ToSet(list) : e.type # "started"
      BY <2>1, <2>3, Derived
    <3> QED
      BY <2>2, <2>3, <3>1 DEF Told, list
  <2>4. CASE DeriveRun(list) # None
    <3>1. PICK s \in ToSet(list) : s.type = "started" /\ DeriveRun(list) = RunState(list, s)
      BY <2>1, <2>4, Derived
    <3> DEFINE refusal == RefusalOf(list, s.refusal)
    <3>2. all[r].timeline = Nodes(list, s.reversal, refusal) /\ all[r].scen = s.scen
      BY <2>2, <3>1 DEF RunState, Timeline
    <3> HIDE DEF refusal
    <3>3. ToSet(all[r].timeline)
            = {Node(e, s.reversal) : e \in {x \in ToSet(list) : Lifecycle(x) \/ x = refusal}}
      <4>1. list \in Seq(S)
        BY <2>1
      <4>2. ToSet(Nodes(list, s.reversal, refusal)) = ShownNodes(ToSet(list), s.reversal, refusal)
        BY ONLY <4>1, NodesOf
      <4> QED
        BY <3>2, <4>2 DEF ShownNodes
    <3>4. \A x \in ToSet(list) : x.type = "started" => x = s
      BY <2>1, <3>1 DEF StartsOnce
    <3>5. ASSUME Told(t, list) PROVE \E n \in notable(r) : t = shown(r, n)
      <4>1. PICK e \in ToSet(list) :
              e.type = "status" /\ e.to \in Notable /\ t = TransitionOf(s, e)
        BY <3>4, <3>5 DEF Told
      <4> DEFINE n == Node(e, s.reversal)
      <4>2. n \in ToSet(all[r].timeline)
        BY <3>3, <4>1 DEF Lifecycle
      <4>3. n.kind = "status" /\ n.status = e.to /\ n.seq = e.seq /\ e.run = r
        BY <2>1, <4>1, NodeIs
      <4> HIDE DEF n
      <4>4. n \in notable(r)
        BY <4>1, <4>2, <4>3
      <4>5. t = shown(r, n)
        BY <3>2, <4>1, <4>3 DEF TransitionOf
      <4> QED
        BY <4>4, <4>5
    <3>6. ASSUME NEW n \in notable(r), t = shown(r, n) PROVE Told(t, list)
      <4>1. PICK e \in ToSet(list) : n = Node(e, s.reversal)
        BY <3>3
      <4>2. e.type = "status" /\ n.status = e.to /\ n.seq = e.seq /\ e.run = r /\ e.to \in Notable
        BY <2>1, <4>1, NodeIs
      <4>3. t = TransitionOf(s, e)
        BY <3>2, <3>6, <4>2 DEF TransitionOf
      <4> QED
        BY <3>1, <4>2, <4>3 DEF Told
    <3> QED
      BY <2>2, <2>4, <3>5, <3>6 DEF list
  <2> QED
    BY <2>3, <2>4
<1>3. Materialized(all) \subseteq Runs
  BY <1>1 DEF Materialized
<1>4. ASSUME NEW t
      PROVE  t \in ToastTransitions(all)
               <=> \E r \in Materialized(all) : \E n \in notable(r) : t = shown(r, n)
  BY DEF ToastTransitions
<1> QED
  BY <1>2, <1>3, <1>4

-----------------------------------------------------------------------------
(***************************************************************************)
(* The store.                                                              *)
(***************************************************************************)
Typed ==
  /\ log \in Logs
  /\ raw \in [Runs -> Seq(ToSet(log))]
  /\ delivered \subseteq ToSet(log)
  /\ hydrationCount \in Nat /\ dirty \in BOOLEAN
  /\ baseline = None \/ baseline \in 0..hydrationCount

Held == ViewOrderFree /\ states = DerivedFrom(raw)

(* What DashboardAssumption says of the log.                                *)
LEMMA LogFacts ==
  ASSUME NEW l \in Logs
  PROVE  l \in Seq(ToSet(l)) /\ Numbered(ToSet(l)) /\ StartsOnce(ToSet(l))
<1>1. /\ l \in Seq(ToSet(l)) /\ \A e \in ToSet(l) : e.seq \in Nat
      /\ \A i, j \in DOMAIN l : i < j => l[i].seq < l[j].seq
  BY DashboardAssumption
<1>2. StartsOnce(ToSet(l))
  BY DashboardAssumption DEF StartsOnce
<1>3. ASSUME NEW e \in ToSet(l), NEW f \in ToSet(l), e.seq = f.seq PROVE e = f
  <2>1. PICK i \in DOMAIN l : e = l[i]
    BY DEF ToSet
  <2>2. PICK j \in DOMAIN l : f = l[j]
    BY DEF ToSet
  <2>3. i \in Nat /\ j \in Nat /\ e.seq \in Nat /\ f.seq \in Nat
    BY <1>1
  <2>4. ~(i < j) /\ ~(j < i)
    BY <1>1, <1>3, <2>1, <2>2, <2>3
  <2>5. i = j
    BY <2>3, <2>4
  <2> QED
    BY <2>1, <2>2, <2>5
<1> QED
  BY <1>1, <1>2, <1>3 DEF Numbered

(* A stretch of a log.                                                      *)
LEMMA Stretch ==
  ASSUME NEW S, NEW l \in Seq(S), NEW i \in Nat \ {0}, NEW j \in 0..Len(l)
  PROVE  SubSeq(l, i, j) \in Seq(S) /\ ToSet(SubSeq(l, i, j)) \subseteq S
<1>1. \A k \in i..j : l[k] \in S
  OBVIOUS
<1>2. SubSeq(l, i, j) \in Seq(S)
  BY <1>1
<1> DEFINE q == SubSeq(l, i, j)
<1> HIDE DEF q
<1>3. q \in Seq(S)
  BY <1>2 DEF q
<1>4. ToSet(q) \subseteq S
  BY <1>3 DEF ToSet
<1> QED
  BY <1>3, <1>4 DEF q

(* A batch put into the lists of all runs.                                  *)
LEMMA AllInserted ==
  ASSUME NEW S, Numbered(S), NEW q \in Seq(S),
         NEW held \in [Runs -> Seq(S)], \A r \in Runs : Ordered(held[r])
  PROVE  /\ InsertAll(held, q) \in [Runs -> Seq(S)]
         /\ \A r \in Runs :
              /\ Ordered(InsertAll(held, q)[r])
              /\ ToSet(InsertAll(held, q)[r])
                   = ToSet(held[r]) \cup {e \in ToSet(q) : e.run = r}
<1>1. ASSUME NEW r \in Runs
      PROVE  /\ InsertEach(r, held[r], q) \in Seq(S)
             /\ Ordered(InsertEach(r, held[r], q))
             /\ ToSet(InsertEach(r, held[r], q))
                  = ToSet(held[r]) \cup {e \in ToSet(q) : e.run = r}
  <2> DEFINE list == held[r]
  <2>1. list \in Seq(S) /\ Ordered(list)
    OBVIOUS
  <2> HIDE DEF list
  <2>2. /\ InsertEach(r, list, q) \in Seq(S)
        /\ Ordered(InsertEach(r, list, q))
        /\ ToSet(InsertEach(r, list, q)) = ToSet(list) \cup {e \in ToSet(q) : e.run = r}
    BY <2>1, Folded
  <2> QED
    BY <2>2 DEF list
<1> QED
  BY <1>1 DEF InsertAll

(* The view in the words of the lemmas.                                     *)
LEMMA ViewIs ==
  ViewOrderFree <=>
    \A r \in Runs : /\ ToSet(raw[r]) = {e \in delivered : e.run = r}
                    /\ Ordered(raw[r])
                    /\ states[r] = DeriveRun(raw[r])
BY DEF ViewOrderFree, Ordered

(* The same after a step.                                                   *)
LEMMA ViewIsNext ==
  ViewOrderFree' <=>
    \A r \in Runs : /\ ToSet(raw'[r]) = {e \in delivered' : e.run = r}
                    /\ Ordered(raw'[r])
                    /\ states'[r] = DeriveRun(raw'[r])
BY DEF ViewOrderFree, Ordered

(* Nothing is held at the start.                                            *)
LEMMA HeldInit == Init => Typed /\ Held
<1> SUFFICES ASSUME Init PROVE Typed /\ Held
  OBVIOUS
<1>1. Typed
  BY DEF Init, Typed
<1>2. ToSet(<<>>) = {} /\ Ordered(<<>>)
  BY DEF ToSet, Ordered
<1>3. DeriveRun(<<>>) = None
  <2> DEFINE started == {i \in 1..Len(<<>>) : (<<>>)[i].type = "started"}
  <2>1. started = {}
    OBVIOUS
  <2>2. SelectInSeq(<<>>, LAMBDA e : e.type = "started") = IF started # {} THEN Min(started) ELSE 0
    BY DEF SelectInSeq
  <2> QED
    BY <2>1, <2>2 DEF DeriveRun
<1>4. \A r \in Runs : raw[r] = <<>> /\ states[r] = None
  BY DEF Init
<1>5. delivered = {} /\ states = [r \in Runs |-> states[r]]
  BY DEF Init
<1>6. ViewOrderFree
  BY <1>2, <1>3, <1>4, <1>5, ViewIs
<1>7. states = DerivedFrom(raw)
  BY <1>3, <1>4, <1>5 DEF DerivedFrom
<1> QED
  BY <1>1, <1>6, <1>7 DEF Held

(* Every step keeps the store in line with what has arrived.                *)
LEMMA HeldStep ==
  ASSUME Typed, Held, [Next]_vars
  PROVE  Typed' /\ Held'
<1> USE DEF Typed
<1> DEFINE S == ToSet(log)
<1>1. log \in Seq(S) /\ Numbered(S)
  BY LogFacts
<1>2. \A r \in Runs : /\ ToSet(raw[r]) = {e \in delivered : e.run = r}
                      /\ Ordered(raw[r])
                      /\ states[r] = DeriveRun(raw[r])
  BY ViewIs DEF Held
<1>3. CASE Deliver
  <2>1. PICK i \in DOMAIN log, j \in DOMAIN log :
          /\ ApplyEvents(SubSeq(log, i, j))
          /\ delivered' = delivered \cup ToSet(SubSeq(log, i, j))
    BY <1>3 DEF Deliver
  <2> DEFINE q == SubSeq(log, i, j)
             all == InsertAll(raw, q)
  <2>2. i \in Nat \ {0} /\ j \in 0..Len(log)
    BY <1>1
  <2>3. q \in Seq(S) /\ ToSet(q) \subseteq S
    <3> HIDE DEF S
    <3> QED
      BY <1>1, <2>2, Stretch
  <2>4. UNCHANGED <<log, hydrationCount, baseline>> /\ dirty' \in BOOLEAN
    BY <1>3, <2>1 DEF Deliver, ApplyEvents, toasting
  <2>5. raw' = all /\ delivered' = delivered \cup ToSet(q)
    BY <2>1 DEF ApplyEvents
  <2>6. states' = [r \in Runs |-> IF raw'[r] = raw[r] THEN states[r] ELSE DeriveRun(raw'[r])]
    BY <2>1 DEF ApplyEvents
  <2> HIDE DEF q
  <2>7. /\ all \in [Runs -> Seq(S)]
        /\ \A r \in Runs : /\ Ordered(all[r])
                           /\ ToSet(all[r]) = ToSet(raw[r]) \cup {e \in ToSet(q) : e.run = r}
    <3>1. raw \in [Runs -> Seq(S)] /\ \A r \in Runs : Ordered(raw[r])
      BY <1>2
    <3> HIDE DEF S
    <3> QED
      BY <1>1, <2>3, <3>1, AllInserted
  <2> HIDE DEF all
  <2>8. Typed'
    BY <2>3, <2>4, <2>5, <2>7
  <2>9. \A r \in Runs : states'[r] = DeriveRun(raw'[r])
    BY <1>2, <2>6
  <2>10. states' = DerivedFrom(raw')
    BY <2>6, <2>9 DEF DerivedFrom
  <2>11. ViewOrderFree'
    BY <1>2, <2>5, <2>7, <2>9, ViewIsNext
  <2> QED
    BY <2>8, <2>10, <2>11 DEF Held
<1>4. CASE Hydrate
  <2> DEFINE none == [r \in Runs |-> <<>>]
  <2>1. PICK n \in 0..Len(log) : /\ raw' = InsertAll(none, SubSeq(log, 1, n))
                                 /\ delivered' = ToSet(SubSeq(log, 1, n))
    BY <1>4 DEF Hydrate
  <2> DEFINE q == SubSeq(log, 1, n)
             all == InsertAll(none, q)
  <2>2. q \in Seq(S) /\ ToSet(q) \subseteq S
    <3> HIDE DEF S
    <3>1. 1 \in Nat \ {0}
      OBVIOUS
    <3> QED
      BY <1>1, <3>1, Stretch
  <2>3. /\ log' = log /\ baseline' = baseline /\ dirty' = TRUE
        /\ hydrationCount' = hydrationCount + 1
    BY <1>4 DEF Hydrate, toasting
  <2>4. raw' = all /\ delivered' = ToSet(q)
    BY <2>1
  <2>5. states' = DerivedFrom(raw')
    BY <1>4 DEF Hydrate, DerivedFrom
  <2> HIDE DEF q
  <2>6. none \in [Runs -> Seq(S)] /\ \A r \in Runs : none[r] = <<>>
    OBVIOUS
  <2>7. ToSet(<<>>) = {} /\ Ordered(<<>>)
    BY DEF ToSet, Ordered
  <2> HIDE DEF none
  <2>8. /\ all \in [Runs -> Seq(S)]
        /\ \A r \in Runs : /\ Ordered(all[r])
                           /\ ToSet(all[r]) = {e \in ToSet(q) : e.run = r}
    <3>1. /\ none \in [Runs -> Seq(S)]
          /\ \A r \in Runs : Ordered(none[r])
          /\ \A r \in Runs : ToSet(none[r]) = {}
      BY <2>6, <2>7
    <3> HIDE DEF S
    <3>2. /\ all \in [Runs -> Seq(S)]
          /\ \A r \in Runs : /\ Ordered(all[r])
                             /\ ToSet(all[r]) = ToSet(none[r]) \cup {e \in ToSet(q) : e.run = r}
      <4>1. Numbered(S) /\ q \in Seq(S) /\ none \in [Runs -> Seq(S)]
        BY <1>1, <2>2, <3>1
      <4>2. \A r \in Runs : Ordered(none[r])
        BY <3>1
      <4> QED
        BY ONLY <4>1, <4>2, AllInserted
    <3> QED
      BY <3>1, <3>2
  <2> HIDE DEF all
  <2>9. Typed'
    BY <2>2, <2>3, <2>4, <2>8
  <2>10. \A r \in Runs : states'[r] = DeriveRun(raw'[r])
    BY <2>5 DEF DerivedFrom
  <2>11. ViewOrderFree'
    BY <2>4, <2>8, <2>10, ViewIsNext
  <2> QED
    BY <2>5, <2>9, <2>11 DEF Held
<1>5. ASSUME UNCHANGED <<log, raw, states, delivered, hydrationCount>>,
             dirty' \in BOOLEAN,
             baseline' = baseline \/ baseline' = hydrationCount
      PROVE  Typed' /\ Held'
  BY <1>5 DEF Held, ViewOrderFree
<1>6. CASE Select
  BY <1>5, <1>6 DEF Select, SelectScenario, toasting, history
<1>7. CASE TakeBaseline
  BY <1>5, <1>7 DEF TakeBaseline, store
<1>8. CASE Announce
  BY <1>5, <1>8 DEF Announce, store
<1>9. CASE \E t \in toasts : Expire(t) \/ Click(t)
  BY <1>5, <1>9 DEF Expire, Click, SelectScenario, store, history
<1>10. CASE UNCHANGED vars
  BY <1>5, <1>10 DEF vars, store, toasting, history
<1> QED
  BY <1>3, <1>4, <1>6, <1>7, <1>8, <1>9, <1>10 DEF Next

(* Whatever the order, the overlaps and the repetitions of the deliveries:  *)
(* every list holds exactly the events that have arrived, once, by seq, and *)
(* what is shown was derived from it (eventStore.ts insert, applyEvents).   *)
THEOREM ShowsWhatArrived == Spec => []ViewOrderFree
<1>1. Init => Typed /\ Held
  BY HeldInit
<1>2. Typed /\ Held /\ [Next]_vars => (Typed /\ Held)'
  BY HeldStep
<1>3. Held => ViewOrderFree
  BY DEF Held
<1> QED
  BY <1>1, <1>2, <1>3, PTL DEF Spec

-----------------------------------------------------------------------------
(***************************************************************************)
(* The toasts.  While they compare with the latest snapshot, the keys they *)
(* have seen are those of transitions the store still shows: taken with    *)
(* the baseline (all that the snapshot brought), toasted, or watched.      *)
(***************************************************************************)
Known == swallowed \cup announced \cup watched

Announcing ==
  /\ Rebaselines => announced = {} /\ watched = {}
  /\ ~Rebaselines => /\ hydrated \subseteq swallowed
                     /\ Known \subseteq ToastTransitions(states)
                     /\ seen = {KeyOf(t) : t \in Known}
  /\ hydrated \subseteq ToastTransitions(states)
  /\ AnnouncedRightly

(* What has arrived stays shown: a transition that is told once is told     *)
(* whatever comes later.                                                    *)
LEMMA StaysTold ==
  ASSUME NEW S, StartsOnce(S), NoneIsNoRun,
         NEW kept, Sorted(kept, S), NEW later, Sorted(later, S),
         \A r \in Runs : ToSet(kept[r]) \subseteq ToSet(later[r])
  PROVE  ToastTransitions(DerivedFrom(kept)) \subseteq ToastTransitions(DerivedFrom(later))
<1> SUFFICES ASSUME NEW t, t \in ToastTransitions(DerivedFrom(kept))
             PROVE  t \in ToastTransitions(DerivedFrom(later))
  OBVIOUS
<1>1. PICK r \in Runs : Told(t, kept[r])
  BY Transitions
<1>2. Told(t, later[r])
  BY <1>1 DEF Told
<1> QED
  BY <1>2, Transitions

(* A key names one transition.                                              *)
LEMMA OneKey ==
  ASSUME NEW S, StartsOnce(S), NoneIsNoRun, NEW kept, Sorted(kept, S),
         NEW t \in ToastTransitions(DerivedFrom(kept)),
         NEW u \in ToastTransitions(DerivedFrom(kept)), KeyOf(t) = KeyOf(u)
  PROVE  t = u
<1>1. PICK q \in Runs : Told(t, kept[q])
  BY Transitions
<1>2. PICK r \in Runs : Told(u, kept[r])
  BY Transitions
<1>3. PICK s \in ToSet(kept[q]), e \in ToSet(kept[q]) :
        s.type = "started" /\ t = TransitionOf(s, e)
  BY <1>1 DEF Told
<1>4. PICK x \in ToSet(kept[r]), f \in ToSet(kept[r]) :
        x.type = "started" /\ u = TransitionOf(x, f)
  BY <1>2 DEF Told
<1>5. s.run = q /\ e.run = q /\ x.run = r /\ f.run = r
  BY <1>3, <1>4 DEF Sorted
<1>6. s \in S /\ x \in S
  BY <1>3, <1>4 DEF Sorted, ToSet
<1>7. t.run = e.run /\ u.run = f.run /\ t.status = e.to /\ u.status = f.to
      /\ t.seq = e.seq /\ u.seq = f.seq
  BY <1>3, <1>4 DEF TransitionOf
<1>8. t.run = u.run /\ t.status = u.status /\ t.seq = u.seq
  BY DEF KeyOf
<1>9. s = x
  BY <1>3, <1>4, <1>5, <1>6, <1>7, <1>8 DEF StartsOnce
<1> QED
  BY <1>3, <1>4, <1>7, <1>8, <1>9 DEF TransitionOf

(* The lists of the store, in the words of these lemmas.                    *)
LEMMA SortedRaw ==
  ASSUME Typed, Held
  PROVE  /\ Sorted(raw, ToSet(log)) /\ StartsOnce(ToSet(log))
         /\ states = DerivedFrom(raw)
         /\ \A r \in Runs : ToSet(raw[r]) = {e \in delivered : e.run = r}
<1>1. \A r \in Runs : ToSet(raw[r]) = {e \in delivered : e.run = r}
  BY ViewIs DEF Held
<1>2. StartsOnce(ToSet(log))
  BY LogFacts DEF Typed
<1> QED
  BY <1>1, <1>2 DEF Sorted, Held, Typed

(* The same after a step.                                                   *)
LEMMA SortedRawNext ==
  ASSUME Typed', Held'
  PROVE  /\ Sorted(raw', ToSet(log'))
         /\ states' = DerivedFrom(raw')
         /\ \A r \in Runs : ToSet(raw'[r]) = {e \in delivered' : e.run = r}
<1>1. \A r \in Runs : ToSet(raw'[r]) = {e \in delivered' : e.run = r}
  BY ViewIsNext DEF Held
<1> QED
  BY <1>1 DEF Sorted, Held, Typed, DerivedFrom

(* A delivery only adds.                                                    *)
LEMMA DeliveryAdds ==
  ASSUME Typed, Held, Typed', Held', NoneIsNoRun, Deliver
  PROVE  ToastTransitions(states) \subseteq ToastTransitions(states')
<1>1. delivered \subseteq delivered' /\ log' = log
  BY DEF Deliver
<1> DEFINE S == ToSet(log)
<1>2. Sorted(raw, S) /\ Sorted(raw', S) /\ StartsOnce(S)
  BY <1>1, SortedRaw, SortedRawNext
<1>3. \A r \in Runs : ToSet(raw[r]) \subseteq ToSet(raw'[r])
  BY <1>1, SortedRaw, SortedRawNext
<1>4. states = DerivedFrom(raw) /\ states' = DerivedFrom(raw')
  BY SortedRaw, SortedRawNext
<1> HIDE DEF S
<1> DEFINE kept == raw
           later == raw'
<1> HIDE DEF kept, later
<1>5. ToastTransitions(DerivedFrom(kept)) \subseteq ToastTransitions(DerivedFrom(later))
  <2>1. Sorted(kept, S) /\ Sorted(later, S) /\ StartsOnce(S)
    BY <1>2 DEF kept, later
  <2>2. \A r \in Runs : ToSet(kept[r]) \subseteq ToSet(later[r])
    BY <1>3 DEF kept, later
  <2> QED
    BY ONLY <2>1, <2>2, NoneIsNoRun, StaysTold
<1> QED
  BY <1>4, <1>5 DEF kept, later

(* At the start there is nothing to announce.                               *)
LEMMA AnnouncingInit == Init => Announcing
<1> SUFFICES ASSUME Init PROVE Announcing
  OBVIOUS
<1>1. baseline = None /\ hydrationCount = 0 /\ None # 0
  BY DashboardAssumption DEF Init
<1> QED
  BY <1>1 DEF Init, Announcing, Rebaselines, AnnouncedRightly

(* Every step keeps the account of the toasts, and toasts nothing twice.    *)
LEMMA AnnouncingStep ==
  ASSUME NoneIsNoRun, Typed, Held, Typed', Held', Announcing, [Next]_vars
  PROVE  Announcing' /\ (\A t \in toasts' \ toasts : t \notin announced \cup watched)
<1> DEFINE shown == ToastTransitions(states)
           toastsOnce == \A t \in toasts' \ toasts : t \notin announced \cup watched
<1> USE DEF Known
<1>1. CASE Deliver
  <2>1. shown \subseteq ToastTransitions(states')
    BY <1>1, DeliveryAdds
  <2>2. UNCHANGED <<baseline, hydrationCount, seen, toasts, hydrated, swallowed, announced, watched>>
    BY <1>1 DEF Deliver, toasting
  <2>3. ASSUME ~dirty' PROVE ~dirty /\ states' = states
    <3>1. /\ dirty' = (dirty \/ raw' # raw)
          /\ states' = [r \in Runs |-> IF raw'[r] = raw[r] THEN states[r] ELSE DeriveRun(raw'[r])]
      BY <1>1 DEF Deliver, ApplyEvents
    <3>2. ~dirty /\ raw' = raw
      BY <2>3, <3>1
    <3>3. states = DerivedFrom(raw) /\ states' = DerivedFrom(raw')
      BY DEF Held
    <3> QED
      BY <3>2, <3>3
  <2>4. ~dirty' => ToastTransitions(states') \subseteq announced' \cup watched' \cup swallowed'
    BY <2>2, <2>3 DEF Announcing, AnnouncedRightly
  <2>5. Rebaselines' <=> Rebaselines
    BY <2>2 DEF Rebaselines
  <2> HIDE DEF shown
  <2>6. Announcing'
    BY <2>1, <2>2, <2>4, <2>5 DEF Announcing, AnnouncedRightly, shown
  <2> QED
    BY <2>2, <2>6
<1>2. CASE Hydrate
  <2>1. /\ hydrated' = ToastTransitions(states')
        /\ swallowed' = {} /\ announced' = {} /\ watched' = {}
        /\ dirty' = TRUE /\ UNCHANGED <<baseline, seen, toasts>>
        /\ hydrationCount' = hydrationCount + 1
    BY <1>2 DEF Hydrate, toasting
  <2>2. Rebaselines'
    <3>1. baseline = None \/ baseline \in 0..hydrationCount
      BY DEF Typed
    <3>2. hydrationCount \in Nat /\ hydrationCount + 1 \in Nat
      BY DEF Typed
    <3>3. None # hydrationCount + 1
      BY <3>2, DashboardAssumption
    <3>4. baseline # hydrationCount + 1
      BY <3>1, <3>2, <3>3
    <3> QED
      BY <2>1, <3>4 DEF Rebaselines
  <2>3. Announcing'
    BY <2>1, <2>2 DEF Announcing, AnnouncedRightly
  <2> QED
    BY <2>1, <2>3
<1>3. CASE TakeBaseline
  <2>1. /\ Rebaselines /\ baseline' = hydrationCount
        /\ seen' = {KeyOf(t) : t \in shown} /\ swallowed' = shown
        /\ UNCHANGED <<states, hydrationCount, toasts, hydrated, announced, watched>>
    BY <1>3 DEF TakeBaseline, store
  <2>2. ~Rebaselines' /\ announced = {} /\ watched = {}
    BY <2>1 DEF Rebaselines, Announcing
  <2> HIDE DEF shown
  <2>3. ToastTransitions(states') = shown /\ Known' = shown
    BY <2>1, <2>2 DEF shown
  <2>4. Announcing'
    BY <2>1, <2>2, <2>3 DEF Announcing, AnnouncedRightly, shown
  <2> QED
    BY <2>1, <2>4
<1>4. CASE Announce
  <2> DEFINE unseen == {t \in shown : KeyOf(t) \notin seen}
             skipped == {t \in unseen : t.scen = selected}
             fresh == unseen \ skipped
  <2>1. /\ ~Rebaselines
        /\ seen' = seen \cup {KeyOf(t) : t \in fresh \cup skipped}
        /\ toasts' = toasts \cup fresh
        /\ announced' = announced \cup fresh /\ watched' = watched \cup skipped
        /\ UNCHANGED <<states, hydrationCount, baseline, hydrated, swallowed>>
    BY <1>4 DEF Announce, store, SeenAfter
  <2>2. /\ hydrated \subseteq swallowed /\ Known \subseteq shown
        /\ seen = {KeyOf(t) : t \in Known} /\ hydrated \subseteq shown
        /\ announced \cap hydrated = {}
    BY <2>1 DEF Announcing, AnnouncedRightly
  <2>3. ~Rebaselines' /\ ToastTransitions(states') = shown
    BY <2>1 DEF Rebaselines
  <2>4. fresh \cup skipped = unseen /\ unseen \subseteq shown
    OBVIOUS
  <2>5. \A t \in unseen : t \notin Known
    BY <2>2
  <2>6. \A t \in shown : t \in unseen \cup Known
    <3> SUFFICES ASSUME NEW t \in shown, KeyOf(t) \in seen PROVE t \in Known
      OBVIOUS
    <3>1. PICK u \in Known : KeyOf(u) = KeyOf(t)
      BY <2>2
    <3>2. u \in shown
      BY <2>2
    <3>3. states = DerivedFrom(raw) /\ Sorted(raw, ToSet(log)) /\ StartsOnce(ToSet(log))
      BY SortedRaw
    <3>4. t = u
      <4> HIDE DEF Known
      <4> QED
        BY <3>1, <3>2, <3>3, OneKey
    <3> QED
      BY <3>4
  <2> HIDE DEF shown, unseen, skipped
  <2>7. Known' = Known \cup unseen
    BY <2>1, <2>4
  <2>8. announced' \cap hydrated' = {}
    BY <2>1, <2>2, <2>4, <2>5
  <2>9. shown \subseteq Known' /\ Known' \subseteq shown
    BY <2>2, <2>4, <2>6, <2>7
  <2>10. seen' = {KeyOf(t) : t \in Known'}
    <3> HIDE DEF Known, fresh
    <3> QED
      BY <2>1, <2>2, <2>4, <2>7
  <2>11. Announcing'
    BY <2>1, <2>2, <2>3, <2>8, <2>9, <2>10 DEF Announcing, AnnouncedRightly
  <2>12. toastsOnce
    BY <2>1, <2>4, <2>5
  <2> QED
    BY <2>11, <2>12
<1>5. ASSUME UNCHANGED <<states, hydrationCount, baseline, seen, history>>,
             toasts' \subseteq toasts, ~dirty' => ~dirty
      PROVE  Announcing' /\ toastsOnce
  BY <1>5 DEF Announcing, AnnouncedRightly, Rebaselines, history
<1>6. CASE Select
  BY <1>5, <1>6 DEF Select, SelectScenario, toasting
<1>7. CASE \E t \in toasts : Expire(t) \/ Click(t)
  <2>1. PICK t \in toasts : Expire(t) \/ Click(t)
    BY <1>7
  <2>2. UNCHANGED <<states, hydrationCount, baseline, seen, history>>
    BY <2>1 DEF Expire, Click, SelectScenario, store
  <2>3. toasts' \subseteq toasts
    BY <2>1 DEF Expire, Click, SelectScenario
  <2>4. dirty' = dirty \/ dirty' = (dirty \/ selected # t.scen)
    BY <2>1 DEF Expire, Click, SelectScenario
  <2>5. ~dirty' => ~dirty
    BY <2>4
  <2> QED
    BY <1>5, <2>2, <2>3, <2>5
<1>8. CASE UNCHANGED vars
  BY <1>5, <1>8 DEF vars, store, toasting
<1> QED
  BY <1>1, <1>2, <1>3, <1>4, <1>6, <1>7, <1>8 DEF Next

(* No flood and no gap: a transition that a snapshot brought is never       *)
(* toasted, however the deliveries fall around it; and once the toasts have *)
(* looked, every notable transition the store holds was toasted, watched,   *)
(* or there when the baseline was taken (Toasts.tsx).                       *)
THEOREM NeitherFloodNorGap ==
  ASSUME NoneIsNoRun
  PROVE  Spec => []AnnouncedRightly
<1>1. Init => Typed /\ Held /\ Announcing
  BY HeldInit, AnnouncingInit
<1>2. Typed /\ Held /\ Announcing /\ [Next]_vars => (Typed /\ Held /\ Announcing)'
  BY HeldStep, AnnouncingStep
<1>3. Announcing => AnnouncedRightly
  BY DEF Announcing
<1> QED
  BY <1>1, <1>2, <1>3, PTL DEF Spec

(* A toast is for a transition that was neither toasted nor watched since   *)
(* the last snapshot (Toasts.tsx, the set of seen keys).                    *)
THEOREM OneToastEach ==
  ASSUME NoneIsNoRun
  PROVE  Spec => ToastedOnce
<1> DEFINE Once == \A t \in toasts' \ toasts : t \notin announced \cup watched
<1>1. Init => Typed /\ Held /\ Announcing
  BY HeldInit, AnnouncingInit
<1>2. Typed /\ Held /\ Announcing /\ [Next]_vars => (Typed /\ Held /\ Announcing)'
  BY HeldStep, AnnouncingStep
<1>3. Typed /\ Held /\ Announcing /\ [Next]_vars => [Once]_vars
  BY HeldStep, AnnouncingStep
<1>4. ToastedOnce <=> [][Once]_vars
  BY DEF ToastedOnce
<1> HIDE DEF Once
<1> QED
  BY <1>1, <1>2, <1>3, <1>4, PTL DEF Spec

-----------------------------------------------------------------------------
(* The rail and the card that the panes show of a run.                      *)

RailOf(nodes) == FoldLeft(OnRail, <<>>, nodes)

RailStep(f, q, indices) ==
  [s \in SUBSET indices |->
     IF s = {} THEN <<>> ELSE OnRail(f[s \ {Max(s)}], q[Max(s)])]

(* The fold that builds the rail exists on every stretch of nodes.          *)
LEMMA RailFoldExists ==
  ASSUME NEW q
  PROVE  \A n \in Nat : \E f : f = RailStep(f, q, 1..n)
<1> DEFINE Body(f, n) == RailStep(f, q, 1..n)
           Defined == {n \in Nat : \E f : f = Body(f, n)}
<1>1. 0 \in Defined
  <2> DEFINE f == [s \in SUBSET (1..0) |-> <<>>]
  <2>1. \A s \in SUBSET (1..0) : s = {}
    OBVIOUS
  <2>2. f = Body(f, 0)
    BY <2>1 DEF RailStep
  <2> HIDE DEF f
  <2> QED
    BY <2>2
<1>2. ASSUME NEW n \in Nat, n \in Defined PROVE n + 1 \in Defined
  <2>1. PICK f : f = Body(f, n)
    BY <1>2
  <2> DEFINE g == [s \in SUBSET (1..(n + 1)) |->
                     IF n + 1 \in s THEN OnRail(f[s \ {n + 1}], q[n + 1]) ELSE f[s]]
  <2>2. ASSUME NEW s \in SUBSET (1..(n + 1))
        PROVE  g[s] = IF s = {} THEN <<>> ELSE OnRail(g[s \ {Max(s)}], q[Max(s)])
    <3>1. CASE n + 1 \in s
      <4>1. Max(s) \in s /\ \A x \in s : x <= Max(s)
        <5>1. n + 1 \in Nat /\ s \in SUBSET (0..(n + 1)) /\ s # {}
          BY <3>1
        <5> QED
          BY ONLY <5>1, MaxIs
      <4>2. Max(s) = n + 1
        <5>1. Max(s) \in 1..(n + 1) /\ n + 1 <= Max(s)
          BY <4>1, <3>1
        <5> QED
          BY ONLY <5>1, n \in Nat
      <4>3. s \ {n + 1} \in SUBSET (1..(n + 1)) /\ n + 1 \notin s \ {n + 1}
        OBVIOUS
      <4>4. g[s \ {n + 1}] = f[s \ {n + 1}]
        BY <4>3
      <4> QED
        BY <3>1, <4>2, <4>4
    <3>2. CASE n + 1 \notin s /\ s # {}
      <4>1. s \in SUBSET (1..n)
        BY <3>2
      <4>2. Max(s) \in s
        <5>1. s \in SUBSET (0..n)
          BY <4>1
        <5> QED
          BY ONLY <5>1, <3>2, n \in Nat, MaxIs
      <4>3. g[s] = f[s] /\ g[s \ {Max(s)}] = f[s \ {Max(s)}]
        BY <3>2
      <4>4. f[s] = OnRail(f[s \ {Max(s)}], q[Max(s)])
        BY <2>1, <4>1, <3>2 DEF RailStep
      <4> QED
        BY <4>3, <4>4, <3>2
    <3>3. CASE s = {}
      <4>1. s \in SUBSET (1..n) /\ n + 1 \notin s
        BY <3>3
      <4>2. f[s] = <<>>
        BY <2>1, <4>1, <3>3 DEF RailStep
      <4> QED
        BY <4>1, <4>2, <3>3
    <3> QED
      BY <3>1, <3>2, <3>3
  <2>3. g = [s \in SUBSET (1..(n + 1)) |-> g[s]]
    OBVIOUS
  <2> HIDE DEF g
  <2>4. g = Body(g, n + 1)
    BY <2>2, <2>3 DEF RailStep
  <2> QED
    BY <2>4
<1> HIDE DEF Defined
<1>3. Nat \subseteq Defined
  BY <1>1, <1>2, NatSet
<1> QED
  BY <1>3 DEF Defined

(* Folding is adding to the rail step by step.                              *)
LEMMA RailFold ==
  ASSUME NEW A, NEW q \in Seq(A)
  PROVE  \E h : /\ h[0] = <<>>
                /\ \A i \in 1..Len(q) : h[i] = OnRail(h[i - 1], q[i])
                /\ RailOf(q) = h[Len(q)]
<1> DEFINE Body(f) == RailStep(f, q, DOMAIN q)
           iter == CHOOSE f : f = Body(f)
           h == [i \in 0..Len(q) |-> iter[1..i]]
<1>1. DOMAIN q = 1..Len(q) /\ Len(q) \in Nat
  OBVIOUS
<1>2. \E f : f = Body(f)
  <2>1. \A n \in Nat : \E f : f = RailStep(f, q, 1..n)
    BY RailFoldExists
  <2> QED
    BY <2>1, <1>1
<1>3. iter = Body(iter)
  BY <1>2
<1>4. RailOf(q) = iter[DOMAIN q]
  BY DEF RailOf, FoldLeft, MapThenFoldSet, RailStep
<1> HIDE DEF iter
<1>5. h[0] = <<>>
  BY <1>1, <1>3, 1..0 = {} DEF RailStep
<1>6. ASSUME NEW i \in 1..Len(q) PROVE h[i] = OnRail(h[i - 1], q[i])
  <2> DEFINE s == 1..i
  <2>1. s # {} /\ s \in SUBSET (0..i) /\ i \in Nat /\ i \in s
    <3>1. i \in Nat /\ i >= 1
      BY <1>1
    <3>2. i \in s
      BY <3>1
    <3>3. s \in SUBSET (0..i)
      BY <3>1
    <3> QED
      BY <3>1, <3>2, <3>3
  <2>2. Max(s) \in s /\ \A x \in s : x <= Max(s)
    <3> HIDE DEF s
    <3> QED
      BY ONLY <2>1, MaxIs
  <2>3. Max(s) = i
    BY <2>1, <2>2
  <2>4. s \ {i} = 1..(i - 1) /\ s \in SUBSET DOMAIN q
    BY <1>1
  <2>5. iter[s] = OnRail(iter[s \ {Max(s)}], q[Max(s)])
    <3> HIDE DEF s
    <3> QED
      BY <1>3, <2>1, <2>4 DEF RailStep
  <2>6. h[i] = iter[s] /\ h[i - 1] = iter[1..(i - 1)]
    BY <1>1
  <2> QED
    BY <2>3, <2>4, <2>5, <2>6
<1>7. h[Len(q)] = iter[DOMAIN q]
  BY <1>1
<1> HIDE DEF h
<1> QED
  BY <1>4, <1>5, <1>6, <1>7

RowOf(node) == [id |-> node.seq, status |-> node.status, kind |-> NodeKind(node)]

RowsOf(N) == {RowOf(n) : n \in {m \in N : m.kind = "status"}}

Rises(rows) == \A i, j \in DOMAIN rows : i < j => rows[i].id < rows[j].id

(* The rows of a rail: one of each status node, in their order.             *)
LEMMA RowsAre ==
  ASSUME NEW N, \A n \in N : n.seq \in Nat, NEW q \in Seq(N), Ordered(q)
  PROVE  ToSet(RailOf(q)) = RowsOf(ToSet(q)) /\ Rises(RailOf(q))
<1>1. PICK h : /\ h[0] = <<>>
               /\ \A i \in 1..Len(q) : h[i] = OnRail(h[i - 1], q[i])
               /\ RailOf(q) = h[Len(q)]
  BY RailFold
<1>2. Len(q) \in Nat /\ DOMAIN q = 1..Len(q) /\ \A i \in 1..Len(q) : q[i] \in N
  OBVIOUS
<1> DEFINE R == {RowOf(n) : n \in N}
           upto(i) == {q[k] : k \in 1..i}
           Good(i) == /\ h[i] \in Seq(R) /\ ToSet(h[i]) = RowsOf(upto(i))
                      /\ Rises(h[i])
           Right == {i \in Nat : i <= Len(q) => Good(i)}
<1>3. 0 \in Right
  <2>1. upto(0) = {}
    OBVIOUS
  <2>2. <<>> \in Seq(R) /\ ToSet(<<>>) = {} /\ Rises(<<>>)
    BY DEF ToSet, Rises
  <2> QED
    BY <1>1, <2>1, <2>2 DEF RowsOf
<1>4. ASSUME NEW i \in Nat, i \in Right PROVE i + 1 \in Right
  <2> SUFFICES ASSUME i + 1 <= Len(q) PROVE Good(i + 1)
    OBVIOUS
  <2>1. Good(i)
    BY <1>2, <1>4
  <2> DEFINE n == q[i + 1]
             g == h[i]
             row == RowOf(n)
  <2>2. i + 1 \in 1..Len(q) /\ (i + 1) - 1 = i /\ n \in N
    BY <1>2
  <2>3. h[i + 1] = OnRail(g, n)
    BY <1>1, <2>2
  <2>4. upto(i + 1) = upto(i) \cup {n}
    OBVIOUS
  <2>5. row \in R /\ g \in Seq(R)
    BY <2>1, <2>2
  <2>6. \A y \in ToSet(g) : y.id < row.id
    <3>1. \A x \in upto(i) : x.seq < n.seq
      <4> SUFFICES ASSUME NEW k \in 1..i PROVE q[k].seq < n.seq
        OBVIOUS
      <4>1. k \in DOMAIN q /\ i + 1 \in DOMAIN q /\ k < i + 1
        BY <1>2, <2>2
      <4> QED
        BY <4>1 DEF Ordered
    <3> QED
      BY <2>1, <3>1 DEF RowsOf, RowOf
  <2> HIDE DEF n, g, row, R
  <2>7. CASE n.kind = "status"
    <3> DEFINE new == Append(g, row)
               m == Len(g)
    <3>1. h[i + 1] = new
      BY <2>3, <2>7 DEF OnRail, row, RowOf
    <3>2. /\ new \in Seq(R) /\ m \in Nat /\ DOMAIN g = 1..m /\ DOMAIN new = 1..(m + 1)
          /\ \A k \in 1..m : new[k] = g[k]
          /\ new[m + 1] = row
          /\ ToSet(new) = ToSet(g) \cup {row}
      BY <2>5, Appended
    <3>3. RowsOf(upto(i + 1)) = RowsOf(upto(i)) \cup {row}
      BY <2>4, <2>7 DEF RowsOf, row
    <3>4. \A k \in 1..m : g[k] \in ToSet(g)
      BY <3>2 DEF ToSet
    <3>5. Rises(g)
      BY <2>1 DEF g
    <3> HIDE DEF new, m
    <3>6. ASSUME NEW k \in 1..(m + 1), NEW j \in 1..(m + 1), k < j
          PROVE  new[k].id < new[j].id
      <4>1. k \in 1..m /\ (j \in 1..m \/ j = m + 1)
        BY <3>2, <3>6
      <4>2. CASE j \in 1..m
        BY <3>2, <3>5, <3>6, <4>1, <4>2 DEF Rises
      <4>3. CASE j = m + 1
        BY <2>6, <3>2, <3>4, <4>1, <4>3
      <4> QED
        BY <4>1, <4>2, <4>3
    <3>7. Rises(new)
      BY <3>2, <3>6 DEF Rises
    <3> QED
      BY <2>1, <3>1, <3>2, <3>3, <3>7 DEF g
  <2>8. CASE n.kind # "status"
    <3>1. h[i + 1] = g
      BY <2>3, <2>8 DEF OnRail
    <3>2. RowsOf(upto(i + 1)) = RowsOf(upto(i))
      BY <2>4, <2>8 DEF RowsOf
    <3> QED
      BY <2>1, <3>1, <3>2 DEF g
  <2> QED
    BY <2>7, <2>8
<1> HIDE DEF Right, Good
<1>5. Len(q) \in Right
  BY <1>2, <1>3, <1>4, NatSet
<1>6. Good(Len(q))
  BY <1>2, <1>5 DEF Right
<1>7. upto(Len(q)) = ToSet(q)
  BY <1>2 DEF ToSet
<1> QED
  BY <1>1, <1>6, <1>7 DEF Good

(* What DashboardAssumption says of single events.                          *)
Eventful(S) == \A e \in S : e # None /\ (e.type \in {"review", "exchange"} => e.status # None)

Refused(e) == e.type = "exchange" /\ e.status >= 400 /\ e.endpoint \in {"paykey", "charge"}

(* A variable that the events of a type overwrite has its value from one.   *)
LEMMA LastIs ==
  ASSUME NEW S, \A e \in S : e # None, NEW list \in Seq(S), NEW type
  PROVE  \/ LastOf(list, type) = None /\ \A e \in ToSet(list) : e.type # type
         \/ /\ LastOf(list, type) # None
            /\ LastOf(list, type) \in ToSet(list) /\ LastOf(list, type).type = type
<1> DEFINE those == {i \in 1..Len(list) : list[i].type = type}
           at == SelectLastInSeq(list, LAMBDA e : e.type = type)
<1>1. DOMAIN list = 1..Len(list) /\ Len(list) \in Nat /\ \A i \in 1..Len(list) : list[i] \in S
  OBVIOUS
<1>2. at = IF those # {} THEN Max(those) ELSE 0
  BY DEF SelectLastInSeq
<1>3. LastOf(list, type) = IF at = 0 THEN None ELSE list[at]
  BY DEF LastOf
<1> HIDE DEF at
<1>4. CASE those = {}
  BY <1>1, <1>2, <1>3, <1>4 DEF ToSet
<1>5. CASE those # {}
  <2>1. Max(those) \in those
    <3>1. those \in SUBSET (0..Len(list))
      BY <1>1
    <3> HIDE DEF those
    <3> QED
      BY ONLY <1>1, <1>5, <3>1, MaxIs
  <2>2. at \in 1..Len(list) /\ at # 0 /\ list[at].type = type
    BY <1>1, <1>2, <1>5, <2>1
  <2>3. list[at] \in ToSet(list) /\ list[at] # None
    BY <1>1, <2>2 DEF ToSet
  <2> QED
    BY <1>3, <2>2, <2>3
<1> QED
  BY <1>4, <1>5

(* The refusal, where one is expected, is one of the run's.                 *)
LEMMA RefusalIs ==
  ASSUME NEW S, \A e \in S : e # None, NEW list \in Seq(S), NEW expected
  PROVE  LET refusal == RefusalOf(list, expected)
         IN /\ refusal # None => refusal \in ToSet(list) /\ Refused(refusal)
            /\ refusal # None <=> (expected /\ \E e \in ToSet(list) : Refused(e))
<1> DEFINE those == {i \in 1..Len(list) : Refused(list[i])}
           at == SelectInSeq(list, LAMBDA e : /\ e.type = "exchange"
                                              /\ e.status >= 400
                                              /\ e.endpoint \in {"paykey", "charge"})
           refusal == RefusalOf(list, expected)
<1>1. DOMAIN list = 1..Len(list) /\ Len(list) \in Nat /\ \A i \in 1..Len(list) : list[i] \in S
  OBVIOUS
<1>2. at = IF those # {} THEN Min(those) ELSE 0
  BY DEF SelectInSeq, Refused
<1>3. refusal = IF expected /\ at # 0 THEN list[at] ELSE None
  BY DEF RefusalOf
<1> HIDE DEF at, refusal
<1>4. CASE those = {}
  BY <1>1, <1>2, <1>3, <1>4 DEF ToSet, refusal
<1>5. CASE those # {}
  <2>1. Min(those) \in those
    <3>1. those \in SUBSET Nat
      BY <1>1
    <3> HIDE DEF those
    <3> QED
      BY <1>5, <3>1, MinIs
  <2>2. at \in 1..Len(list) /\ at # 0 /\ Refused(list[at])
    BY <1>1, <1>2, <1>5, <2>1
  <2>3. list[at] \in ToSet(list) /\ list[at] # None
    BY <1>1, <2>2 DEF ToSet
  <2> QED
    BY <1>3, <2>2, <2>3 DEF refusal
<1> QED
  BY <1>4, <1>5

OnCard(k, list, start) ==
  /\ start.refusal
  /\ k = "customer_review" => \E e \in ToSet(list) : e.type = "review"
  /\ k = "api_refusal" => \E e \in ToSet(list) : Refused(e)

(* The facts on the card of a run are those that have arrived.              *)
LEMMA CardIs ==
  ASSUME NEW S, Eventful(S), NEW list \in Seq(S), NEW start
  PROVE  DOMAIN EvidenceCard(RunState(list, start))
           = {k \in {"customer_review", "api_refusal"} : OnCard(k, list, start)}
<1> DEFINE run == RunState(list, start)
           refusal == RefusalOf(list, start.refusal)
<1>1. run.expectsRefusal = start.refusal /\ run.review = ReviewOf(list) /\ run.refusal = refusal
  BY DEF RunState
<1> HIDE DEF run
<1>2. \A e \in S : e # None
  BY DEF Eventful
<1>3. ToSet(list) \subseteq S
  BY DEF ToSet
<1>4. run.review # None <=> \E e \in ToSet(list) : e.type = "review"
  <2>1. \/ LastOf(list, "review") = None /\ \A e \in ToSet(list) : e.type # "review"
        \/ /\ LastOf(list, "review") # None
           /\ LastOf(list, "review") \in ToSet(list) /\ LastOf(list, "review").type = "review"
    BY <1>2, LastIs
  <2> QED
    BY <1>1, <1>3, <2>1 DEF ReviewOf, Eventful
<1> DEFINE outcome == IF run.refusal = None THEN None ELSE run.refusal.status
<1>5. start.refusal => (outcome # None <=> \E e \in ToSet(list) : Refused(e))
  <2>1. refusal # None => refusal \in ToSet(list) /\ Refused(refusal)
    BY <1>2, RefusalIs
  <2>2. refusal # None <=> start.refusal /\ \E e \in ToSet(list) : Refused(e)
    BY <1>2, RefusalIs
  <2> HIDE DEF refusal
  <2>3. refusal # None => refusal.status # None
    BY <1>3, <2>1 DEF Refused, Eventful
  <2> QED
    BY <1>1, <2>2, <2>3
<1>6. DOMAIN EvidenceCard(run)
        = {k \in {"customer_review", "api_refusal"} :
             /\ run.expectsRefusal
             /\ k = "customer_review" => run.review # None
             /\ k = "api_refusal" => outcome # None}
  <2> HIDE DEF outcome
  <2> DEFINE rows == [customer_review |->
                       [pass |-> PassOf(run, "customer_review", run.review = "rejected"),
                        seen |-> run.review],
                     api_refusal |-> [pass |-> PassOf(run, "api_refusal", TRUE), seen |-> outcome]]
  <2>1. DOMAIN EvidenceCard(run) = {k \in DOMAIN rows : run.expectsRefusal /\ rows[k].seen # None}
    BY DEF EvidenceCard, outcome
  <2>2. /\ DOMAIN rows = {"customer_review", "api_refusal"}
        /\ rows["customer_review"].seen = run.review /\ rows["api_refusal"].seen = outcome
    OBVIOUS
  <2> HIDE DEF rows
  <2> QED
    BY <2>1, <2>2
<1> HIDE DEF outcome
<1> QED
  BY <1>1, <1>4, <1>5, <1>6 DEF OnCard, run

RowsFor(A, reversal) == {RowOf(Node(e, reversal)) : e \in {x \in A : x.type = "status"}}

(* The rail of a run has one row of each status change that has arrived.    *)
LEMMA RailIs ==
  ASSUME NEW S, Numbered(S), NEW list \in Seq(S), Ordered(list), NEW start
  PROVE  LET rail == Rail(RunState(list, start))
         IN ToSet(rail) = RowsFor(ToSet(list), start.reversal) /\ Rises(rail)
<1> DEFINE rev == start.reversal
           refusal == RefusalOf(list, start.refusal)
           nodes == Nodes(list, rev, refusal)
           N == AnyNodes(S, rev)
<1>1. Rail(RunState(list, start)) = RailOf(nodes)
  BY DEF Rail, RailOf, RunState, Timeline
<1> HIDE DEF rev, refusal
<1>2. /\ nodes \in Seq(N) /\ Ordered(nodes)
      /\ ToSet(nodes) = ShownNodes(ToSet(list), rev, refusal)
  BY NodesOf
<1>3. \A n \in N : n.seq \in Nat
  BY DEF AnyNodes, Node, Numbered
<1> HIDE DEF nodes, N
<1>4. ToSet(RailOf(nodes)) = RowsOf(ToSet(nodes)) /\ Rises(RailOf(nodes))
  BY ONLY <1>2, <1>3, RowsAre
<1>5. RowsOf(ShownNodes(ToSet(list), rev, refusal)) = RowsFor(ToSet(list), rev)
  BY NodeIs DEF RowsOf, ShownNodes, RowsFor, Lifecycle
<1> QED
  BY <1>1, <1>2, <1>4, <1>5 DEF rev

(* What a run shows stays when more of its events arrive.                   *)
LEMMA StaysShown ==
  ASSUME NEW S, Numbered(S), StartsOnce(S), Eventful(S), NoneIsNoRun,
         NEW r, NEW a \in Seq(S), NEW b \in Seq(S), Ordered(a), Ordered(b),
         ToSet(a) \subseteq ToSet(b), \A e \in ToSet(b) : e.run = r, DeriveRun(a) # None
  PROVE  LET rail == Rail(DeriveRun(b))
         IN /\ DeriveRun(b) # None
            /\ ToSet(Rail(DeriveRun(a))) \subseteq ToSet(rail)
            /\ {row.id : row \in ToSet(rail)}
                 = {e.seq : e \in {x \in ToSet(b) : x.type = "status"}}
            /\ Rises(rail)
            /\ DOMAIN EvidenceCard(DeriveRun(a)) \subseteq DOMAIN EvidenceCard(DeriveRun(b))
<1>1. PICK s \in ToSet(a) : s.type = "started" /\ DeriveRun(a) = RunState(a, s)
  BY Derived
<1>2. s \in ToSet(b) /\ ToSet(b) \subseteq S
  BY <1>1 DEF ToSet
<1>3. DeriveRun(b) # None /\ DeriveRun(b) = RunState(b, s)
  <2>1. /\ DeriveRun(b) # None
        /\ \E x \in ToSet(b) : x.type = "started" /\ DeriveRun(b) = RunState(b, x)
    BY <1>1, <1>2, Derived
  <2>2. \A x \in ToSet(b) : x.type = "started" => x = s
    BY <1>1, <1>2 DEF StartsOnce
  <2> QED
    BY <2>1, <2>2
<1>4. ToSet(Rail(RunState(a, s))) = RowsFor(ToSet(a), s.reversal)
  BY RailIs
<1>5. /\ ToSet(Rail(RunState(b, s))) = RowsFor(ToSet(b), s.reversal)
      /\ Rises(Rail(RunState(b, s)))
  BY RailIs
<1>6. RowsFor(ToSet(a), s.reversal) \subseteq RowsFor(ToSet(b), s.reversal)
  BY DEF RowsFor
<1>7. {row.id : row \in RowsFor(ToSet(b), s.reversal)}
        = {e.seq : e \in {x \in ToSet(b) : x.type = "status"}}
  <2>1. \A e : RowOf(Node(e, s.reversal)).id = e.seq
    BY NodeIs DEF RowOf
  <2> QED
    BY <2>1 DEF RowsFor
<1>8. DOMAIN EvidenceCard(RunState(a, s)) \subseteq DOMAIN EvidenceCard(RunState(b, s))
  <2>1. DOMAIN EvidenceCard(RunState(a, s))
          = {k \in {"customer_review", "api_refusal"} : OnCard(k, a, s)}
    BY CardIs
  <2>2. DOMAIN EvidenceCard(RunState(b, s))
          = {k \in {"customer_review", "api_refusal"} : OnCard(k, b, s)}
    BY CardIs
  <2>3. \A k : OnCard(k, a, s) => OnCard(k, b, s)
    BY DEF OnCard
  <2> QED
    BY <2>1, <2>2, <2>3
<1> QED
  BY <1>1, <1>3, <1>4, <1>5, <1>6, <1>7, <1>8

(* What DashboardAssumption says of the events of a log.                    *)
LEMMA EventFacts ==
  ASSUME NEW l \in Logs
  PROVE  /\ Numbered(ToSet(l)) /\ StartsOnce(ToSet(l)) /\ Eventful(ToSet(l))
         /\ \A e, f \in ToSet(l) : e.type = "completed" /\ f.type = "completed" /\ e.run = f.run => e = f
         /\ \A e \in ToSet(l) : /\ e.run \in Runs
                                /\ e.type = "started" => e.scen \in Scenarios
                                /\ e.type = "completed" => e.result \in {"passed", "failed"}
<1>1. Numbered(ToSet(l)) /\ StartsOnce(ToSet(l))
  BY LogFacts
<1>2. Eventful(ToSet(l))
  BY DashboardAssumption DEF Eventful
<1>3. /\ \A e, f \in ToSet(l) : e.type = "completed" /\ f.type = "completed" /\ e.run = f.run => e = f
      /\ \A e \in ToSet(l) : /\ e.run \in Runs
                             /\ e.type = "started" => e.scen \in Scenarios
                             /\ e.type = "completed" => e.result \in {"passed", "failed"}
  BY DashboardAssumption
<1> QED
  BY <1>1, <1>2, <1>3

(* Only a snapshot takes events away.                                       *)
LEMMA KeepsUntilSnapshot ==
  ASSUME Typed, [Next]_vars, hydrationCount' = hydrationCount
  PROVE  delivered \subseteq delivered' /\ log' = log
<1>1. ~ Hydrate
  BY DEF Typed, Hydrate
<1>2. CASE Deliver
  BY <1>2 DEF Deliver
<1>3. CASE Select
  BY <1>3 DEF Select, SelectScenario, history
<1>4. CASE TakeBaseline
  BY <1>4 DEF TakeBaseline
<1>5. CASE Announce
  BY <1>5 DEF Announce
<1>6. CASE \E t \in toasts : Expire(t) \/ Click(t)
  BY <1>6 DEF Expire, Click, SelectScenario, history
<1>7. CASE UNCHANGED vars
  BY <1>7 DEF vars, history
<1> QED
  BY <1>1, <1>2, <1>3, <1>4, <1>5, <1>6, <1>7 DEF Next

(* What a run shows stays until a snapshot replaces everything.             *)
LEMMA StaysStep ==
  ASSUME NoneIsNoRun, Typed, Held, Typed', Held', [Next]_vars,
         hydrationCount' = hydrationCount, NEW r \in Materialized(states)
  PROVE  LET rail == Rail(states'[r])
             changes == {e \in ToSet(raw'[r]) : e.type = "status"}
         IN /\ r \in Materialized(states')
            /\ ToSet(Rail(states[r])) \subseteq ToSet(rail)
            /\ {row.id : row \in ToSet(rail)} = {e.seq : e \in changes}
            /\ \A i, j \in DOMAIN rail : i < j => rail[i].id < rail[j].id
            /\ DOMAIN EvidenceCard(states[r]) \subseteq DOMAIN EvidenceCard(states'[r])
<1> DEFINE S == ToSet(log)
           a == raw[r]
           b == raw'[r]
<1>1. delivered \subseteq delivered' /\ log' = log
  BY KeepsUntilSnapshot
<1>2. /\ Sorted(raw, S) /\ states = DerivedFrom(raw)
      /\ \A q \in Runs : ToSet(raw[q]) = {e \in delivered : e.run = q}
  BY SortedRaw
<1>3. /\ Sorted(raw', S) /\ states' = DerivedFrom(raw')
      /\ \A q \in Runs : ToSet(raw'[q]) = {e \in delivered' : e.run = q}
  BY <1>1, SortedRawNext
<1>4. \A q \in Runs : Ordered(raw[q])
  BY ViewIs DEF Held
<1>5. \A q \in Runs : Ordered(raw'[q])
  BY ViewIsNext DEF Held
<1>6. Numbered(S) /\ StartsOnce(S) /\ Eventful(S)
  BY EventFacts DEF Typed
<1>7. /\ r \in Runs /\ states[r] = DeriveRun(a) /\ states'[r] = DeriveRun(b)
      /\ DeriveRun(a) # None
      /\ r \in Materialized(states') <=> DeriveRun(b) # None
  BY <1>2, <1>3 DEF Materialized, DerivedFrom
<1>8. /\ a \in Seq(S) /\ b \in Seq(S) /\ Ordered(a) /\ Ordered(b)
      /\ ToSet(a) \subseteq ToSet(b) /\ \A e \in ToSet(b) : e.run = r
  BY <1>1, <1>2, <1>3, <1>4, <1>5, <1>7 DEF Sorted
<1> HIDE DEF S, a, b
<1>9. LET rail == Rail(DeriveRun(b))
      IN /\ DeriveRun(b) # None
         /\ ToSet(Rail(DeriveRun(a))) \subseteq ToSet(rail)
         /\ {row.id : row \in ToSet(rail)}
              = {e.seq : e \in {x \in ToSet(b) : x.type = "status"}}
         /\ Rises(rail)
         /\ DOMAIN EvidenceCard(DeriveRun(a)) \subseteq DOMAIN EvidenceCard(DeriveRun(b))
  BY ONLY <1>6, <1>7, <1>8, NoneIsNoRun, StaysShown
<1> QED
  BY <1>7, <1>9 DEF Rises, b

(* A status node, the amber "paid" of a run about to be reversed above all, *)
(* stays as it is whatever arrives later; the rail has a row of each status *)
(* change that has arrived, in order; and a fact on the evidence card stays *)
(* there (eventStore.ts deriveRun, projections.ts).                         *)
THEOREM NodesArePermanent ==
  ASSUME NoneIsNoRun
  PROVE  Spec => StatusNodesStay
<1> DEFINE Stay == hydrationCount' = hydrationCount =>
                     \A r \in Materialized(states) :
                       LET rail == Rail(states'[r])
                           changes == {e \in ToSet(raw'[r]) : e.type = "status"}
                       IN /\ r \in Materialized(states')
                          /\ ToSet(Rail(states[r])) \subseteq ToSet(rail)
                          /\ {row.id : row \in ToSet(rail)} = {e.seq : e \in changes}
                          /\ \A i, j \in DOMAIN rail : i < j => rail[i].id < rail[j].id
                          /\ DOMAIN EvidenceCard(states[r]) \subseteq DOMAIN EvidenceCard(states'[r])
<1>1. Init => Typed /\ Held
  BY HeldInit
<1>2. Typed /\ Held /\ [Next]_vars => (Typed /\ Held)'
  BY HeldStep
<1>3. Typed /\ Held /\ [Next]_vars => Stay
  BY HeldStep, StaysStep
<1>4. Typed /\ Held /\ [Next]_vars => [Stay]_vars
  BY <1>3
<1>5. StatusNodesStay <=> [][Stay]_vars
  BY DEF StatusNodesStay
<1> HIDE DEF Stay
<1> QED
  BY <1>1, <1>2, <1>4, <1>5, PTL DEF Spec

-----------------------------------------------------------------------------
(***************************************************************************)
(* The summary: the run of a scenario that started last, and no other.     *)
(***************************************************************************)
Begun == {e \in delivered : e.type = "started"}

Current == {e \in Begun : \A f \in Begun : f.scen = e.scen => f.seq <= e.seq}

Ended(e, res) == \E f \in delivered : f.run = e.run /\ f.type = "completed" /\ f.result = res

(* As many images as there are elements of a finite set, if none coincide.  *)
LEMMA SameCount ==
  ASSUME NEW S, IsFiniteSet(S), \A e, f \in S : e.run = f.run => e = f
  PROVE  Cardinality({e.run : e \in S}) = Cardinality(S)
<1> DEFINE T == {e.run : e \in S}
           m == [e \in S |-> e.run]
<1>1. m \in [S -> T] /\ \A e \in S : m[e] = e.run
  OBVIOUS
<1>2. \A t \in T : \E e \in S : m[e] = t
  OBVIOUS
<1>3. \A e, f \in S : m[e] = m[f] => e = f
  OBVIOUS
<1> HIDE DEF m, T
<1>4. m \in Bijection(S, T)
  BY <1>1, <1>2, <1>3, Fun_IsBij
<1>5. ExistsBijection(S, T)
  BY <1>4 DEF ExistsBijection
<1> QED
  BY <1>5, FS_Bijection DEF T

(* A log is finite.                                                         *)
LEMMA FiniteLog ==
  ASSUME NEW l, l \in Seq(ToSet(l)) PROVE IsFiniteSet(ToSet(l))
<1>1. Len(l) \in Nat /\ DOMAIN l = 1..Len(l)
  OBVIOUS
<1>2. l \in [1..Len(l) -> ToSet(l)]
  OBVIOUS
<1>3. \A e \in ToSet(l) : \E i \in 1..Len(l) : l[i] = e
  BY <1>1 DEF ToSet
<1>4. l \in Surjection(1..Len(l), ToSet(l))
  BY <1>2, <1>3, Fun_IsSurj
<1>5. IsFiniteSet(1..Len(l))
  BY <1>1, FS_Interval
<1> QED
  BY <1>4, <1>5, FS_Surjection

(* A run is there when its start is, as the start and the verdict say.      *)
LEMMA RunIs ==
  ASSUME NoneIsNoRun, Typed, Held
  PROVE  /\ \A r : r \in Materialized(states) <=> \E e \in Begun : e.run = r
         /\ \A e \in Begun :
              LET run == states[e.run]
              IN /\ run.scen = e.scen /\ run.startedSeq = e.seq
                 /\ run.result \in {None, "passed", "failed"}
                 /\ \A res \in {"passed", "failed"} : run.result = res <=> Ended(e, res)
                 /\ run.result # None => run.chip = run.result
                 /\ run.result = None => run.chip \in {"running", "watching"}
<1> DEFINE S == ToSet(log)
<1>1. /\ Sorted(raw, S) /\ StartsOnce(S) /\ states = DerivedFrom(raw)
      /\ \A r \in Runs : ToSet(raw[r]) = {e \in delivered : e.run = r}
  BY SortedRaw
<1>2. /\ delivered \subseteq S /\ Eventful(S)
      /\ \A e, f \in S : e.type = "completed" /\ f.type = "completed" /\ e.run = f.run => e = f
      /\ \A e \in S : /\ e.run \in Runs
                      /\ e.type = "completed" => e.result \in {"passed", "failed"}
  BY EventFacts DEF Typed
<1> HIDE DEF S
<1>3. DOMAIN states = Runs /\ \A r \in Runs : states[r] = DeriveRun(raw[r])
  BY <1>1 DEF DerivedFrom
<1>4. \A r \in Runs : raw[r] \in Seq(S)
  BY <1>1 DEF Sorted
<1>5. ASSUME NEW r
      PROVE  r \in Materialized(states) <=> \E e \in Begun : e.run = r
  <2>1. CASE r \in Runs
    <3>1. DeriveRun(raw[r]) # None <=> \E e \in ToSet(raw[r]) : e.type = "started"
      BY <1>4, <2>1, Derived
    <3> QED
      BY <1>1, <1>3, <2>1, <3>1 DEF Materialized, Begun
  <2>2. CASE r \notin Runs
    BY <1>2, <1>3, <2>2 DEF Materialized, Begun
  <2> QED
    BY <2>1, <2>2
<1>6. ASSUME NEW e \in Begun
      PROVE  LET run == states[e.run]
             IN /\ run.scen = e.scen /\ run.startedSeq = e.seq
                /\ run.result \in {None, "passed", "failed"}
                /\ \A res \in {"passed", "failed"} : run.result = res <=> Ended(e, res)
                /\ run.result # None => run.chip = run.result
                /\ run.result = None => run.chip \in {"running", "watching"}
  <2> DEFINE r == e.run
             list == raw[r]
             run == states[r]
             end == LastOf(list, "completed")
  <2>1. e \in S /\ r \in Runs /\ e.type = "started" /\ e \in ToSet(list)
    BY <1>1, <1>2 DEF Begun
  <2>2. list \in Seq(S) /\ ToSet(list) = {f \in delivered : f.run = r} /\ run = DeriveRun(list)
    BY <1>1, <1>3, <1>4, <2>1
  <2> HIDE DEF list, run, r
  <2>3. run = RunState(list, e)
    <3>1. \E s \in ToSet(list) : s.type = "started" /\ DeriveRun(list) = RunState(list, s)
      BY <2>1, <2>2, Derived
    <3>2. \A s \in ToSet(list) : s.type = "started" => s = e
      BY <1>1, <1>2, <2>1, <2>2 DEF StartsOnce, r
    <3> QED
      BY <2>2, <3>1, <3>2
  <2>4. /\ run.scen = e.scen /\ run.startedSeq = e.seq
        /\ run.result = ResultOf(list) /\ run.chip = Chip(list, e)
    BY <2>3 DEF RunState
  <2>5. /\ run.result # None => run.chip = run.result
        /\ run.result = None => run.chip \in {"running", "watching"}
    BY <2>4 DEF Chip
  <2>6. \/ end = None /\ \A f \in ToSet(list) : f.type # "completed"
        \/ end # None /\ end \in ToSet(list) /\ end.type = "completed"
    BY <1>2, <2>2, LastIs DEF Eventful
  <2>7. ResultOf(list) = IF end = None THEN None ELSE end.result
    BY DEF ResultOf
  <2> HIDE DEF end
  <2>8. \A res : Ended(e, res) <=> \E f \in ToSet(list) : f.type = "completed" /\ f.result = res
    BY <2>2 DEF Ended, r
  <2>9. None \notin {"passed", "failed"}
    BY DashboardAssumption
  <2>10. CASE end = None
    <3>1. run.result = None /\ \A res : ~ Ended(e, res)
      BY <2>4, <2>6, <2>7, <2>8, <2>10
    <3> QED
      BY <2>4, <2>5, <2>9, <3>1 DEF run, r
  <2>11. CASE end # None
    <3>1. end \in ToSet(list) /\ end.type = "completed" /\ run.result = end.result
      BY <2>4, <2>6, <2>7, <2>11
    <3>2. \A f \in ToSet(list) : f.type = "completed" => f = end
      BY <1>2, <2>2, <3>1
    <3>3. end.result \in {"passed", "failed"}
      BY <1>2, <2>2, <3>1
    <3>4. \A res : Ended(e, res) <=> run.result = res
      BY <2>8, <3>1, <3>2
    <3> QED
      BY <2>4, <2>5, <3>1, <3>3, <3>4 DEF run, r
  <2> QED
    BY <2>10, <2>11
<1> QED
  BY <1>5, <1>6

(* Of the runs of a scenario, one started last.                             *)
LEMMA SomeCurrent ==
  ASSUME Typed, NEW e \in Begun
  PROVE  \E f \in Current : f.scen = e.scen
<1> DEFINE those == {i \in 1..Len(log) : log[i] \in Begun /\ log[i].scen = e.scen}
           last == Max(those)
<1>1. log \in Seq(ToSet(log)) /\ Numbered(ToSet(log)) /\ delivered \subseteq ToSet(log)
  BY LogFacts DEF Typed
<1>2. Len(log) \in Nat /\ DOMAIN log = 1..Len(log)
  BY <1>1
<1>3. \A f \in Begun : \E i \in 1..Len(log) : f = log[i]
  BY <1>1, <1>2 DEF Begun, ToSet
<1>4. last \in those /\ \A i \in those : i <= last
  <2>1. those \in SUBSET (0..Len(log)) /\ those # {}
    BY <1>2, <1>3
  <2> HIDE DEF those
  <2> QED
    BY ONLY <1>2, <2>1, MaxIs
<1> HIDE DEF last
<1>5. ASSUME NEW f \in Begun, f.scen = e.scen PROVE f.seq <= log[last].seq
  <2>1. PICK i \in 1..Len(log) : f = log[i]
    BY <1>3
  <2>2. i \in those /\ i <= last
    BY <1>4, <1>5, <2>1
  <2>3. i = last \/ log[i].seq < log[last].seq
    <3>1. \A j, k \in DOMAIN log : j < k => log[j].seq < log[k].seq
      BY DashboardAssumption DEF Typed
    <3>2. i = last \/ i < last
      BY <1>2, <1>4, <2>2
    <3> QED
      BY <1>2, <1>4, <2>1, <3>1, <3>2
  <2>4. f.seq \in Nat /\ log[last].seq \in Nat
    BY <1>1, <1>4 DEF Begun, Numbered
  <2> QED
    BY <2>1, <2>3, <2>4
<1>6. log[last] \in Current /\ log[last].scen = e.scen
  BY <1>4, <1>5 DEF Current
<1> QED
  BY <1>6

(* One run of a scenario is its current one.                                *)
LEMMA OneCurrent ==
  ASSUME Typed, NEW e \in Current, NEW f \in Current, e.scen = f.scen
  PROVE  e = f
<1>1. Numbered(ToSet(log)) /\ delivered \subseteq ToSet(log)
  BY LogFacts DEF Typed
<1>2. e \in ToSet(log) /\ f \in ToSet(log)
  BY <1>1 DEF Current, Begun
<1>3. e.seq <= f.seq /\ f.seq <= e.seq
  BY DEF Current
<1>4. e.seq \in Nat /\ f.seq \in Nat
  BY <1>1, <1>2 DEF Numbered
<1>5. e.seq = f.seq
  BY <1>3, <1>4
<1> QED
  BY <1>1, <1>2, <1>5 DEF Numbered

(* The store finds it.                                                      *)
LEMMA LatestIs ==
  ASSUME NoneIsNoRun, Typed, Held
  PROVE  /\ \A e \in Current : LatestRun(states, e.scen) = e.run
         /\ \A s : LatestRun(states, s) # None => \E e \in Current : e.scen = s
<1> USE RunIs
<1>1. \A e \in Begun : e.run # None
  <2>1. \A e \in Begun : e.run \in Runs
    BY EventFacts DEF Typed, Begun
  <2> QED
    BY <2>1, DashboardAssumption
<1>2. \A s : \A r : r \in RunsOf(states, s) <=> \E e \in Begun : e.run = r /\ e.scen = s
  BY DEF RunsOf
<1>3. ASSUME NEW e \in Current PROVE LatestRun(states, e.scen) = e.run
  <2> DEFINE mine == RunsOf(states, e.scen)
             Top(r) == \A q \in mine : states[q].startedSeq <= states[r].startedSeq
             latest == CHOOSE r \in mine : Top(r)
  <2>1. e \in Begun /\ \A f \in Begun : f.scen = e.scen => f.seq <= e.seq
    BY DEF Current
  <2>2. e.run \in mine
    BY <1>2, <2>1
  <2>3. Top(e.run)
    <3> SUFFICES ASSUME NEW q \in mine PROVE states[q].startedSeq <= states[e.run].startedSeq
      OBVIOUS
    <3>1. PICK f \in Begun : f.run = q /\ f.scen = e.scen
      BY <1>2
    <3> QED
      BY <2>1, <3>1
  <2>4. LatestRun(states, e.scen) = latest
    BY <2>2 DEF LatestRun
  <2>5. latest \in mine /\ Top(latest)
    <3> HIDE DEF mine, Top
    <3> QED
      BY <2>2, <2>3
  <2>6. PICK f \in Begun : f.run = latest /\ f.scen = e.scen
    BY <1>2, <2>5
  <2> HIDE DEF latest
  <2>7. ASSUME NEW g \in Begun, g.scen = f.scen PROVE g.seq <= f.seq
    <3>1. g.run \in mine
      BY <1>2, <2>6, <2>7
    <3>2. states[g.run].startedSeq <= states[latest].startedSeq
      BY <2>5, <3>1
    <3> QED
      BY <2>6, <3>2
  <2>8. f \in Current
    BY <2>6, <2>7 DEF Current
  <2> QED
    BY <2>4, <2>6, <2>8, OneCurrent
<1>4. ASSUME NEW s, LatestRun(states, s) # None PROVE \E e \in Current : e.scen = s
  <2>1. RunsOf(states, s) # {}
    BY <1>4 DEF LatestRun
  <2>2. PICK e \in Begun : e.scen = s
    BY <1>2, <2>1
  <2> QED
    BY <2>2, SomeCurrent
<1> QED
  BY <1>3, <1>4

(* What the scenario list and the summary show.                             *)
LEMMA SummaryIs ==
  ASSUME NoneIsNoRun, Typed, Held
  PROVE  SummaryCountsLatest
<1> DEFINE latest == {LatestRun(states, s) : s \in Scenarios} \ {None}
           items == ScenarioItems(states, Scenarios)
           Over(res) == {e \in Current : Ended(e, res)}
<1>1. \A e \in Current : e \in Begun
  BY DEF Current
<1>2. /\ delivered \subseteq ToSet(log) /\ StartsOnce(ToSet(log)) /\ IsFiniteSet(ToSet(log))
      /\ \A e \in Current : e.scen \in Scenarios /\ e.run \in Runs
  BY <1>1, LogFacts, EventFacts, FiniteLog DEF Typed, Begun
<1>3. latest = {e.run : e \in Current}
  <2>1. \A e \in Current : e.run # None
    BY <1>2, DashboardAssumption
  <2>2. \A s : LatestRun(states, s) # None => \E e \in Current : LatestRun(states, s) = e.run
    BY LatestIs
  <2>3. \A e \in Current : LatestRun(states, e.scen) = e.run
    BY LatestIs
  <2> QED
    BY <1>2, <2>1, <2>2, <2>3
<1>4. ASSUME NEW F \in SUBSET Current
      PROVE  Cardinality({e.run : e \in F}) = Cardinality(F)
  <2>1. F \subseteq ToSet(log) /\ \A e, f \in F : e.run = f.run => e = f
    BY <1>1, <1>2 DEF StartsOnce, Begun
  <2>2. IsFiniteSet(F)
    BY <1>2, <2>1, FS_Subset
  <2> QED
    BY <2>1, <2>2, SameCount
<1>5. \A e \in Current :
        LET run == states[e.run]
        IN /\ run.result \in {None, "passed", "failed"}
           /\ \A res \in {"passed", "failed"} : run.result = res <=> Ended(e, res)
           /\ run.result # None => run.chip = run.result
           /\ run.result = None => run.chip \in {"running", "watching"}
  BY <1>1, RunIs
<1>6. None \notin {"passed", "failed"}
  BY DashboardAssumption
<1> HIDE DEF latest
<1>7. ASSUME NEW res \in {"passed", "failed"}
      PROVE  Cardinality({r \in latest : states[r].chip = res}) = Cardinality(Over(res))
  <2>1. \A e \in Current : states[e.run].chip = res <=> Ended(e, res)
    BY <1>5, <1>6
  <2>2. {r \in latest : states[r].chip = res} = {e.run : e \in Over(res)}
    BY <1>3, <2>1
  <2> QED
    BY <1>4, <2>2
<1>8. Cardinality(latest) = Cardinality(Current)
  BY <1>3, <1>4
<1>9. (latest # {} /\ \A r \in latest : states[r].result # None)
        <=> (Current # {} /\ Current = Over("passed") \cup Over("failed"))
  <2>1. \A e \in Current : states[e.run].result # None <=> e \in Over("passed") \cup Over("failed")
    BY <1>5, <1>6
  <2> QED
    BY <1>3, <2>1
<1>10. Summary(states, Scenarios) =
          [passed |-> Cardinality(Over("passed")), failed |-> Cardinality(Over("failed")),
           covered |-> Cardinality(Current),
           allSettled |-> Current # {} /\ Current = Over("passed") \cup Over("failed")]
  BY <1>7, <1>8, <1>9 DEF Summary, latest
<1>11. ASSUME NEW e \in Current
       PROVE  LET verdicts == {res \in {"passed", "failed"} : e \in Over(res)}
              IN /\ items[e.scen].ticking = (verdicts = {})
                 /\ items[e.scen].chip \in IF verdicts = {} THEN {"running", "watching"} ELSE verdicts
  <2> DEFINE verdicts == {res \in {"passed", "failed"} : e \in Over(res)}
             run == states[e.run]
  <2>1. LatestRun(states, e.scen) = e.run /\ e.run # None /\ e.scen \in Scenarios
    BY <1>2, LatestIs, DashboardAssumption
  <2>2. items[e.scen].chip = run.chip /\ items[e.scen].ticking = (run.result = None)
    BY <2>1 DEF ScenarioItems
  <2>3. /\ run.result \in {None, "passed", "failed"}
        /\ \A res \in {"passed", "failed"} : run.result = res <=> res \in verdicts
        /\ run.result # None => run.chip = run.result
        /\ run.result = None => run.chip \in {"running", "watching"}
    BY <1>5
  <2> HIDE DEF run
  <2>4. verdicts \subseteq {"passed", "failed"}
    OBVIOUS
  <2> HIDE DEF verdicts
  <2>5. run.result = None <=> verdicts = {}
    BY <1>6, <2>3, <2>4
  <2>6. run.chip \in IF verdicts = {} THEN {"running", "watching"} ELSE verdicts
    BY <2>3, <2>5
  <2> HIDE DEF items
  <2> QED
    BY <2>2, <2>5, <2>6 DEF verdicts
<1>12. ASSUME NEW s \in Scenarios, items[s].chip = "idle" PROVE \A e \in Begun : e.scen # s
  <2> SUFFICES ASSUME NEW e \in Current, e.scen = s PROVE FALSE
    BY SomeCurrent
  <2>1. items[s].chip = states[e.run].chip
    <3>1. LatestRun(states, s) = e.run /\ e.run # None
      BY <1>2, LatestIs, DashboardAssumption
    <3> QED
      BY <3>1 DEF ScenarioItems
  <2>2. states[e.run].chip \in {"passed", "failed", "running", "watching"}
    BY <1>5
  <2> QED
    BY <1>12, <2>1, <2>2
<1> DEFINE begun == {e \in delivered : e.type = "started"}
           current == {e \in begun : \A f \in begun : f.scen = e.scen => f.seq <= e.seq}
           ended(res) == {e \in current : \E f \in delivered :
                            f.run = e.run /\ f.type = "completed" /\ f.result = res}
           Shown(b, c, p, f, o(_)) ==
             /\ Summary(states, Scenarios) =
                  [passed |-> Cardinality(p), failed |-> Cardinality(f),
                   covered |-> Cardinality(c), allSettled |-> c # {} /\ c = p \cup f]
             /\ \A e \in c :
                  LET verdicts == {res \in {"passed", "failed"} : e \in o(res)}
                  IN /\ items[e.scen].ticking = (verdicts = {})
                     /\ items[e.scen].chip \in
                          IF verdicts = {} THEN {"running", "watching"} ELSE verdicts
             /\ \A s \in Scenarios : items[s].chip = "idle" => s \notin {e.scen : e \in b}
<1> HIDE DEF items
<1>13. begun = Begun /\ current = Current /\ \A res : ended(res) = Over(res)
  BY DEF Begun, Current, Ended
<1>14. SummaryCountsLatest <=> Shown(begun, current, ended("passed"), ended("failed"), ended)
  BY DEF SummaryCountsLatest, items
<1> HIDE DEF begun, current, ended, Over
<1>15. Shown(Begun, Current, Over("passed"), Over("failed"), Over)
  BY <1>10, <1>11, <1>12
<1>16. Shown(begun, current, ended("passed"), ended("failed"), ended)
  BY <1>13, <1>15
<1> QED
  BY <1>14, <1>16

(* The summary and the scenario list show, for every scenario, the run that *)
(* started last and no other, with the verdict of that run, whatever the    *)
(* order in which the events of all its runs have come (eventStore.ts,      *)
(* buildState and buildSummary; projections.ts, the scenario items).        *)
THEOREM SummaryIsOfTheLatest ==
  ASSUME NoneIsNoRun
  PROVE  Spec => []SummaryCountsLatest
<1>1. Init => Typed /\ Held
  BY HeldInit
<1>2. Typed /\ Held /\ [Next]_vars => (Typed /\ Held)'
  BY HeldStep
<1>3. Typed /\ Held => SummaryCountsLatest
  BY SummaryIs
<1> QED
  BY <1>1, <1>2, <1>3, PTL DEF Spec

-----------------------------------------------------------------------------
(* The wire log: two folds, one over the events and one over the attempts   *)
(* of an exchange.                                                          *)

WireOf(q) == FoldLeft(OnWire, NoWire, q)

WireStep(f, q, indices) ==
  [s \in SUBSET indices |->
     IF s = {} THEN NoWire ELSE OnWire(f[s \ {Max(s)}], q[Max(s)])]

(* The fold that builds the wire log exists on every stretch of events.     *)
LEMMA WireFoldExists ==
  ASSUME NEW q
  PROVE  \A n \in Nat : \E f : f = WireStep(f, q, 1..n)
<1> DEFINE Body(f, n) == WireStep(f, q, 1..n)
           Defined == {n \in Nat : \E f : f = Body(f, n)}
<1>1. 0 \in Defined
  <2> DEFINE f == [s \in SUBSET (1..0) |-> NoWire]
  <2>1. \A s \in SUBSET (1..0) : s = {}
    OBVIOUS
  <2>2. f = Body(f, 0)
    BY <2>1 DEF WireStep
  <2> HIDE DEF f
  <2> QED
    BY <2>2
<1>2. ASSUME NEW n \in Nat, n \in Defined PROVE n + 1 \in Defined
  <2>1. PICK f : f = Body(f, n)
    BY <1>2
  <2> DEFINE g == [s \in SUBSET (1..(n + 1)) |->
                     IF n + 1 \in s THEN OnWire(f[s \ {n + 1}], q[n + 1]) ELSE f[s]]
  <2>2. ASSUME NEW s \in SUBSET (1..(n + 1))
        PROVE  g[s] = IF s = {} THEN NoWire ELSE OnWire(g[s \ {Max(s)}], q[Max(s)])
    <3>1. CASE n + 1 \in s
      <4>1. Max(s) \in s /\ \A x \in s : x <= Max(s)
        <5>1. n + 1 \in Nat /\ s \in SUBSET (0..(n + 1)) /\ s # {}
          BY <3>1
        <5> QED
          BY ONLY <5>1, MaxIs
      <4>2. Max(s) = n + 1
        <5>1. Max(s) \in 1..(n + 1) /\ n + 1 <= Max(s)
          BY <4>1, <3>1
        <5> QED
          BY ONLY <5>1, n \in Nat
      <4>3. s \ {n + 1} \in SUBSET (1..(n + 1)) /\ n + 1 \notin s \ {n + 1}
        OBVIOUS
      <4>4. g[s \ {n + 1}] = f[s \ {n + 1}]
        BY <4>3
      <4> QED
        BY <3>1, <4>2, <4>4
    <3>2. CASE n + 1 \notin s /\ s # {}
      <4>1. s \in SUBSET (1..n)
        BY <3>2
      <4>2. Max(s) \in s
        <5>1. s \in SUBSET (0..n)
          BY <4>1
        <5> QED
          BY ONLY <5>1, <3>2, n \in Nat, MaxIs
      <4>3. g[s] = f[s] /\ g[s \ {Max(s)}] = f[s \ {Max(s)}]
        BY <3>2
      <4>4. f[s] = OnWire(f[s \ {Max(s)}], q[Max(s)])
        BY <2>1, <4>1, <3>2 DEF WireStep
      <4> QED
        BY <4>3, <4>4, <3>2
    <3>3. CASE s = {}
      <4>1. s \in SUBSET (1..n) /\ n + 1 \notin s
        BY <3>3
      <4>2. f[s] = NoWire
        BY <2>1, <4>1, <3>3 DEF WireStep
      <4> QED
        BY <4>1, <4>2, <3>3
    <3> QED
      BY <3>1, <3>2, <3>3
  <2>3. g = [s \in SUBSET (1..(n + 1)) |-> g[s]]
    OBVIOUS
  <2> HIDE DEF g
  <2>4. g = Body(g, n + 1)
    BY <2>2, <2>3 DEF WireStep
  <2> QED
    BY <2>4
<1> HIDE DEF Defined
<1>3. Nat \subseteq Defined
  BY <1>1, <1>2, NatSet
<1> QED
  BY <1>3 DEF Defined

(* Folding is taking in the events one by one.                              *)
LEMMA WireFold ==
  ASSUME NEW A, NEW q \in Seq(A)
  PROVE  \E h : /\ h[0] = NoWire
                /\ \A i \in 1..Len(q) : h[i] = OnWire(h[i - 1], q[i])
                /\ WireOf(q) = h[Len(q)]
<1> DEFINE Body(f) == WireStep(f, q, DOMAIN q)
           iter == CHOOSE f : f = Body(f)
           h == [i \in 0..Len(q) |-> iter[1..i]]
<1>1. DOMAIN q = 1..Len(q) /\ Len(q) \in Nat
  OBVIOUS
<1>2. \E f : f = Body(f)
  <2>1. \A n \in Nat : \E f : f = WireStep(f, q, 1..n)
    BY WireFoldExists
  <2> QED
    BY <2>1, <1>1
<1>3. iter = Body(iter)
  BY <1>2
<1>4. WireOf(q) = iter[DOMAIN q]
  BY DEF WireOf, FoldLeft, MapThenFoldSet, WireStep
<1> HIDE DEF iter
<1>5. h[0] = NoWire
  BY <1>1, <1>3, 1..0 = {} DEF WireStep
<1>6. ASSUME NEW i \in 1..Len(q) PROVE h[i] = OnWire(h[i - 1], q[i])
  <2> DEFINE s == 1..i
  <2>1. s # {} /\ s \in SUBSET (0..i) /\ i \in Nat /\ i \in s
    <3>1. i \in Nat /\ i >= 1
      BY <1>1
    <3>2. i \in s
      BY <3>1
    <3>3. s \in SUBSET (0..i)
      BY <3>1
    <3> QED
      BY <3>1, <3>2, <3>3
  <2>2. Max(s) \in s /\ \A x \in s : x <= Max(s)
    <3> HIDE DEF s
    <3> QED
      BY ONLY <2>1, MaxIs
  <2>3. Max(s) = i
    BY <2>1, <2>2
  <2>4. s \ {i} = 1..(i - 1) /\ s \in SUBSET DOMAIN q
    BY <1>1
  <2>5. iter[s] = OnWire(iter[s \ {Max(s)}], q[Max(s)])
    <3> HIDE DEF s
    <3> QED
      BY <1>3, <2>1, <2>4 DEF WireStep
  <2>6. h[i] = iter[s] /\ h[i - 1] = iter[1..(i - 1)]
    BY <1>1
  <2> QED
    BY <2>3, <2>4, <2>5, <2>6
<1>7. h[Len(q)] = iter[DOMAIN q]
  BY <1>1
<1> HIDE DEF h
<1> QED
  BY <1>4, <1>5, <1>6, <1>7

RetryStep(f, q, indices) ==
  [s \in SUBSET indices |->
     IF s = {} THEN <<>> ELSE OnRetry(f[s \ {Max(s)}], q[Max(s)])]

(* The fold that lists the retries exists on every stretch of attempts.     *)
LEMMA RetryFoldExists ==
  ASSUME NEW q
  PROVE  \A n \in Nat : \E f : f = RetryStep(f, q, 1..n)
<1> DEFINE Body(f, n) == RetryStep(f, q, 1..n)
           Defined == {n \in Nat : \E f : f = Body(f, n)}
<1>1. 0 \in Defined
  <2> DEFINE f == [s \in SUBSET (1..0) |-> <<>>]
  <2>1. \A s \in SUBSET (1..0) : s = {}
    OBVIOUS
  <2>2. f = Body(f, 0)
    BY <2>1 DEF RetryStep
  <2> HIDE DEF f
  <2> QED
    BY <2>2
<1>2. ASSUME NEW n \in Nat, n \in Defined PROVE n + 1 \in Defined
  <2>1. PICK f : f = Body(f, n)
    BY <1>2
  <2> DEFINE g == [s \in SUBSET (1..(n + 1)) |->
                     IF n + 1 \in s THEN OnRetry(f[s \ {n + 1}], q[n + 1]) ELSE f[s]]
  <2>2. ASSUME NEW s \in SUBSET (1..(n + 1))
        PROVE  g[s] = IF s = {} THEN <<>> ELSE OnRetry(g[s \ {Max(s)}], q[Max(s)])
    <3>1. CASE n + 1 \in s
      <4>1. Max(s) \in s /\ \A x \in s : x <= Max(s)
        <5>1. n + 1 \in Nat /\ s \in SUBSET (0..(n + 1)) /\ s # {}
          BY <3>1
        <5> QED
          BY ONLY <5>1, MaxIs
      <4>2. Max(s) = n + 1
        <5>1. Max(s) \in 1..(n + 1) /\ n + 1 <= Max(s)
          BY <4>1, <3>1
        <5> QED
          BY ONLY <5>1, n \in Nat
      <4>3. s \ {n + 1} \in SUBSET (1..(n + 1)) /\ n + 1 \notin s \ {n + 1}
        OBVIOUS
      <4>4. g[s \ {n + 1}] = f[s \ {n + 1}]
        BY <4>3
      <4> QED
        BY <3>1, <4>2, <4>4
    <3>2. CASE n + 1 \notin s /\ s # {}
      <4>1. s \in SUBSET (1..n)
        BY <3>2
      <4>2. Max(s) \in s
        <5>1. s \in SUBSET (0..n)
          BY <4>1
        <5> QED
          BY ONLY <5>1, <3>2, n \in Nat, MaxIs
      <4>3. g[s] = f[s] /\ g[s \ {Max(s)}] = f[s \ {Max(s)}]
        BY <3>2
      <4>4. f[s] = OnRetry(f[s \ {Max(s)}], q[Max(s)])
        BY <2>1, <4>1, <3>2 DEF RetryStep
      <4> QED
        BY <4>3, <4>4, <3>2
    <3>3. CASE s = {}
      <4>1. s \in SUBSET (1..n) /\ n + 1 \notin s
        BY <3>3
      <4>2. f[s] = <<>>
        BY <2>1, <4>1, <3>3 DEF RetryStep
      <4> QED
        BY <4>1, <4>2, <3>3
    <3> QED
      BY <3>1, <3>2, <3>3
  <2>3. g = [s \in SUBSET (1..(n + 1)) |-> g[s]]
    OBVIOUS
  <2> HIDE DEF g
  <2>4. g = Body(g, n + 1)
    BY <2>2, <2>3 DEF RetryStep
  <2> QED
    BY <2>4
<1> HIDE DEF Defined
<1>3. Nat \subseteq Defined
  BY <1>1, <1>2, NatSet
<1> QED
  BY <1>3 DEF Defined

(* Folding is listing the retries one by one.                               *)
LEMMA RetryFold ==
  ASSUME NEW A, NEW q \in Seq(A)
  PROVE  \E h : /\ h[0] = <<>>
                /\ \A i \in 1..Len(q) : h[i] = OnRetry(h[i - 1], q[i])
                /\ Retries(q) = h[Len(q)]
<1> DEFINE Body(f) == RetryStep(f, q, DOMAIN q)
           iter == CHOOSE f : f = Body(f)
           h == [i \in 0..Len(q) |-> iter[1..i]]
<1>1. DOMAIN q = 1..Len(q) /\ Len(q) \in Nat
  OBVIOUS
<1>2. \E f : f = Body(f)
  <2>1. \A n \in Nat : \E f : f = RetryStep(f, q, 1..n)
    BY RetryFoldExists
  <2> QED
    BY <2>1, <1>1
<1>3. iter = Body(iter)
  BY <1>2
<1>4. Retries(q) = iter[DOMAIN q]
  BY DEF Retries, FoldLeft, MapThenFoldSet, RetryStep
<1> HIDE DEF iter
<1>5. h[0] = <<>>
  BY <1>1, <1>3, 1..0 = {} DEF RetryStep
<1>6. ASSUME NEW i \in 1..Len(q) PROVE h[i] = OnRetry(h[i - 1], q[i])
  <2> DEFINE s == 1..i
  <2>1. s # {} /\ s \in SUBSET (0..i) /\ i \in Nat /\ i \in s
    <3>1. i \in Nat /\ i >= 1
      BY <1>1
    <3>2. i \in s
      BY <3>1
    <3>3. s \in SUBSET (0..i)
      BY <3>1
    <3> QED
      BY <3>1, <3>2, <3>3
  <2>2. Max(s) \in s /\ \A x \in s : x <= Max(s)
    <3> HIDE DEF s
    <3> QED
      BY ONLY <2>1, MaxIs
  <2>3. Max(s) = i
    BY <2>1, <2>2
  <2>4. s \ {i} = 1..(i - 1) /\ s \in SUBSET DOMAIN q
    BY <1>1
  <2>5. iter[s] = OnRetry(iter[s \ {Max(s)}], q[Max(s)])
    <3> HIDE DEF s
    <3> QED
      BY <1>3, <2>1, <2>4 DEF RetryStep
  <2>6. h[i] = iter[s] /\ h[i - 1] = iter[1..(i - 1)]
    BY <1>1
  <2> QED
    BY <2>3, <2>4, <2>5, <2>6
<1>7. h[Len(q)] = iter[DOMAIN q]
  BY <1>1
<1> HIDE DEF h
<1> QED
  BY <1>4, <1>5, <1>6, <1>7

-----------------------------------------------------------------------------
(* The entries of the wire log.                                             *)

Sent(U) == {e \in U : e.type = "exchange"}

Backoffs(U) == {e \in U : e.type = "retry"}

Delays(S) == {None} \cup {b.delay : b \in Backoffs(S)}

Line(e, d) == [seq |-> e.seq, attempt |-> e.attempt, status |-> e.status, backoff |-> d]

Lines(S) == {Line(e, d) : e \in Sent(S), d \in Delays(S)}

Entry(S) == [endpoint : {e.endpoint : e \in Sent(S)}, attempts : Seq(Lines(S))]

(* Line j of an entry is of event e.                                        *)
Of(e, entry, j) ==
  /\ e.endpoint = entry.endpoint /\ e.seq = entry.attempts[j].seq
  /\ e.attempt = entry.attempts[j].attempt /\ e.status = entry.attempts[j].status

(* Every line is of an exchange that has arrived, and every exchange that   *)
(* has arrived has a line.                                                  *)
Filed(U, entries) ==
  /\ \A k \in 1..Len(entries) :
       /\ entries[k].attempts # <<>>
       /\ \A j \in 1..Len(entries[k].attempts) : \E e \in Sent(U) : Of(e, entries[k], j)
  /\ \A e \in Sent(U) :
       \E k \in 1..Len(entries) : \E j \in 1..Len(entries[k].attempts) : Of(e, entries[k], j)

(* Lines are in order within an entry, and entries of an endpoint do not    *)
(* overlap.                                                                 *)
InTurn(entries) ==
  /\ \A k \in 1..Len(entries) : \A i, j \in 1..Len(entries[k].attempts) :
       i < j => entries[k].attempts[i].seq < entries[k].attempts[j].seq
  /\ \A k, l \in 1..Len(entries) : \A j \in 1..Len(entries[k].attempts) :
       k < l /\ entries[k].endpoint = entries[l].endpoint =>
         entries[k].attempts[j].seq < entries[l].attempts[1].seq

(* A line below another is a retry; a retry that heads an entry is the first *)
(* that has arrived of its endpoint.                                         *)
Headed(entries) ==
  /\ \A k \in 1..Len(entries) : \A j \in 1..Len(entries[k].attempts) :
       j > 1 => entries[k].attempts[j].attempt # 1
  /\ \A k, l \in 1..Len(entries) :
       l < k /\ entries[k].attempts[1].attempt # 1 => entries[l].endpoint # entries[k].endpoint

Wired(S, U, entries) ==
  entries \in Seq(Entry(S)) /\ Filed(U, entries) /\ InTurn(entries) /\ Headed(entries)

(* What adding an attempt does: it opens an entry or joins the last one of  *)
(* its endpoint.                                                            *)
Opens(entries, e, line, new) ==
  /\ new = Append(entries, [endpoint |-> e.endpoint, attempts |-> <<line>>])
  /\ e.attempt # 1 => \A l \in 1..Len(entries) : entries[l].endpoint # e.endpoint

Joins(entries, e, line, new, k) ==
  /\ new = [entries EXCEPT ![k].attempts = Append(@, line)]
  /\ e.attempt # 1 /\ entries[k].endpoint = e.endpoint
  /\ \A l \in 1..Len(entries) : l > k => entries[l].endpoint # e.endpoint

(* TargetOf finds the last entry of the endpoint.                           *)
LEMMA Added ==
  ASSUME NEW A, NEW entries \in Seq(A), NEW e, NEW line
  PROVE  LET new == AddAttempt(entries, e, line)
         IN \/ Opens(entries, e, line, new)
            \/ \E k \in 1..Len(entries) : Joins(entries, e, line, new, k)
<1> DEFINE those == {i \in 1..Len(entries) : entries[i].endpoint = e.endpoint}
           last == SelectLastInSeq(entries, LAMBDA x : x.endpoint = e.endpoint)
           target == TargetOf(entries, e)
           new == AddAttempt(entries, e, line)
<1>1. Len(entries) \in Nat
  OBVIOUS
<1>2. last = IF those # {} THEN Max(those) ELSE 0
  BY DEF SelectLastInSeq
<1>3. target = IF e.attempt = 1 THEN 0 ELSE last
  BY DEF TargetOf
<1>4. new = IF target = 0
            THEN Append(entries, [endpoint |-> e.endpoint, attempts |-> <<line>>])
            ELSE [entries EXCEPT ![target].attempts = Append(@, line)]
  BY DEF AddAttempt
<1> HIDE DEF last, target, new
<1>5. CASE e.attempt = 1 \/ those = {}
  <2>1. target = 0 /\ (e.attempt # 1 => those = {})
    BY <1>2, <1>3, <1>5
  <2>2. Opens(entries, e, line, new)
    BY <1>4, <2>1 DEF Opens
  <2> QED
    BY <2>2 DEF new
<1>6. CASE e.attempt # 1 /\ those # {}
  <2>1. those \in SUBSET (0..Len(entries)) /\ those # {} /\ Len(entries) \in Nat
    BY <1>1, <1>6
  <2>2. Max(those) \in those /\ \A x \in those : x <= Max(those)
    <3> HIDE DEF those
    <3> QED
      BY ONLY <2>1, MaxIs
  <2>3. target = Max(those) /\ target \in 1..Len(entries) /\ target # 0
    BY <1>1, <1>2, <1>3, <1>6, <2>2
  <2>4. entries[target].endpoint = e.endpoint
    BY <2>2, <2>3
  <2>5. ASSUME NEW l \in 1..Len(entries), l > target PROVE entries[l].endpoint # e.endpoint
    BY <2>2, <2>3, <2>5
  <2>6. Joins(entries, e, line, new, target)
    BY <1>4, <1>6, <2>3, <2>4, <2>5 DEF Joins
  <2> QED
    BY <2>3, <2>6 DEF new
<1> QED
  BY <1>5, <1>6

(* An entry that is opened, place by place.                                 *)
LEMMA OpensAt ==
  ASSUME NEW S, NEW entries \in Seq(Entry(S)), NEW e \in Sent(S), NEW d \in Delays(S), NEW new,
         Opens(entries, e, Line(e, d), new)
  PROVE  LET n == Len(entries) + 1
         IN /\ new \in Seq(Entry(S)) /\ Len(new) = n /\ n \in Nat
            /\ \A k \in 1..Len(entries) : new[k] = entries[k]
            /\ new[n].endpoint = e.endpoint /\ new[n].attempts = <<Line(e, d)>>
            /\ Len(new[n].attempts) = 1 /\ new[n].attempts[1] = Line(e, d)
<1> DEFINE x == [endpoint |-> e.endpoint, attempts |-> <<Line(e, d)>>]
<1>1. Line(e, d) \in Lines(S)
  BY DEF Lines
<1>2. <<Line(e, d)>> \in Seq(Lines(S))
  BY <1>1
<1>3. x \in Entry(S)
  BY <1>2 DEF Entry
<1>4. new = Append(entries, x)
  BY DEF Opens
<1>5. x.endpoint = e.endpoint /\ x.attempts = <<Line(e, d)>>
  OBVIOUS
<1>6. Len(x.attempts) = 1 /\ x.attempts[1] = Line(e, d)
  BY <1>5
<1> HIDE DEF x
<1>7. /\ new \in Seq(Entry(S)) /\ Len(new) = Len(entries) + 1 /\ Len(entries) + 1 \in Nat
      /\ \A k \in 1..Len(entries) : new[k] = entries[k]
      /\ new[Len(entries) + 1] = x
  BY <1>3, <1>4
<1> QED
  BY <1>5, <1>6, <1>7

(* An entry that is joined, place by place.                                 *)
LEMMA JoinsAt ==
  ASSUME NEW S, NEW entries \in Seq(Entry(S)), NEW e \in Sent(S), NEW d \in Delays(S), NEW new,
         NEW k \in 1..Len(entries), Joins(entries, e, Line(e, d), new, k)
  PROVE  LET n == Len(entries[k].attempts) + 1
         IN /\ new \in Seq(Entry(S)) /\ Len(new) = Len(entries) /\ n \in Nat
            /\ \A l \in 1..Len(entries) : l # k => new[l] = entries[l]
            /\ new[k].endpoint = entries[k].endpoint
            /\ Len(new[k].attempts) = n /\ new[k].attempts[n] = Line(e, d)
            /\ \A j \in 1..Len(entries[k].attempts) :
                 new[k].attempts[j] = entries[k].attempts[j]
<1> DEFINE was == entries[k].attempts
           now == Append(was, Line(e, d))
           x == [entries[k] EXCEPT !.attempts = now]
<1>1. Line(e, d) \in Lines(S)
  BY DEF Lines
<1>2. entries[k] \in Entry(S)
  OBVIOUS
<1>3. was \in Seq(Lines(S))
  BY <1>2 DEF Entry
<1> HIDE DEF was
<1>4. /\ now \in Seq(Lines(S)) /\ Len(now) = Len(was) + 1 /\ Len(was) \in Nat
      /\ now[Len(was) + 1] = Line(e, d)
      /\ \A j \in 1..Len(was) : now[j] = was[j]
  BY <1>1, <1>3
<1> HIDE DEF now
<1>5. x \in Entry(S) /\ x.endpoint = entries[k].endpoint /\ x.attempts = now
  BY <1>2, <1>4 DEF Entry
<1>6. new = [entries EXCEPT ![k] = x]
  BY DEF Joins, now, was
<1> HIDE DEF x
<1>7. /\ new \in Seq(Entry(S)) /\ Len(new) = Len(entries) /\ new[k] = x
      /\ \A l \in 1..Len(entries) : l # k => new[l] = entries[l]
  BY <1>5, <1>6
<1> QED
  BY <1>4, <1>5, <1>7 DEF was

(* An exchange that opens an entry.                                         *)
LEMMA OpensWired ==
  ASSUME NEW S, NEW U \in SUBSET S, NEW entries, Wired(S, U, entries),
         NEW e \in Sent(S), NEW d \in Delays(S), NEW new, Opens(entries, e, Line(e, d), new),
         \A x \in U : x.seq < e.seq
  PROVE  Wired(S, U \cup {e}, new)
<1> DEFINE L == Len(entries)
           n == Len(entries) + 1
           V == U \cup {e}
<1>1. entries \in Seq(Entry(S)) /\ L \in Nat
  BY DEF Wired
<1>2. /\ new \in Seq(Entry(S)) /\ Len(new) = n /\ n \in Nat
      /\ \A k \in 1..L : new[k] = entries[k]
      /\ new[n].endpoint = e.endpoint /\ new[n].attempts = <<Line(e, d)>>
      /\ Len(new[n].attempts) = 1 /\ new[n].attempts[1] = Line(e, d)
  BY <1>1, OpensAt
<1>3. /\ Line(e, d).seq = e.seq /\ Line(e, d).attempt = e.attempt
      /\ Line(e, d).status = e.status
  BY DEF Line
<1>4. Of(e, new[n], 1)
  BY <1>2, <1>3 DEF Of
<1>5. e \in Sent(V) /\ Sent(U) \subseteq Sent(V) /\ \A x \in Sent(V) : x \in Sent(U) \/ x = e
  BY DEF Sent
<1>6. \A k \in 1..n : k \in 1..L \/ k = n
  BY <1>1
<1>7. 1..L \subseteq 1..n /\ n \in 1..n /\ \A k \in 1..L : k < n
  BY <1>1
<1>8. Filed(V, new)
  <2>1. ASSUME NEW k \in 1..n
        PROVE  /\ new[k].attempts # <<>>
               /\ \A j \in 1..Len(new[k].attempts) : \E x \in Sent(V) : Of(x, new[k], j)
    <3>1. CASE k \in 1..L
      BY <3>1, <1>2, <1>5 DEF Wired, Filed
    <3>2. CASE k = n
      <4>1. \A j \in 1..1 : j = 1
        OBVIOUS
      <4> QED
        BY <3>2, <4>1, <1>2, <1>4, <1>5
    <3> QED
      BY <3>1, <3>2, <1>6
  <2>2. ASSUME NEW x \in Sent(V)
        PROVE  \E k \in 1..n : \E j \in 1..Len(new[k].attempts) : Of(x, new[k], j)
    <3>1. CASE x \in Sent(U)
      <4>1. PICK k \in 1..L : \E j \in 1..Len(entries[k].attempts) : Of(x, entries[k], j)
        BY <3>1 DEF Wired, Filed
      <4> QED
        BY <4>1, <1>2, <1>7
    <3>2. CASE x = e
      <4>1. 1 \in 1..Len(new[n].attempts)
        BY <1>2
      <4> QED
        BY <3>2, <4>1, <1>4, <1>7
    <3> QED
      BY <3>1, <3>2, <1>5
  <2> QED
    BY <2>1, <2>2, <1>2 DEF Filed
<1>9. InTurn(new)
  <2>1. ASSUME NEW k \in 1..n, NEW i \in 1..Len(new[k].attempts), NEW j \in 1..Len(new[k].attempts),
               i < j
        PROVE  new[k].attempts[i].seq < new[k].attempts[j].seq
    <3>1. CASE k \in 1..L
      BY <2>1, <3>1, <1>2 DEF Wired, InTurn
    <3>2. CASE k = n
      <4>1. i \in 1..1 /\ j \in 1..1
        BY <3>2, <1>2
      <4> QED
        BY <4>1, <2>1
    <3> QED
      BY <3>1, <3>2, <1>6
  <2>2. ASSUME NEW k \in 1..n, NEW l \in 1..n, NEW j \in 1..Len(new[k].attempts),
               k < l, new[k].endpoint = new[l].endpoint
        PROVE  new[k].attempts[j].seq < new[l].attempts[1].seq
    <3>1. k \in 1..L
      BY <1>1, <2>2
    <3>2. CASE l \in 1..L
      BY <2>2, <3>1, <3>2, <1>2 DEF Wired, InTurn
    <3>3. CASE l = n
      <4>1. PICK x \in Sent(U) : Of(x, entries[k], j)
        BY <3>1, <2>2, <1>2 DEF Wired, Filed
      <4>2. x.seq < e.seq /\ x.seq = entries[k].attempts[j].seq
        BY <4>1 DEF Sent, Of
      <4> QED
        BY <3>1, <3>3, <4>2, <1>2, <1>3
    <3> QED
      BY <3>2, <3>3, <1>6
  <2> QED
    BY <2>1, <2>2, <1>2 DEF InTurn
<1>10. Headed(new)
  <2>1. ASSUME NEW k \in 1..n, NEW j \in 1..Len(new[k].attempts), j > 1
        PROVE  new[k].attempts[j].attempt # 1
    <3>1. CASE k \in 1..L
      BY <2>1, <3>1, <1>2 DEF Wired, Headed
    <3>2. CASE k = n
      <4>1. j \in 1..1
        BY <3>2, <1>2
      <4> QED
        BY <4>1, <2>1
    <3> QED
      BY <3>1, <3>2, <1>6
  <2>2. ASSUME NEW k \in 1..n, NEW l \in 1..n, l < k, new[k].attempts[1].attempt # 1
        PROVE  new[l].endpoint # new[k].endpoint
    <3>1. l \in 1..L
      BY <1>1, <2>2
    <3>2. CASE k \in 1..L
      BY <2>2, <3>1, <3>2, <1>2 DEF Wired, Headed
    <3>3. CASE k = n
      BY <2>2, <3>1, <3>3, <1>2, <1>3 DEF Opens
    <3> QED
      BY <3>2, <3>3, <1>6
  <2> QED
    BY <2>1, <2>2, <1>2 DEF Headed
<1> QED
  BY <1>2, <1>8, <1>9, <1>10 DEF Wired

(* A retry that joins the last entry of its endpoint.                       *)
LEMMA JoinsWired ==
  ASSUME NEW S, NEW U \in SUBSET S, NEW entries, Wired(S, U, entries),
         NEW e \in Sent(S), NEW d \in Delays(S), NEW new, NEW k \in 1..Len(entries),
         Joins(entries, e, Line(e, d), new, k), \A x \in U : x.seq < e.seq
  PROVE  Wired(S, U \cup {e}, new)
<1> DEFINE L == Len(entries)
           was == entries[k].attempts
           n == Len(was) + 1
           V == U \cup {e}
<1>1. entries \in Seq(Entry(S)) /\ L \in Nat
  BY DEF Wired
<1>2. /\ new \in Seq(Entry(S)) /\ Len(new) = L /\ n \in Nat
      /\ \A l \in 1..L : l # k => new[l] = entries[l]
      /\ new[k].endpoint = entries[k].endpoint
      /\ Len(new[k].attempts) = n /\ new[k].attempts[n] = Line(e, d)
      /\ \A j \in 1..Len(was) : new[k].attempts[j] = was[j]
  BY <1>1, JoinsAt
<1>3. /\ Line(e, d).seq = e.seq /\ Line(e, d).attempt = e.attempt
      /\ Line(e, d).status = e.status
  BY DEF Line
<1>4. /\ e.attempt # 1 /\ entries[k].endpoint = e.endpoint
      /\ \A l \in 1..L : l > k => entries[l].endpoint # e.endpoint
  BY DEF Joins
<1>5. e \in Sent(V) /\ Sent(U) \subseteq Sent(V) /\ \A x \in Sent(V) : x \in Sent(U) \/ x = e
  BY DEF Sent
<1>6. Len(was) \in Nat /\ Len(was) # 0
  <2>1. entries[k] \in Entry(S)
    BY <1>1
  <2>2. was \in Seq(Lines(S)) /\ was # <<>>
    BY <2>1 DEF Entry, Wired, Filed
  <2> HIDE DEF was
  <2> QED
    BY <2>2
<1>7. /\ 1 \in 1..Len(was) /\ n \in 1..n /\ 1..Len(was) \subseteq 1..n
      /\ \A j \in 1..n : j \in 1..Len(was) \/ j = n
      /\ \A j \in 1..Len(was) : j < n
  BY <1>6
<1>8. \A l \in 1..L : /\ new[l].endpoint = entries[l].endpoint
                      /\ new[l].attempts[1] = entries[l].attempts[1]
  BY <1>2, <1>7
<1>9. Of(e, new[k], n)
  BY <1>2, <1>3, <1>4 DEF Of
<1>10. \A l \in 1..L : \A j \in 1..Len(entries[l].attempts) :
         j \in 1..Len(new[l].attempts) /\ new[l].attempts[j] = entries[l].attempts[j]
  BY <1>2, <1>7
<1>11. \A l \in 1..L : \A j \in 1..Len(new[l].attempts) :
         j \in 1..Len(entries[l].attempts) \/ (l = k /\ j = n)
  BY <1>2, <1>7
<1>12. \A l \in 1..L : \A j \in 1..Len(entries[l].attempts) :
         entries[l].attempts[j].seq < e.seq
  <2> SUFFICES ASSUME NEW l \in 1..L, NEW j \in 1..Len(entries[l].attempts)
               PROVE  entries[l].attempts[j].seq < e.seq
    OBVIOUS
  <2>1. PICK x \in Sent(U) : Of(x, entries[l], j)
    BY DEF Wired, Filed
  <2> QED
    BY <2>1 DEF Sent, Of
<1> HIDE DEF was, n
<1>13. Filed(V, new)
  <2>1. ASSUME NEW l \in 1..L
        PROVE  /\ new[l].attempts # <<>>
               /\ \A j \in 1..Len(new[l].attempts) : \E x \in Sent(V) : Of(x, new[l], j)
    <3>1. new[l].attempts # <<>>
      <4>1. CASE l = k
        <5>1. Len(new[k].attempts) # 0
          BY <1>2, <1>6 DEF n
        <5> QED
          BY <4>1, <5>1
      <4>2. CASE l # k
        BY <4>2, <1>2 DEF Wired, Filed
      <4> QED
        BY <4>1, <4>2
    <3>2. ASSUME NEW j \in 1..Len(new[l].attempts) PROVE \E x \in Sent(V) : Of(x, new[l], j)
      <4>1. CASE j \in 1..Len(entries[l].attempts)
        <5>1. PICK x \in Sent(U) : Of(x, entries[l], j)
          BY <4>1 DEF Wired, Filed
        <5>2. Of(x, new[l], j)
          BY <5>1, <4>1, <1>8, <1>10 DEF Of
        <5> QED
          BY <5>2, <1>5
      <4>2. CASE l = k /\ j = n
        BY <4>2, <1>5, <1>9
      <4> QED
        BY <4>1, <4>2, <1>11
    <3> QED
      BY <3>1, <3>2
  <2>2. ASSUME NEW x \in Sent(V)
        PROVE  \E l \in 1..L : \E j \in 1..Len(new[l].attempts) : Of(x, new[l], j)
    <3>1. CASE x \in Sent(U)
      <4>1. PICK l \in 1..L : \E j \in 1..Len(entries[l].attempts) : Of(x, entries[l], j)
        BY <3>1 DEF Wired, Filed
      <4>2. PICK j \in 1..Len(entries[l].attempts) : Of(x, entries[l], j)
        BY <4>1
      <4>3. Of(x, new[l], j)
        BY <4>2, <1>8, <1>10 DEF Of
      <4> QED
        BY <4>3, <1>10
    <3>2. CASE x = e
      BY <3>2, <1>9, <1>2, <1>7
    <3> QED
      BY <3>1, <3>2, <1>5
  <2> QED
    BY <2>1, <2>2, <1>2 DEF Filed
<1>14. InTurn(new)
  <2>1. ASSUME NEW l \in 1..L, NEW i \in 1..Len(new[l].attempts), NEW j \in 1..Len(new[l].attempts),
               i < j
        PROVE  new[l].attempts[i].seq < new[l].attempts[j].seq
    <3>1. CASE j \in 1..Len(entries[l].attempts)
      <4>1. i \in 1..Len(entries[l].attempts)
        <5>1. CASE l = k /\ i = n
          BY <5>1, <3>1, <2>1, <1>6 DEF n, was
        <5> QED
          BY <5>1, <1>11
      <4> QED
        BY <2>1, <3>1, <4>1, <1>10 DEF Wired, InTurn
    <3>2. CASE l = k /\ j = n
      <4>1. i \in 1..Len(entries[l].attempts)
        BY <2>1, <3>2, <1>11
      <4> QED
        BY <3>2, <4>1, <1>2, <1>3, <1>10, <1>12
    <3> QED
      BY <3>1, <3>2, <1>11
  <2>2. ASSUME NEW l \in 1..L, NEW m \in 1..L, NEW j \in 1..Len(new[l].attempts),
               l < m, new[l].endpoint = new[m].endpoint
        PROVE  new[l].attempts[j].seq < new[m].attempts[1].seq
    <3>1. j \in 1..Len(entries[l].attempts)
      BY <2>2, <1>4, <1>8, <1>11
    <3> QED
      BY <2>2, <3>1, <1>8, <1>10 DEF Wired, InTurn
  <2> QED
    BY <2>1, <2>2, <1>2 DEF InTurn
<1>15. Headed(new)
  <2>1. ASSUME NEW l \in 1..L, NEW j \in 1..Len(new[l].attempts), j > 1
        PROVE  new[l].attempts[j].attempt # 1
    <3>1. CASE j \in 1..Len(entries[l].attempts)
      BY <2>1, <3>1, <1>10 DEF Wired, Headed
    <3>2. CASE l = k /\ j = n
      BY <3>2, <1>2, <1>3, <1>4
    <3> QED
      BY <3>1, <3>2, <1>11
  <2>2. ASSUME NEW l \in 1..L, NEW m \in 1..L, m < l, new[l].attempts[1].attempt # 1
        PROVE  new[m].endpoint # new[l].endpoint
    BY <2>2, <1>8 DEF Wired, Headed
  <2> QED
    BY <2>1, <2>2, <1>2 DEF Headed
<1> QED
  BY <1>2, <1>13, <1>14, <1>15 DEF Wired

-----------------------------------------------------------------------------
(* The backoffs.                                                            *)

(* Backoff b is the one line j of an entry shows.                           *)
Explains(b, entry, j) ==
  /\ b.endpoint \in {entry.endpoint, "?"}
  /\ b.seq < entry.attempts[j].seq /\ b.attempt = entry.attempts[j].attempt
  /\ b.delay = entry.attempts[j].backoff

(* due: the backoff behind each one that is pending.                        *)
Due(U, pending, due) ==
  /\ due \in [DOMAIN pending -> Backoffs(U)]
  /\ \A key \in DOMAIN pending :
       key = <<due[key].endpoint, due[key].attempt>> /\ due[key].delay = pending[key]

(* took: the backoffs behind the lines, by their seq, never one twice and   *)
(* none that is still pending.                                              *)
Took(U, entries, due, took) ==
  /\ DOMAIN took \subseteq {x.seq : x \in Sent(U)}
  /\ \A n \in DOMAIN took : took[n] \in Backoffs(U)
  /\ \A n, m \in DOMAIN took : took[n] = took[m] => n = m
  /\ \A n \in DOMAIN took : \A key \in DOMAIN due : took[n] # due[key]
  /\ \A k \in 1..Len(entries) : \A j \in 1..Len(entries[k].attempts) :
       entries[k].attempts[j].backoff # None =>
         /\ entries[k].attempts[j].seq \in DOMAIN took
         /\ Explains(took[entries[k].attempts[j].seq], entries[k], j)

Backed(U, entries, pending) ==
  \E due, took : Due(U, pending, due) /\ Took(U, entries, due, took)

(* A backoff that is scheduled is pending; it may replace another one.      *)
LEMMA Scheduled ==
  ASSUME NEW S, NEW U \in SUBSET S, NEW entries, NEW pending, Backed(U, entries, pending),
         NEW e \in Backoffs(S), \A x \in U : x.seq < e.seq, \A x \in S : x.seq \in Nat
  PROVE  Backed(U \cup {e}, entries, NoteBackoff(pending, e))
<1> DEFINE V == U \cup {e}
           new == <<e.endpoint, e.attempt>>
           noted == NoteBackoff(pending, e)
<1>1. PICK due, took : Due(U, pending, due) /\ Took(U, entries, due, took)
  BY DEF Backed
<1> DEFINE next == [k \in DOMAIN pending \cup {new} |-> IF k = new THEN e ELSE due[k]]
<1>2. noted = [k \in DOMAIN pending \cup {new} |-> IF k = new THEN e.delay ELSE pending[k]]
  BY DEF NoteBackoff
<1>3. e \in Backoffs(V) /\ Backoffs(U) \subseteq Backoffs(V) /\ Sent(U) \subseteq Sent(V)
  BY DEF Backoffs, Sent
<1>4. e \notin U
  BY DEF Backoffs
<1>5. DOMAIN noted = DOMAIN pending \cup {new} /\ DOMAIN next = DOMAIN pending \cup {new}
  BY <1>2
<1>6. Due(V, noted, next)
  <2>1. ASSUME NEW k \in DOMAIN noted
        PROVE  /\ next[k] \in Backoffs(V)
               /\ k = <<next[k].endpoint, next[k].attempt>> /\ next[k].delay = noted[k]
    <3>1. CASE k = new
      BY <3>1, <1>2, <1>3, <1>5
    <3>2. CASE k # new
      BY <3>2, <1>1, <1>2, <1>3, <1>5 DEF Due
    <3> QED
      BY <3>1, <3>2
  <2> QED
    BY <2>1, <1>5 DEF Due
<1>7. ASSUME NEW n \in DOMAIN took, NEW key \in DOMAIN next PROVE took[n] # next[key]
  <2>1. took[n] \in U
    BY <1>1 DEF Took, Backoffs
  <2>2. CASE key = new
    BY <2>1, <2>2, <1>4, <1>5
  <2>3. CASE key # new
    BY <2>3, <1>1, <1>5 DEF Took, Due
  <2> QED
    BY <2>2, <2>3
<1> HIDE DEF next
<1>8. Took(V, entries, next, took)
  <2>1. {x.seq : x \in Sent(U)} \subseteq {x.seq : x \in Sent(V)}
    BY <1>3
  <2>2. \A n \in DOMAIN took : took[n] \in Backoffs(V)
    BY <1>1, <1>3 DEF Took
  <2> HIDE DEF V
  <2> QED
    BY <1>1, <1>7, <2>1, <2>2 DEF Took
<1> HIDE DEF noted
<1>9. Backed(V, entries, noted)
  BY <1>6, <1>8 DEF Backed
<1> QED
  BY <1>9 DEF noted

Left(pending, e) ==
  [k \in DOMAIN pending \ BackoffKeys(pending, e) |-> pending[k]]

(* Backoff d is one that was not taken before and is pending no more.       *)
Fresh(U, e, d, due, took) ==
  \E b \in Backoffs(U) :
    /\ b.endpoint \in {e.endpoint, "?"} /\ b.attempt = e.attempt /\ b.delay = d
    /\ \A n \in DOMAIN took : took[n] # b
    /\ \A k \in DOMAIN due : due[k] # b

(* An attempt takes its backoff, if there is one, out of those pending.     *)
LEMMA Taken ==
  ASSUME NEW S, NEW U \in SUBSET S, NEW entries, NEW pending,
         Backed(U, entries, pending), NEW e \in Sent(S),
         \A x \in U : x.seq < e.seq, \A x \in S : x.seq \in Nat
  PROVE  /\ TakeBackoff(pending, e) \in Delays(S)
         /\ \E due, took :
              /\ Due(U, Left(pending, e), due) /\ Took(U, entries, due, took)
              /\ e.seq \notin DOMAIN took
              /\ TakeBackoff(pending, e) # None => Fresh(U, e, TakeBackoff(pending, e), due, took)
<1> DEFINE keys == BackoffKeys(pending, e)
           d == TakeBackoff(pending, e)
           left == Left(pending, e)
<1>1. PICK due, took : Due(U, pending, due) /\ Took(U, entries, due, took)
  BY DEF Backed
<1> DEFINE next == [k \in DOMAIN pending \ keys |-> due[k]]
<1>2. keys = {} \/ \E key \in DOMAIN pending :
        keys = {key} /\ key \in {<<e.endpoint, e.attempt>>, <<"?", e.attempt>>}
  BY DEF BackoffKeys
<1>3. d = IF keys = {} THEN None ELSE pending[CHOOSE k \in keys : TRUE]
  BY DEF TakeBackoff
<1>4. /\ left = [k \in DOMAIN pending \ keys |-> pending[k]]
      /\ DOMAIN next = DOMAIN pending \ keys
  BY DEF Left
<1> HIDE DEF keys, d, left
<1>5. Due(U, left, next)
  BY <1>1, <1>4 DEF Due
<1>6. Took(U, entries, next, took)
  <2>1. ASSUME NEW n \in DOMAIN took, NEW key \in DOMAIN next PROVE took[n] # next[key]
    BY <1>1, <1>4 DEF Took, Due
  <2> HIDE DEF next
  <2> QED
    BY <2>1, <1>1 DEF Took
<1>7. e.seq \notin DOMAIN took
  <2> SUFFICES ASSUME e.seq \in DOMAIN took PROVE FALSE
    OBVIOUS
  <2>1. PICK x \in Sent(U) : x.seq = e.seq
    BY <1>1 DEF Took
  <2> QED
    BY <2>1 DEF Sent
<1>8. CASE keys = {}
  <2>1. d = None /\ d \in Delays(S)
    BY <1>3, <1>8 DEF Delays
  <2> HIDE DEF next
  <2> QED
    BY <2>1, <1>5, <1>6, <1>7 DEF left, d
<1>9. CASE keys # {}
  <2>1. PICK key \in DOMAIN pending :
          keys = {key} /\ key \in {<<e.endpoint, e.attempt>>, <<"?", e.attempt>>}
    BY <1>2, <1>9
  <2>2. d = pending[key]
    BY <1>3, <1>9, <2>1
  <2> DEFINE b == due[key]
  <2>3. b \in Backoffs(U) /\ key = <<b.endpoint, b.attempt>> /\ b.delay = d
    BY <1>1, <2>1, <2>2 DEF Due
  <2>4. b.endpoint \in {e.endpoint, "?"} /\ b.attempt = e.attempt
    BY <2>1, <2>3
  <2>5. d \in Delays(S)
    BY <2>3 DEF Delays, Backoffs
  <2>6. \A n \in DOMAIN took : took[n] # b
    BY <1>1, <2>1 DEF Took, Due
  <2>7. ASSUME NEW k \in DOMAIN next PROVE next[k] # b
    <3>1. k \in DOMAIN pending /\ k # key /\ next[k] = due[k]
      BY <1>4, <2>1
    <3>2. k = <<due[k].endpoint, due[k].attempt>>
      BY <3>1, <1>1 DEF Due
    <3> HIDE DEF next
    <3> QED
      BY <3>1, <3>2, <2>3
  <2> HIDE DEF next, b
  <2>8. Fresh(U, e, d, next, took)
    BY <2>3, <2>4, <2>6, <2>7 DEF Fresh
  <2> QED
    BY <2>5, <2>8, <1>5, <1>6, <1>7 DEF left, d
<1> QED
  BY <1>8, <1>9

(* The lines of the new entries: those there were, and the new one.         *)
Grown(entries, e, line, new) ==
  \A k \in 1..Len(new) :
    \A j \in 1..Len(new[k].attempts) :
      \/ new[k].endpoint = e.endpoint /\ new[k].attempts[j] = line
      \/ /\ k \in 1..Len(entries) /\ j \in 1..Len(entries[k].attempts)
         /\ new[k].endpoint = entries[k].endpoint
         /\ new[k].attempts[j] = entries[k].attempts[j]

(* Adding an attempt adds its line and no other.                            *)
LEMMA Grows ==
  ASSUME NEW S, NEW entries \in Seq(Entry(S)), NEW e \in Sent(S), NEW d \in Delays(S)
  PROVE  Grown(entries, e, Line(e, d), AddAttempt(entries, e, Line(e, d)))
<1> DEFINE new == AddAttempt(entries, e, Line(e, d))
<1>1. Len(entries) \in Nat
  OBVIOUS
<1>2. ASSUME Opens(entries, e, Line(e, d), new)
      PROVE  Grown(entries, e, Line(e, d), new)
  <2> DEFINE n == Len(entries) + 1
  <2>1. /\ Len(new) = n /\ n \in Nat
        /\ \A k \in 1..Len(entries) : new[k] = entries[k]
        /\ new[n].endpoint = e.endpoint
        /\ Len(new[n].attempts) = 1 /\ new[n].attempts[1] = Line(e, d)
    <3> HIDE DEF new
    <3> QED
      BY <1>2, OpensAt
  <2>2. \A k \in 1..n : k \in 1..Len(entries) \/ k = n
    BY <1>1
  <2>3. \A j \in 1..1 : j = 1
    OBVIOUS
  <2> HIDE DEF new, n
  <2> QED
    BY <2>1, <2>2, <2>3 DEF Grown
<1>3. ASSUME NEW k \in 1..Len(entries), Joins(entries, e, Line(e, d), new, k)
      PROVE  Grown(entries, e, Line(e, d), new)
  <2> DEFINE n == Len(entries[k].attempts) + 1
  <2>1. /\ Len(new) = Len(entries) /\ n \in Nat
        /\ \A l \in 1..Len(entries) : l # k => new[l] = entries[l]
        /\ new[k].endpoint = entries[k].endpoint
        /\ Len(new[k].attempts) = n /\ new[k].attempts[n] = Line(e, d)
        /\ \A j \in 1..Len(entries[k].attempts) :
             new[k].attempts[j] = entries[k].attempts[j]
    <3> HIDE DEF new
    <3> QED
      BY <1>3, JoinsAt
  <2>2. entries[k].endpoint = e.endpoint
    BY <1>3 DEF Joins
  <2>3. entries[k] \in Entry(S)
    OBVIOUS
  <2>4. Len(entries[k].attempts) \in Nat
    BY <2>3 DEF Entry
  <2>5. \A j \in 1..n : j \in 1..Len(entries[k].attempts) \/ j = n
    BY <2>4
  <2> HIDE DEF new, n
  <2>6. ASSUME NEW l \in 1..Len(new), NEW j \in 1..Len(new[l].attempts)
        PROVE  \/ new[l].endpoint = e.endpoint /\ new[l].attempts[j] = Line(e, d)
               \/ /\ l \in 1..Len(entries) /\ j \in 1..Len(entries[l].attempts)
                  /\ new[l].endpoint = entries[l].endpoint
                  /\ new[l].attempts[j] = entries[l].attempts[j]
    <3>1. CASE l # k
      BY <3>1, <2>1
    <3>2. CASE l = k
      BY <3>2, <2>1, <2>2, <2>5
    <3> QED
      BY <3>1, <3>2
  <2> QED
    BY <2>6 DEF Grown
<1>4. \/ Opens(entries, e, Line(e, d), new)
      \/ \E k \in 1..Len(entries) : Joins(entries, e, Line(e, d), new, k)
  BY Added
<1> HIDE DEF new
<1>5. Grown(entries, e, Line(e, d), new)
  BY <1>2, <1>3, <1>4
<1> QED
  BY <1>5 DEF new

(* The entries stay filed, in turn and headed when an attempt is added.     *)
LEMMA AddedWired ==
  ASSUME NEW S, NEW U \in SUBSET S, NEW entries, Wired(S, U, entries),
         NEW e \in Sent(S), NEW d \in Delays(S),
         \A x \in S : x.seq \in Nat, \A x \in U : x.seq < e.seq
  PROVE  Wired(S, U \cup {e}, AddAttempt(entries, e, Line(e, d)))
<1> DEFINE new == AddAttempt(entries, e, Line(e, d))
<1>1. entries \in Seq(Entry(S))
  BY DEF Wired
<1>2. \/ Opens(entries, e, Line(e, d), new)
      \/ \E k \in 1..Len(entries) : Joins(entries, e, Line(e, d), new, k)
  BY <1>1, Added
<1> HIDE DEF new
<1>3. Wired(S, U \cup {e}, new)
  BY <1>2, OpensWired, JoinsWired
<1> QED
  BY <1>3 DEF new

(* So do the backoffs stay accounted for.                                   *)
LEMMA AddedBacked ==
  ASSUME NEW S, NEW U \in SUBSET S, NEW entries \in Seq(Entry(S)), NEW pending,
         Backed(U, entries, pending), NEW e \in Sent(S),
         \A x \in S : x.seq \in Nat, \A x \in U : x.seq < e.seq
  PROVE  LET d == TakeBackoff(pending, e)
         IN /\ d \in Delays(S)
            /\ Backed(U \cup {e}, AddAttempt(entries, e, Line(e, d)), Left(pending, e))
<1> DEFINE d == TakeBackoff(pending, e)
           left == Left(pending, e)
           line == Line(e, d)
           new == AddAttempt(entries, e, line)
           V == U \cup {e}
<1>1. d \in Delays(S)
  BY Taken
<1>2. PICK due, took :
        /\ Due(U, left, due) /\ Took(U, entries, due, took) /\ e.seq \notin DOMAIN took
        /\ d # None => Fresh(U, e, d, due, took)
  BY Taken
<1>3. Grown(entries, e, line, new)
  BY <1>1, Grows
<1> HIDE DEF d, left, new
<1>4. line.seq = e.seq /\ line.attempt = e.attempt /\ line.backoff = d
  BY DEF Line
<1> HIDE DEF line
<1>5. e \in Sent(V) /\ Sent(U) \subseteq Sent(V) /\ Backoffs(U) \subseteq Backoffs(V)
  BY DEF Sent, Backoffs
<1>6. Due(V, left, due)
  BY <1>2, <1>5 DEF Due
<1>7. {x.seq : x \in Sent(U)} \subseteq {x.seq : x \in Sent(V)}
      /\ e.seq \in {x.seq : x \in Sent(V)}
  BY <1>5
<1>9. CASE d = None
  <2>1. ASSUME NEW k \in 1..Len(new), NEW j \in 1..Len(new[k].attempts),
               new[k].attempts[j].backoff # None
        PROVE  /\ new[k].attempts[j].seq \in DOMAIN took
               /\ Explains(took[new[k].attempts[j].seq], new[k], j)
    <3>1. /\ k \in 1..Len(entries) /\ j \in 1..Len(entries[k].attempts)
          /\ new[k].endpoint = entries[k].endpoint
          /\ new[k].attempts[j] = entries[k].attempts[j]
      BY <1>3, <1>4, <1>9, <2>1 DEF Grown
    <3> QED
      BY <2>1, <3>1, <1>2 DEF Took, Explains
  <2>2. \A n \in DOMAIN took : took[n] \in Backoffs(V)
    BY <1>2, <1>5 DEF Took
  <2> HIDE DEF V
  <2>3. Took(V, new, due, took)
    BY <2>1, <2>2, <1>2, <1>7 DEF Took
  <2>4. Backed(V, new, left)
    BY <2>3, <1>6 DEF Backed
  <2> QED
    BY <2>4, <1>1 DEF V, new, left, d, line
<1>10. CASE d # None
  <2>1. PICK b \in Backoffs(U) :
          /\ b.endpoint \in {e.endpoint, "?"} /\ b.attempt = e.attempt /\ b.delay = d
          /\ \A n \in DOMAIN took : took[n] # b
          /\ \A k \in DOMAIN due : due[k] # b
    BY <1>2, <1>10 DEF Fresh
  <2> DEFINE next == [n \in DOMAIN took \cup {e.seq} |-> IF n = e.seq THEN b ELSE took[n]]
  <2>2. /\ DOMAIN next = DOMAIN took \cup {e.seq} /\ next[e.seq] = b
        /\ \A n \in DOMAIN took : next[n] = took[n] /\ n # e.seq
    BY <1>2
  <2> HIDE DEF next
  <2>3. DOMAIN next \subseteq {x.seq : x \in Sent(V)}
    BY <2>2, <1>2, <1>7 DEF Took
  <2>4. \A n \in DOMAIN next : next[n] \in Backoffs(V)
    BY <2>1, <2>2, <1>2, <1>5 DEF Took
  <2>5. \A n, m \in DOMAIN next : next[n] = next[m] => n = m
    <3> SUFFICES ASSUME NEW n \in DOMAIN next, NEW m \in DOMAIN next, next[n] = next[m]
                 PROVE  n = m
      OBVIOUS
    <3>1. CASE n = e.seq
      BY <3>1, <2>1, <2>2
    <3>2. CASE m = e.seq
      BY <3>2, <2>1, <2>2
    <3>3. CASE n # e.seq /\ m # e.seq
      BY <3>3, <2>2, <1>2 DEF Took
    <3> QED
      BY <3>1, <3>2, <3>3
  <2>6. \A n \in DOMAIN next : \A key \in DOMAIN due : next[n] # due[key]
    BY <2>1, <2>2, <1>2 DEF Took
  <2>7. ASSUME NEW k \in 1..Len(new), NEW j \in 1..Len(new[k].attempts),
               new[k].attempts[j].backoff # None
        PROVE  /\ new[k].attempts[j].seq \in DOMAIN next
               /\ Explains(next[new[k].attempts[j].seq], new[k], j)
    <3>1. CASE new[k].endpoint = e.endpoint /\ new[k].attempts[j] = line
      <4>1. b.seq < e.seq
        BY <2>1 DEF Backoffs
      <4> QED
        BY <3>1, <4>1, <2>1, <2>2, <1>4 DEF Explains
    <3>2. CASE /\ k \in 1..Len(entries) /\ j \in 1..Len(entries[k].attempts)
               /\ new[k].endpoint = entries[k].endpoint
               /\ new[k].attempts[j] = entries[k].attempts[j]
      <4>1. /\ entries[k].attempts[j].seq \in DOMAIN took
            /\ Explains(took[entries[k].attempts[j].seq], entries[k], j)
        BY <2>7, <3>2, <1>2 DEF Took
      <4> QED
        BY <3>2, <4>1, <2>2 DEF Explains
    <3> QED
      BY <3>1, <3>2, <1>3 DEF Grown
  <2> HIDE DEF V
  <2>8. Took(V, new, due, next)
    BY <2>3, <2>4, <2>5, <2>6, <2>7 DEF Took
  <2>9. Backed(V, new, left)
    BY <2>8, <1>6 DEF Backed
  <2> QED
    BY <2>9, <1>1 DEF V, new, left, d, line
<1> QED
  BY <1>9, <1>10

-----------------------------------------------------------------------------
(* Taking in the events of a run one by one keeps all of it.                *)
LEMMA WireIs ==
  ASSUME NEW S, \A x \in S : x.seq \in Nat, NEW q \in Seq(S), Ordered(q)
  PROVE  LET wire == WireOf(q)
         IN /\ Wired(S, ToSet(q), wire.entries)
            /\ Backed(ToSet(q), wire.entries, wire.pending)
<1>1. PICK h : /\ h[0] = NoWire
               /\ \A i \in 1..Len(q) : h[i] = OnWire(h[i - 1], q[i])
               /\ WireOf(q) = h[Len(q)]
  BY WireFold
<1>2. Len(q) \in Nat /\ DOMAIN q = 1..Len(q) /\ \A i \in 1..Len(q) : q[i] \in S
  OBVIOUS
<1> DEFINE upto(i) == {q[k] : k \in 1..i}
           Good(i) == /\ h[i] = [entries |-> h[i].entries, pending |-> h[i].pending]
                      /\ Wired(S, upto(i), h[i].entries)
                      /\ Backed(upto(i), h[i].entries, h[i].pending)
           Right == {i \in Nat : i <= Len(q) => Good(i)}
<1>3. 0 \in Right
  <2>1. upto(0) = {}
    OBVIOUS
  <2>2. h[0] = [entries |-> <<>>, pending |-> <<>>]
    BY <1>1 DEF NoWire
  <2>3. Wired(S, {}, <<>>)
    BY DEF Wired, Filed, InTurn, Headed, Sent
  <2>4. Backed({}, <<>>, <<>>)
    <3> DEFINE none == [x \in {} |-> x]
    <3>1. DOMAIN none = {} /\ none \in [{} -> Backoffs({})]
      OBVIOUS
    <3> HIDE DEF none
    <3>2. Due({}, <<>>, none) /\ Took({}, <<>>, none, none)
      BY <3>1 DEF Due, Took
    <3> QED
      BY <3>2 DEF Backed
  <2> HIDE DEF upto
  <2>5. h[0].entries = <<>> /\ h[0].pending = <<>>
    BY <2>2
  <2>6. Good(0)
    BY <2>1, <2>2, <2>3, <2>4, <2>5
  <2> HIDE DEF Good
  <2> QED
    BY <2>6
<1>4. ASSUME NEW i \in Nat, i \in Right PROVE i + 1 \in Right
  <2> SUFFICES ASSUME i + 1 <= Len(q) PROVE Good(i + 1)
    OBVIOUS
  <2>1. Good(i)
    BY <1>2, <1>4
  <2> DEFINE e == q[i + 1]
             U == upto(i)
             V == upto(i + 1)
             w == h[i]
             new == h[i + 1]
  <2>2. i + 1 \in 1..Len(q) /\ (i + 1) - 1 = i /\ e \in S
    BY <1>2
  <2>3. new = OnWire(w, e)
    BY <1>1, <2>2
  <2>4. V = U \cup {e}
    OBVIOUS
  <2>5. U \in SUBSET S
    BY <1>2
  <2>6. \A x \in U : x.seq < e.seq
    <3> SUFFICES ASSUME NEW k \in 1..i PROVE q[k].seq < e.seq
      OBVIOUS
    <3>1. k \in DOMAIN q /\ i + 1 \in DOMAIN q /\ k < i + 1
      BY <1>2, <2>2
    <3> QED
      BY <3>1 DEF Ordered
  <2> HIDE DEF e, U, V
  <2>7. w = [entries |-> w.entries, pending |-> w.pending]
        /\ Wired(S, U, w.entries) /\ Backed(U, w.entries, w.pending)
    BY <2>1 DEF U
  <2> HIDE DEF w, new
  <2>8. /\ new = [entries |-> new.entries, pending |-> new.pending]
        /\ Wired(S, V, new.entries) /\ Backed(V, new.entries, new.pending)
    <3>1. CASE e.type = "retry"
      <4>1. new = [w EXCEPT !.pending = NoteBackoff(@, e)]
        BY <2>3, <3>1 DEF OnWire
      <4>2. /\ new = [entries |-> new.entries, pending |-> new.pending]
            /\ new.entries = w.entries /\ new.pending = NoteBackoff(w.pending, e)
        BY <4>1, <2>7
      <4>3. Sent(V) = Sent(U) /\ e \in Backoffs(S)
        BY <3>1, <2>2, <2>4 DEF Sent, Backoffs, e
      <4>4. Wired(S, V, w.entries)
        BY <4>3, <2>7 DEF Wired, Filed
      <4>5. Backed(V, w.entries, NoteBackoff(w.pending, e))
        BY <4>3, <2>4, <2>5, <2>6, <2>7, Scheduled
      <4> QED
        BY <4>2, <4>4, <4>5
    <3>2. CASE e.type = "exchange"
      <4> DEFINE d == TakeBackoff(w.pending, e)
                 added == AddAttempt(w.entries, e, Line(e, d))
      <4>1. new = [entries |-> added, pending |-> Left(w.pending, e)]
        BY <2>3, <3>2 DEF OnWire, OnExchange, Line, Left
      <4>2. e \in Sent(S)
        BY <3>2, <2>2 DEF Sent, e
      <4>3. w.entries \in Seq(Entry(S))
        BY <2>7 DEF Wired
      <4>4. d \in Delays(S) /\ Backed(V, added, Left(w.pending, e))
        BY <4>2, <4>3, <2>4, <2>5, <2>6, <2>7, AddedBacked
      <4>5. Wired(S, V, added)
        BY <4>2, <4>4, <2>4, <2>5, <2>6, <2>7, AddedWired
      <4> HIDE DEF added
      <4> QED
        BY <4>1, <4>4, <4>5
    <3>3. CASE e.type \notin {"retry", "exchange"}
      <4>1. new = w
        BY <2>3, <3>3 DEF OnWire
      <4>2. Sent(V) = Sent(U) /\ Backoffs(V) = Backoffs(U)
        BY <3>3, <2>4 DEF Sent, Backoffs
      <4>3. Wired(S, V, w.entries)
        BY <4>2, <2>7 DEF Wired, Filed
      <4>4. PICK due, took : Due(U, w.pending, due) /\ Took(U, w.entries, due, took)
        BY <2>7 DEF Backed
      <4>5. Due(V, w.pending, due) /\ Took(V, w.entries, due, took)
        BY <4>2, <4>4 DEF Due, Took
      <4>6. Backed(V, w.entries, w.pending)
        BY <4>5 DEF Backed
      <4> QED
        BY <4>1, <4>3, <4>6, <2>7
    <3> QED
      BY <3>1, <3>2, <3>3
  <2> QED
    BY <2>8 DEF V, new
<1> HIDE DEF Right
<1>5. Nat \subseteq Right
  BY <1>3, <1>4, NatSet
<1>6. Good(Len(q))
  <2> HIDE DEF Good
  <2> QED
    BY <1>2, <1>5 DEF Right
<1>7. upto(Len(q)) = ToSet(q)
  BY <1>2 DEF ToSet
<1> HIDE DEF upto
<1> QED
  BY <1>1, <1>6, <1>7

-----------------------------------------------------------------------------
(* What the panes read off the entries.                                     *)

(* Entries have lines, and the first one comes first.                       *)
WellPlaced(entries) ==
  /\ Len(entries) \in Nat /\ DOMAIN entries = 1..Len(entries)
  /\ \A k \in 1..Len(entries) :
       /\ DOMAIN entries[k].attempts = 1..Len(entries[k].attempts)
       /\ Len(entries[k].attempts) \in Nat
       /\ 1 \in 1..Len(entries[k].attempts)
       /\ Len(entries[k].attempts) \in 1..Len(entries[k].attempts)
       /\ Last(entries[k].attempts) = entries[k].attempts[Len(entries[k].attempts)]
       /\ \A j \in 1..Len(entries[k].attempts) :
            /\ entries[k].attempts[j].seq \in Nat
            /\ entries[k].attempts[1].seq <= entries[k].attempts[j].seq

(* That is what entries are.                                                *)
LEMMA Places ==
  ASSUME NEW S, Numbered(S), NEW U \in SUBSET S, NEW entries, Wired(S, U, entries)
  PROVE  WellPlaced(entries)
<1>1. entries \in Seq(Entry(S))
  BY DEF Wired
<1>2. Len(entries) \in Nat /\ DOMAIN entries = 1..Len(entries)
  BY <1>1
<1>3. ASSUME NEW k \in 1..Len(entries)
      PROVE  /\ DOMAIN entries[k].attempts = 1..Len(entries[k].attempts)
             /\ Len(entries[k].attempts) \in Nat
             /\ 1 \in 1..Len(entries[k].attempts)
             /\ Len(entries[k].attempts) \in 1..Len(entries[k].attempts)
             /\ Last(entries[k].attempts) = entries[k].attempts[Len(entries[k].attempts)]
             /\ \A j \in 1..Len(entries[k].attempts) :
                  /\ entries[k].attempts[j].seq \in Nat
                  /\ entries[k].attempts[1].seq <= entries[k].attempts[j].seq
  <2> DEFINE s == entries[k].attempts
  <2>1. entries[k] \in Entry(S)
    BY <1>1
  <2>2. s \in Seq(Lines(S)) /\ s # <<>>
    BY <2>1 DEF Entry, Wired, Filed
  <2>3. ASSUME NEW j \in 1..Len(s) PROVE s[j].seq \in Nat
    <3>1. PICK e \in Sent(U) : Of(e, entries[k], j)
      BY DEF Wired, Filed
    <3> QED
      BY <3>1 DEF Of, Sent, Numbered
  <2>4. \A i, j \in 1..Len(s) : i < j => s[i].seq < s[j].seq
    BY DEF Wired, InTurn
  <2> HIDE DEF s
  <2>5. /\ DOMAIN s = 1..Len(s) /\ Len(s) \in Nat /\ 1 \in 1..Len(s) /\ Len(s) \in 1..Len(s)
        /\ Last(s) = s[Len(s)]
    BY <2>2 DEF Last
  <2>6. ASSUME NEW j \in 1..Len(s) PROVE s[1].seq <= s[j].seq
    <3>1. CASE j = 1
      BY <3>1, <2>3
    <3>2. CASE j # 1
      <4>1. 1 < j
        BY <3>2, <2>5
      <4>2. s[1].seq < s[j].seq
        BY <4>1, <2>4, <2>5
      <4> QED
        BY <4>2, <2>3, <2>5
    <3> QED
      BY <3>1, <3>2
  <2> QED
    BY <2>3, <2>5, <2>6 DEF s
<1> QED
  BY <1>2, <1>3 DEF WellPlaced

(* Entries of an endpoint do not overlap: the lines of the earlier one come *)
(* before those of the later one.                                           *)
LEMMA Apart ==
  ASSUME NEW S, Numbered(S), NEW U \in SUBSET S, NEW entries, Wired(S, U, entries),
         NEW k \in 1..Len(entries), NEW l \in 1..Len(entries), k < l,
         entries[k].endpoint = entries[l].endpoint,
         NEW i \in 1..Len(entries[k].attempts), NEW j \in 1..Len(entries[l].attempts)
  PROVE  entries[k].attempts[i].seq < entries[l].attempts[j].seq
<1>0. WellPlaced(entries)
  BY Places
<1>1. entries[k].attempts[i].seq < entries[l].attempts[1].seq
  <2>1. InTurn(entries)
    BY DEF Wired
  <2> QED
    BY <2>1 DEF InTurn
<1>2. /\ entries[k].attempts[i].seq \in Nat /\ entries[l].attempts[j].seq \in Nat
      /\ entries[l].attempts[1].seq \in Nat
      /\ entries[l].attempts[1].seq <= entries[l].attempts[j].seq
  BY <1>0 DEF WellPlaced
<1> DEFINE a == entries[k].attempts[i].seq
           b == entries[l].attempts[1].seq
           c == entries[l].attempts[j].seq
<1>3. a < b /\ a \in Nat /\ b \in Nat /\ c \in Nat /\ b <= c
  BY <1>1, <1>2
<1>4. a < c
  <2> HIDE DEF a, b, c
  <2> QED
    BY <1>3
<1> QED
  BY <1>4

(* An attempt has one line.                                                 *)
LEMMA OnePlace ==
  ASSUME NEW S, Numbered(S), NEW U \in SUBSET S, NEW entries, Wired(S, U, entries),
         NEW k \in 1..Len(entries), NEW l \in 1..Len(entries),
         NEW i \in 1..Len(entries[k].attempts), NEW j \in 1..Len(entries[l].attempts),
         entries[k].attempts[i].seq = entries[l].attempts[j].seq
  PROVE  k = l /\ i = j
<1>0. WellPlaced(entries)
  BY Places
<1>1. PICK x \in Sent(U) : Of(x, entries[k], i)
  BY DEF Wired, Filed
<1>2. PICK y \in Sent(U) : Of(y, entries[l], j)
  BY DEF Wired, Filed
<1>3. x = y
  BY <1>1, <1>2 DEF Of, Sent, Numbered
<1>4. entries[k].endpoint = entries[l].endpoint
  BY <1>1, <1>2, <1>3 DEF Of
<1>5. entries[k].attempts[i].seq \in Nat /\ entries[l].attempts[j].seq \in Nat
  BY <1>0 DEF WellPlaced
<1>6. ~(k < l)
  <2> SUFFICES ASSUME k < l PROVE FALSE
    OBVIOUS
  <2>1. entries[k].attempts[i].seq < entries[l].attempts[j].seq
    BY <1>4, Apart
  <2> QED
    BY <2>1, <1>5
<1>7. ~(l < k)
  <2> SUFFICES ASSUME l < k PROVE FALSE
    OBVIOUS
  <2>1. entries[l].attempts[j].seq < entries[k].attempts[i].seq
    BY <1>4, Apart
  <2> QED
    BY <2>1, <1>5
<1>8. k = l
  <2>1. k \in Nat /\ l \in Nat
    BY <1>0 DEF WellPlaced
  <2> QED
    BY <2>1, <1>6, <1>7
<1>9. ~(i < j) /\ ~(j < i)
  BY <1>5, <1>8 DEF Wired, InTurn
<1>10. i \in Nat /\ j \in Nat
  BY <1>0 DEF WellPlaced
<1> QED
  BY <1>8, <1>9, <1>10

(* The stretch of an endpoint's exchanges that a row stands for.            *)
Span(U, entries, k) ==
  {e \in Sent(U) :
     /\ e.endpoint = entries[k].endpoint /\ e.seq >= entries[k].attempts[1].seq
     /\ \A l \in 1..Len(entries) :
          /\ entries[l].endpoint = e.endpoint
          /\ entries[l].attempts[1].seq > entries[k].attempts[1].seq
          => entries[l].attempts[1].seq > e.seq}

(* It is what the entry holds.                                              *)
LEMMA SpanIs ==
  ASSUME NEW S, Numbered(S), NEW U \in SUBSET S, NEW entries, Wired(S, U, entries),
         NEW k \in 1..Len(entries)
  PROVE  Span(U, entries, k)
           = {e \in Sent(U) : \E j \in 1..Len(entries[k].attempts) : Of(e, entries[k], j)}
<1>0. WellPlaced(entries)
  BY Places
<1>1. ASSUME NEW e \in Span(U, entries, k)
      PROVE  \E j \in 1..Len(entries[k].attempts) : Of(e, entries[k], j)
  <2>1. e \in Sent(U) /\ e.seq \in Nat
    BY DEF Span, Sent, Numbered
  <2>2. PICK l \in 1..Len(entries) : \E j \in 1..Len(entries[l].attempts) : Of(e, entries[l], j)
    BY <2>1 DEF Wired, Filed
  <2>3. PICK j \in 1..Len(entries[l].attempts) : Of(e, entries[l], j)
    BY <2>2
  <2>4. /\ e.endpoint = entries[k].endpoint /\ e.seq >= entries[k].attempts[1].seq
        /\ entries[l].endpoint = e.endpoint
        /\ entries[l].attempts[1].seq > entries[k].attempts[1].seq
             => entries[l].attempts[1].seq > e.seq
    BY <2>3 DEF Span, Of
  <2>5. /\ k \in Nat /\ l \in Nat /\ 1 \in 1..Len(entries[k].attempts)
        /\ 1 \in 1..Len(entries[l].attempts)
        /\ entries[k].attempts[1].seq \in Nat /\ entries[l].attempts[1].seq \in Nat
        /\ entries[l].attempts[1].seq <= entries[l].attempts[j].seq
    BY <1>0 DEF WellPlaced
  <2>6. e.seq = entries[l].attempts[j].seq
    BY <2>3 DEF Of
  <2>7. ~(l < k)
    <3> SUFFICES ASSUME l < k PROVE FALSE
      OBVIOUS
    <3>1. entries[l].attempts[j].seq < entries[k].attempts[1].seq
      BY <2>4, <2>5, Apart
    <3> QED
      BY <3>1, <2>1, <2>4, <2>5, <2>6
  <2>8. ~(k < l)
    <3> SUFFICES ASSUME k < l PROVE FALSE
      OBVIOUS
    <3>1. entries[k].attempts[1].seq < entries[l].attempts[1].seq
      BY <2>4, <2>5, Apart
    <3> QED
      BY <3>1, <2>1, <2>4, <2>5, <2>6
  <2>9. l = k
    BY <2>5, <2>7, <2>8
  <2> QED
    BY <2>3, <2>9
<1>2. ASSUME NEW e \in Sent(U), NEW j \in 1..Len(entries[k].attempts), Of(e, entries[k], j)
      PROVE  e \in Span(U, entries, k)
  <2>1. /\ e.endpoint = entries[k].endpoint /\ e.seq = entries[k].attempts[j].seq
        /\ e.seq \in Nat
    BY <1>2 DEF Of, Sent, Numbered
  <2>2. /\ entries[k].attempts[1].seq \in Nat
        /\ entries[k].attempts[1].seq <= entries[k].attempts[j].seq
        /\ 1 \in 1..Len(entries[k].attempts) /\ k \in Nat
    BY <1>0 DEF WellPlaced
  <2>3. ASSUME NEW l \in 1..Len(entries), entries[l].endpoint = e.endpoint,
               entries[l].attempts[1].seq > entries[k].attempts[1].seq
        PROVE  entries[l].attempts[1].seq > e.seq
    <3>1. l \in Nat /\ 1 \in 1..Len(entries[l].attempts) /\ entries[l].attempts[1].seq \in Nat
      BY <1>0 DEF WellPlaced
    <3>2. ~(l < k)
      <4> SUFFICES ASSUME l < k PROVE FALSE
        OBVIOUS
      <4>1. entries[l].attempts[1].seq < entries[k].attempts[1].seq
        BY <3>1, <2>1, <2>2, <2>3, Apart
      <4> QED
        BY <4>1, <3>1, <2>2, <2>3
    <3>3. l # k
      BY <3>1, <2>2, <2>3
    <3>4. k < l
      BY <3>1, <3>2, <3>3, <2>2
    <3>5. entries[k].attempts[j].seq < entries[l].attempts[1].seq
      BY <3>1, <3>4, <2>1, <2>3, Apart
    <3> QED
      BY <3>1, <3>5, <2>1
  <2> QED
    BY <2>1, <2>2, <2>3 DEF Span
<1>3. Span(U, entries, k) \subseteq Sent(U)
  BY DEF Span
<1> QED
  BY <1>1, <1>2, <1>3

(* There is a line for each retry.                                          *)
LEMMA RetriesAre ==
  ASSUME NEW A, \A a \in A : a.attempt \in Nat, NEW attempts \in Seq(A)
  PROVE  /\ IsFiniteSet({j \in 1..Len(attempts) : attempts[j].attempt >= 2})
         /\ Len(Retries(attempts)) = Cardinality({j \in 1..Len(attempts) : attempts[j].attempt >= 2})
<1>1. PICK h : /\ h[0] = <<>>
               /\ \A i \in 1..Len(attempts) : h[i] = OnRetry(h[i - 1], attempts[i])
               /\ Retries(attempts) = h[Len(attempts)]
  BY RetryFold
<1>2. Len(attempts) \in Nat /\ \A i \in 1..Len(attempts) : attempts[i] \in A
  OBVIOUS
<1> DEFINE Shown(a) == [attempt |-> a.attempt, backoff |-> IF a.backoff = None THEN 0 ELSE a.backoff]
           B == {Shown(a) : a \in A}
           again(i) == {j \in 1..i : attempts[j].attempt >= 2}
           Good(i) == /\ h[i] \in Seq(B) /\ IsFiniteSet(again(i))
                      /\ Len(h[i]) = Cardinality(again(i))
           Right == {i \in Nat : i <= Len(attempts) => Good(i)}
<1>3. 0 \in Right
  <2>1. again(0) = {}
    OBVIOUS
  <2>2. <<>> \in Seq(B) /\ Len(<<>>) = 0
    OBVIOUS
  <2> HIDE DEF again, B
  <2>3. Good(0)
    BY <1>1, <2>1, <2>2, FS_EmptySet
  <2> HIDE DEF Good
  <2> QED
    BY <2>3
<1>4. ASSUME NEW i \in Nat, i \in Right PROVE i + 1 \in Right
  <2> SUFFICES ASSUME i + 1 <= Len(attempts) PROVE Good(i + 1)
    OBVIOUS
  <2>1. Good(i)
    BY <1>2, <1>4
  <2>2. i + 1 \in 1..Len(attempts) /\ (i + 1) - 1 = i
    BY <1>2
  <2> DEFINE a == attempts[i + 1]
  <2>3. a \in A /\ a.attempt \in Nat /\ Shown(a) \in B
    BY <1>2, <2>2
  <2>4. h[i + 1] = OnRetry(h[i], a)
    BY <1>1, <2>2
  <2>5. i + 1 \notin again(i)
    OBVIOUS
  <2>6. again(i + 1) = IF a.attempt >= 2 THEN again(i) \cup {i + 1} ELSE again(i)
    <3>1. \A j \in 1..(i + 1) : j \in 1..i \/ j = i + 1
      OBVIOUS
    <3>2. 1..i \subseteq 1..(i + 1) /\ i + 1 \in 1..(i + 1)
      OBVIOUS
    <3> QED
      BY <3>1, <3>2
  <2>7. h[i + 1] = IF a.attempt < 2 THEN h[i] ELSE Append(h[i], Shown(a))
    BY <2>4 DEF OnRetry
  <2> HIDE DEF a, again, B, Shown
  <2>8. CASE a.attempt >= 2
    <3>1. again(i + 1) = again(i) \cup {i + 1} /\ h[i + 1] = Append(h[i], Shown(a))
      BY <2>3, <2>6, <2>7, <2>8
    <3>2. IsFiniteSet(again(i + 1)) /\ Cardinality(again(i + 1)) = Cardinality(again(i)) + 1
      BY <2>1, <2>5, <3>1, FS_AddElement
    <3>3. h[i + 1] \in Seq(B) /\ Len(h[i + 1]) = Len(h[i]) + 1
      BY <2>1, <2>3, <3>1
    <3> QED
      BY <2>1, <3>2, <3>3
  <2>9. CASE ~(a.attempt >= 2)
    <3>1. again(i + 1) = again(i) /\ h[i + 1] = h[i]
      BY <2>3, <2>6, <2>7, <2>9
    <3> QED
      BY <2>1, <3>1
  <2> QED
    BY <2>8, <2>9
<1> HIDE DEF Right
<1>5. Nat \subseteq Right
  BY <1>3, <1>4, NatSet
<1>6. Good(Len(attempts))
  <2> HIDE DEF Good
  <2> QED
    BY <1>2, <1>5 DEF Right
<1> QED
  BY <1>1, <1>6

(* A row lists as many retries as its span has.                             *)
LEMMA RetriesOfSpan ==
  ASSUME NEW S, Numbered(S), \A e \in Sent(S) : e.attempt \in Nat, NEW U \in SUBSET S,
         NEW entries, Wired(S, U, entries), NEW k \in 1..Len(entries)
  PROVE  Len(Retries(entries[k].attempts)) = Cardinality({e \in Span(U, entries, k) : e.attempt >= 2})
<1> DEFINE s == entries[k].attempts
           J == {j \in 1..Len(s) : s[j].attempt >= 2}
           T == {e \in Span(U, entries, k) : e.attempt >= 2}
           m == [j \in J |-> CHOOSE e \in Sent(U) : Of(e, entries[k], j)]
<1>1. s \in Seq(Lines(S))
  <2>1. entries[k] \in Entry(S)
    BY DEF Wired
  <2> QED
    BY <2>1 DEF Entry
<1>2. \A a \in Lines(S) : a.attempt \in Nat
  BY DEF Lines, Line
<1>3. IsFiniteSet(J) /\ Len(Retries(s)) = Cardinality(J)
  BY <1>1, <1>2, RetriesAre
<1>4. T = {e \in Sent(U) : (\E j \in 1..Len(s) : Of(e, entries[k], j)) /\ e.attempt >= 2}
  <2>1. Span(U, entries, k) = {e \in Sent(U) : \E j \in 1..Len(s) : Of(e, entries[k], j)}
    BY SpanIs
  <2> HIDE DEF s
  <2> QED
    BY <2>1
<1>5. \A j \in 1..Len(s) : \E e \in Sent(U) : Of(e, entries[k], j)
  BY DEF Wired, Filed
<1>6. ASSUME NEW j \in J PROVE m[j] \in Sent(U) /\ Of(m[j], entries[k], j)
  <2>1. m[j] = CHOOSE e \in Sent(U) : Of(e, entries[k], j)
    OBVIOUS
  <2>2. \E e \in Sent(U) : Of(e, entries[k], j)
    BY <1>5
  <2> QED
    BY <2>1, <2>2
<1> HIDE DEF m
<1>7. ASSUME NEW j \in J PROVE m[j] \in T
  <2>1. m[j].attempt = s[j].attempt /\ j \in 1..Len(s)
    BY <1>6 DEF Of
  <2> QED
    BY <2>1, <1>4, <1>6
<1>8. ASSUME NEW i \in J, NEW j \in J, m[i] = m[j] PROVE i = j
  <2>1. s[i].seq = s[j].seq
    BY <1>6, <1>8 DEF Of
  <2> QED
    BY <2>1, OnePlace
<1>9. ASSUME NEW e \in T PROVE \E j \in J : m[j] = e
  <2>1. PICK j \in 1..Len(s) : Of(e, entries[k], j)
    BY <1>4
  <2>2. e \in Sent(U) /\ e.attempt >= 2
    BY <1>4
  <2>3. j \in J
    BY <2>1, <2>2 DEF Of
  <2>4. m[j].seq = e.seq
    BY <1>6, <2>1, <2>3 DEF Of
  <2>5. m[j] = e
    BY <1>6, <2>2, <2>3, <2>4 DEF Sent, Numbered
  <2> QED
    BY <2>3, <2>5
<1>10. DOMAIN m = J
  BY DEF m
<1>11. m = [j \in J |-> m[j]]
  BY DEF m
<1> HIDE DEF J, T
<1>12. m \in [J -> T]
  BY <1>7, <1>11
<1>13. m \in Bijection(J, T)
  BY <1>8, <1>9, <1>12, Fun_IsBij
<1>14. ExistsBijection(J, T)
  BY <1>13 DEF ExistsBijection
<1>15. Cardinality(J) = Cardinality(T)
  BY <1>3, <1>14, FS_Bijection
<1> QED
  BY <1>3, <1>15 DEF T

(* An attempt is below the nearest first attempt of its endpoint.           *)
LEMMA HeadIs ==
  ASSUME NEW S, Numbered(S), NEW U \in SUBSET S, NEW entries, Wired(S, U, entries),
         NEW k \in 1..Len(entries), NEW j \in 1..Len(entries[k].attempts),
         NEW e \in Sent(U), e.seq = entries[k].attempts[j].seq
  PROVE  LET before == {f \in Sent(U) : f.endpoint = e.endpoint /\ f.seq < e.seq}
             head == entries[k].attempts[1].seq
         IN IF e.attempt = 1 \/ before = {} THEN head = e.seq
            ELSE head < e.seq /\ \A f \in before : f.attempt = 1 => f.seq <= head
<1> DEFINE before == {f \in Sent(U) : f.endpoint = e.endpoint /\ f.seq < e.seq}
           head == entries[k].attempts[1].seq
<1>0. WellPlaced(entries)
  BY Places
<1>1. /\ k \in Nat /\ j \in Nat /\ 1 \in 1..Len(entries[k].attempts) /\ head \in Nat
      /\ e.seq \in Nat /\ head <= e.seq
  BY <1>0 DEF WellPlaced
<1>2. Of(e, entries[k], j)
  <2>1. PICK x \in Sent(U) : Of(x, entries[k], j)
    BY DEF Wired, Filed
  <2>2. x = e
    BY <2>1 DEF Of, Sent, Numbered
  <2> QED
    BY <2>1, <2>2
<1>3. e.endpoint = entries[k].endpoint /\ e.attempt = entries[k].attempts[j].attempt
  BY <1>2 DEF Of
<1>4. e.attempt = 1 => j = 1
  <2>1. j > 1 => entries[k].attempts[j].attempt # 1
    BY DEF Wired, Headed
  <2> QED
    BY <2>1, <1>1, <1>3
<1>5. j # 1 => head < e.seq
  <2>1. j # 1 => 1 < j
    BY <1>1
  <2> QED
    BY <2>1, <1>1 DEF Wired, InTurn
<1>6. ASSUME NEW f \in before
      PROVE  \E l \in 1..Len(entries) : \E i \in 1..Len(entries[l].attempts) :
               /\ Of(f, entries[l], i) /\ entries[l].endpoint = entries[k].endpoint
               /\ l <= k /\ (l < k => f.seq < head)
  <2>1. f \in Sent(U) /\ f.endpoint = e.endpoint /\ f.seq < e.seq /\ f.seq \in Nat
    BY DEF Sent, Numbered
  <2>2. PICK l \in 1..Len(entries) : \E i \in 1..Len(entries[l].attempts) : Of(f, entries[l], i)
    BY <2>1 DEF Wired, Filed
  <2>3. PICK i \in 1..Len(entries[l].attempts) : Of(f, entries[l], i)
    BY <2>2
  <2>4. entries[l].endpoint = entries[k].endpoint /\ f.seq = entries[l].attempts[i].seq
    BY <2>1, <2>3, <1>3 DEF Of
  <2>5. l \in Nat
    BY <1>0 DEF WellPlaced
  <2>6. ~(k < l)
    <3>1. k < l => e.seq < f.seq
      BY <2>4, Apart
    <3> QED
      BY <3>1, <2>1, <1>1
  <2>7. l < k => f.seq < head
    BY <2>4, <1>1, Apart
  <2>8. l <= k
    BY <2>5, <2>6, <1>1
  <2> QED
    BY <2>3, <2>4, <2>7, <2>8
<1>7. before = {} => head = e.seq
  <2> SUFFICES ASSUME before = {}, head # e.seq PROVE FALSE
    OBVIOUS
  <2>1. PICK x \in Sent(U) : Of(x, entries[k], 1)
    BY <1>1 DEF Wired, Filed
  <2>2. x.endpoint = e.endpoint /\ x.seq = head
    BY <2>1, <1>3 DEF Of
  <2>3. x.seq < e.seq
    BY <2>2, <1>1
  <2> QED
    BY <2>2, <2>3
<1>8. ASSUME before # {}, e.attempt # 1 PROVE head < e.seq
  <2>1. PICK f \in before : TRUE
    BY <1>8
  <2>2. PICK l \in 1..Len(entries) : \E i \in 1..Len(entries[l].attempts) :
          /\ Of(f, entries[l], i) /\ entries[l].endpoint = entries[k].endpoint
          /\ l <= k /\ (l < k => f.seq < head)
    BY <1>6
  <2>3. PICK i \in 1..Len(entries[l].attempts) :
          /\ Of(f, entries[l], i) /\ entries[l].endpoint = entries[k].endpoint
          /\ l <= k /\ (l < k => f.seq < head)
    BY <2>2
  <2>4. l \in Nat /\ f.seq < e.seq /\ f.seq \in Nat /\ f.seq = entries[l].attempts[i].seq
        /\ entries[l].attempts[1].seq <= entries[l].attempts[i].seq
    BY <2>3, <1>0 DEF Of, WellPlaced, Sent, Numbered
  <2>5. CASE l = k
    BY <2>4, <2>5, <1>1
  <2>6. CASE l < k
    <3>1. j # 1
      BY <2>3, <2>6, <1>3, <1>8 DEF Wired, Headed
    <3> QED
      BY <3>1, <1>5
  <2> QED
    BY <2>3, <2>4, <2>5, <2>6, <1>1
<1>9. ASSUME NEW f \in before, f.attempt = 1 PROVE f.seq <= head
  <2>1. PICK l \in 1..Len(entries) : \E i \in 1..Len(entries[l].attempts) :
          /\ Of(f, entries[l], i) /\ entries[l].endpoint = entries[k].endpoint
          /\ l <= k /\ (l < k => f.seq < head)
    BY <1>6
  <2>2. PICK i \in 1..Len(entries[l].attempts) :
          /\ Of(f, entries[l], i) /\ entries[l].endpoint = entries[k].endpoint
          /\ l <= k /\ (l < k => f.seq < head)
    BY <2>1
  <2>3. /\ l \in Nat /\ i \in Nat /\ i >= 1 /\ f.seq \in Nat
        /\ f.seq = entries[l].attempts[i].seq /\ f.attempt = entries[l].attempts[i].attempt
    BY <2>2, <1>0 DEF Of, WellPlaced, Sent, Numbered
  <2>4. i = 1
    <3>1. i > 1 => entries[l].attempts[i].attempt # 1
      BY DEF Wired, Headed
    <3> QED
      BY <3>1, <2>3, <1>9
  <2>5. CASE l = k
    BY <2>3, <2>4, <2>5, <1>1
  <2>6. CASE l < k
    BY <2>2, <2>3, <2>6, <1>1
  <2> QED
    BY <2>2, <2>3, <2>5, <2>6, <1>1
<1>10. j = 1 => head = e.seq
  OBVIOUS
<1> HIDE DEF before, head
<1>11. IF e.attempt = 1 \/ before = {} THEN head = e.seq
       ELSE head < e.seq /\ \A f \in before : f.attempt = 1 => f.seq <= head
  BY <1>4, <1>7, <1>8, <1>9, <1>10
<1> QED
  BY <1>11 DEF before, head

(* Two lines that show backoffs show different ones, each its own.          *)
LEMMA BackoffsAre ==
  ASSUME NEW S, Numbered(S), NEW U \in SUBSET S, NEW entries, Wired(S, U, entries),
         NEW pending, Backed(U, entries, pending),
         NEW k \in 1..Len(entries), NEW i \in 1..Len(entries[k].attempts),
         entries[k].attempts[i].backoff # None
  PROVE  /\ \E b \in Backoffs(U) : Explains(b, entries[k], i)
         /\ \A l \in 1..Len(entries) : \A j \in 1..Len(entries[l].attempts) :
              <<k, i>> # <<l, j>> /\ entries[l].attempts[j].backoff # None =>
                \E b, c \in Backoffs(U) :
                  b # c /\ Explains(b, entries[k], i) /\ Explains(c, entries[l], j)
<1>1. PICK due, took : Due(U, pending, due) /\ Took(U, entries, due, took)
  BY DEF Backed
<1>2. /\ \A n \in DOMAIN took : took[n] \in Backoffs(U)
      /\ \A n, m \in DOMAIN took : took[n] = took[m] => n = m
      /\ \A l \in 1..Len(entries) : \A j \in 1..Len(entries[l].attempts) :
           entries[l].attempts[j].backoff # None =>
             /\ entries[l].attempts[j].seq \in DOMAIN took
             /\ Explains(took[entries[l].attempts[j].seq], entries[l], j)
  BY <1>1 DEF Took
<1>3. \E b \in Backoffs(U) : Explains(b, entries[k], i)
  BY <1>2
<1>4. ASSUME NEW l \in 1..Len(entries), NEW j \in 1..Len(entries[l].attempts),
             <<k, i>> # <<l, j>>, entries[l].attempts[j].backoff # None
      PROVE  \E b, c \in Backoffs(U) :
               b # c /\ Explains(b, entries[k], i) /\ Explains(c, entries[l], j)
  <2>1. entries[k].attempts[i].seq # entries[l].attempts[j].seq
    BY <1>4, OnePlace
  <2>2. took[entries[k].attempts[i].seq] # took[entries[l].attempts[j].seq]
    BY <2>1, <1>2, <1>4
  <2> QED
    BY <2>2, <1>2, <1>4
<1> QED
  BY <1>3, <1>4

(* A row ends with the last answer of its span.                             *)
LEMMA RowEnds ==
  ASSUME NEW S, Numbered(S), NEW U \in SUBSET S, NEW entries, Wired(S, U, entries),
         NEW k \in 1..Len(entries)
  PROVE  \E e \in Span(U, entries, k) :
           /\ e.status = Last(entries[k].attempts).status
           /\ \A f \in Span(U, entries, k) : f.seq <= e.seq
<1> DEFINE s == entries[k].attempts
           n == Len(s)
<1>0. WellPlaced(entries)
  BY Places
<1>1. n \in 1..n /\ n \in Nat /\ Last(s) = s[n] /\ \A j \in 1..n : s[j].seq \in Nat
  BY <1>0 DEF WellPlaced
<1>2. PICK e \in Sent(U) : Of(e, entries[k], n)
  BY <1>1 DEF Wired, Filed
<1>3. Span(U, entries, k) = {f \in Sent(U) : \E j \in 1..n : Of(f, entries[k], j)}
  BY SpanIs
<1>4. e \in Span(U, entries, k) /\ e.status = Last(s).status /\ e.seq = s[n].seq
  BY <1>1, <1>2, <1>3 DEF Of
<1>5. ASSUME NEW f \in Span(U, entries, k) PROVE f.seq <= e.seq
  <2>1. PICK j \in 1..n : Of(f, entries[k], j)
    BY <1>3
  <2>2. f.seq = s[j].seq /\ f.seq \in Nat /\ e.seq \in Nat
    BY <2>1, <1>1, <1>4 DEF Of
  <2>3. j < n => s[j].seq < s[n].seq
    BY <1>1 DEF Wired, InTurn
  <2>4. j = n \/ j < n
    BY <1>1
  <2> QED
    BY <2>2, <2>3, <2>4, <1>4
<1> QED
  BY <1>4, <1>5

(* The entries and rows of any events of a run.                             *)
LEMMA WireLogIs ==
  ASSUME NEW S, Numbered(S), \A e \in Sent(S) : e.attempt \in Nat, NEW q \in Seq(S),
         NEW entries, Wired(S, ToSet(q), entries), NEW pending, Backed(ToSet(q), entries, pending),
         NEW rows, DOMAIN rows = DOMAIN entries,
         \A k \in DOMAIN entries :
           /\ rows[k].id = entries[k].attempts[1].seq /\ rows[k].endpoint = entries[k].endpoint
           /\ rows[k].status = Last(entries[k].attempts).status
           /\ rows[k].retries = Retries(entries[k].attempts)
  PROVE  WireLogOf(q, entries, rows)
<1> DEFINE sent == {e \in ToSet(q) : e.type = "exchange"}
           backoffs == {e \in ToSet(q) : e.type = "retry"}
           places == UNION {{k} \X DOMAIN entries[k].attempts : k \in DOMAIN entries}
           line(p) == entries[p[1]].attempts[p[2]]
           explains(b, p) == /\ b.endpoint \in {entries[p[1]].endpoint, "?"}
                             /\ b.seq < line(p).seq /\ b.attempt = line(p).attempt
                             /\ b.delay = line(p).backoff
           before(e) == {f \in sent : f.endpoint = e.endpoint /\ f.seq < e.seq}
           span(k) == {e \in sent : /\ e.endpoint = rows[k].endpoint /\ e.seq >= rows[k].id
                                    /\ \A l \in DOMAIN rows :
                                         rows[l].endpoint = e.endpoint /\ rows[l].id > rows[k].id =>
                                           rows[l].id > e.seq}
           U == ToSet(q)
<1>1. U \in SUBSET S
  BY DEF ToSet
<1>2. sent = Sent(U) /\ backoffs = Backoffs(U)
  BY DEF Sent, Backoffs
<1>3. WellPlaced(entries)
  BY <1>1, Places
<1>4. /\ DOMAIN entries = 1..Len(entries)
      /\ \A k \in 1..Len(entries) : DOMAIN entries[k].attempts = 1..Len(entries[k].attempts)
  BY <1>3 DEF WellPlaced
<1>5. ASSUME NEW p \in places
      PROVE  /\ p = <<p[1], p[2]>>
             /\ p[1] \in 1..Len(entries) /\ p[2] \in 1..Len(entries[p[1]].attempts)
  <2>1. PICK k \in DOMAIN entries : p \in {k} \X DOMAIN entries[k].attempts
    OBVIOUS
  <2>2. p = <<p[1], p[2]>> /\ p[1] = k /\ p[2] \in DOMAIN entries[k].attempts
    BY <2>1
  <2> QED
    BY <2>2, <1>4
<1>6. ASSUME NEW k \in 1..Len(entries), NEW j \in 1..Len(entries[k].attempts)
      PROVE  <<k, j>> \in places /\ line(<<k, j>>) = entries[k].attempts[j]
  <2>1. <<k, j>> \in {k} \X DOMAIN entries[k].attempts
    BY <1>4
  <2> QED
    BY <2>1, <1>4
<1>7. ASSUME NEW p \in places, NEW b PROVE explains(b, p) <=> Explains(b, entries[p[1]], p[2])
  BY DEF Explains
<1> HIDE DEF places
<1>8. {line(p).seq : p \in places} = {e.seq : e \in sent}
  <2>1. ASSUME NEW p \in places PROVE \E e \in sent : e.seq = line(p).seq
    <3>1. PICK e \in Sent(U) : Of(e, entries[p[1]], p[2])
      BY <1>5 DEF Wired, Filed
    <3> QED
      BY <3>1, <1>2 DEF Of
  <2>2. ASSUME NEW e \in sent PROVE \E p \in places : line(p).seq = e.seq
    <3>1. PICK k \in 1..Len(entries) : \E j \in 1..Len(entries[k].attempts) : Of(e, entries[k], j)
      BY <1>2 DEF Wired, Filed
    <3>2. PICK j \in 1..Len(entries[k].attempts) : Of(e, entries[k], j)
      BY <3>1
    <3>3. <<k, j>> \in places /\ line(<<k, j>>).seq = e.seq
      BY <3>2, <1>6 DEF Of
    <3> QED
      BY <3>3
  <2> HIDE DEF line, sent
  <2> QED
    BY <2>1, <2>2
<1>9. ASSUME NEW p \in places, NEW r \in places, line(p).seq = line(r).seq PROVE p = r
  <2>1. ASSUME NEW k \in 1..Len(entries), NEW l \in 1..Len(entries),
               NEW i \in 1..Len(entries[k].attempts), NEW j \in 1..Len(entries[l].attempts),
               entries[k].attempts[i].seq = entries[l].attempts[j].seq
        PROVE  k = l /\ i = j
    BY <1>1, <2>1, OnePlace
  <2> DEFINE k1 == p[1]
             j1 == p[2]
             k2 == r[1]
             j2 == r[2]
  <2>2. /\ k1 \in 1..Len(entries) /\ j1 \in 1..Len(entries[k1].attempts)
        /\ k2 \in 1..Len(entries) /\ j2 \in 1..Len(entries[k2].attempts)
        /\ entries[k1].attempts[j1].seq = entries[k2].attempts[j2].seq
    BY <1>5, <1>9
  <2>3. k1 = k2 /\ j1 = j2
    <3> HIDE DEF k1, j1, k2, j2, line
    <3> QED
      BY <2>1, <2>2
  <2> QED
    BY <2>3, <1>5
<1>10. ASSUME NEW e \in sent, NEW p \in places, e.seq = line(p).seq
       PROVE  LET head == entries[p[1]].attempts[1].seq
              IN IF e.attempt = 1 \/ before(e) = {} THEN head = e.seq
                 ELSE /\ head < e.seq
                      /\ \A f \in before(e) : f.attempt = 1 => f.seq <= head
  <2> DEFINE head == entries[p[1]].attempts[1].seq
             earlier == {f \in Sent(U) : f.endpoint = e.endpoint /\ f.seq < e.seq}
  <2>1. e \in Sent(U) /\ before(e) = earlier
    BY <1>2
  <2>2. /\ p[1] \in 1..Len(entries) /\ p[2] \in 1..Len(entries[p[1]].attempts)
        /\ e.seq = entries[p[1]].attempts[p[2]].seq
    BY <1>5, <1>10
  <2>3. IF e.attempt = 1 \/ earlier = {} THEN head = e.seq
        ELSE head < e.seq /\ \A f \in earlier : f.attempt = 1 => f.seq <= head
    <3>1. ASSUME NEW k \in 1..Len(entries), NEW j \in 1..Len(entries[k].attempts),
                 e.seq = entries[k].attempts[j].seq
          PROVE  IF e.attempt = 1 \/ earlier = {} THEN entries[k].attempts[1].seq = e.seq
                 ELSE /\ entries[k].attempts[1].seq < e.seq
                      /\ \A f \in earlier : f.attempt = 1 => f.seq <= entries[k].attempts[1].seq
      BY <2>1, <3>1, <1>1, HeadIs
    <3> HIDE DEF sent, before, line, earlier
    <3> QED
      BY <2>2, <3>1
  <2> HIDE DEF sent, before, earlier, head
  <2>4. IF e.attempt = 1 \/ before(e) = {} THEN head = e.seq
        ELSE head < e.seq /\ \A f \in before(e) : f.attempt = 1 => f.seq <= head
    BY <2>1, <2>3
  <2> QED
    BY <2>4 DEF head
<1>11. ASSUME NEW p \in places, line(p).backoff # None PROVE \E b \in backoffs : explains(b, p)
  <2>1. \E b \in Backoffs(U) : Explains(b, entries[p[1]], p[2])
    BY <1>1, <1>5, <1>11, BackoffsAre
  <2> HIDE DEF backoffs, explains
  <2> QED
    BY <2>1, <1>2, <1>7
<1>12. ASSUME NEW p \in places, NEW r \in places, p # r, line(p).backoff # None,
              line(r).backoff # None
       PROVE  \E b, c \in backoffs : b # c /\ explains(b, p) /\ explains(c, r)
  <2>1. <<p[1], p[2]>> # <<r[1], r[2]>>
    BY <1>5, <1>12
  <2>2. \E b, c \in Backoffs(U) :
          b # c /\ Explains(b, entries[p[1]], p[2]) /\ Explains(c, entries[r[1]], r[2])
    BY <2>1, <1>1, <1>5, <1>12, BackoffsAre
  <2> HIDE DEF backoffs, explains
  <2> QED
    BY <2>2, <1>2, <1>7
<1>13. ASSUME NEW k \in DOMAIN rows
       PROVE  /\ \E e \in span(k) : e.status = rows[k].status /\ \A f \in span(k) : f.seq <= e.seq
              /\ Len(rows[k].retries) = Cardinality({e \in span(k) : e.attempt >= 2})
  <2>0. /\ DOMAIN rows = 1..Len(entries) /\ k \in 1..Len(entries)
        /\ \A l \in 1..Len(entries) :
             rows[l].id = entries[l].attempts[1].seq /\ rows[l].endpoint = entries[l].endpoint
    BY <1>4
  <2>1. span(k) = Span(U, entries, k)
    <3>1. ASSUME NEW e \in Sent(U) PROVE e \in span(k) <=> e \in Span(U, entries, k)
      BY <1>2, <2>0 DEF Span
    <3>2. span(k) \subseteq Sent(U) /\ Span(U, entries, k) \subseteq Sent(U)
      BY <1>2 DEF Span
    <3> HIDE DEF span
    <3> QED
      BY <3>1, <3>2
  <2> HIDE DEF span
  <2>2. k \in 1..Len(entries) /\ rows[k].status = Last(entries[k].attempts).status
        /\ rows[k].retries = Retries(entries[k].attempts)
    BY <1>4
  <2> QED
    BY <2>1, <2>2, <1>1, RowEnds, RetriesOfSpan
<1> HIDE DEF sent, backoffs, line, explains, before, span
<1>14. /\ {line(p).seq : p \in places} = {e.seq : e \in sent}
       /\ \A p, r \in places : line(p).seq = line(r).seq => p = r
       /\ \A e \in sent, p \in places :
            e.seq = line(p).seq =>
              LET head == entries[p[1]].attempts[1].seq
              IN IF e.attempt = 1 \/ before(e) = {} THEN head = e.seq
                 ELSE /\ head < e.seq
                      /\ \A f \in before(e) : f.attempt = 1 => f.seq <= head
       /\ \A p \in places : line(p).backoff # None => \E b \in backoffs : explains(b, p)
       /\ \A p, r \in places :
            p # r /\ line(p).backoff # None /\ line(r).backoff # None =>
              \E b, c \in backoffs : b # c /\ explains(b, p) /\ explains(c, r)
       /\ \A k \in DOMAIN rows :
            /\ \E e \in span(k) : e.status = rows[k].status /\ \A f \in span(k) : f.seq <= e.seq
            /\ Len(rows[k].retries) = Cardinality({e \in span(k) : e.attempt >= 2})
  BY <1>8, <1>9, <1>10, <1>11, <1>12, <1>13
<1> QED
  BY <1>14 DEF WireLogOf, sent, backoffs, places, line, explains, before, span

(* The wire log of every run has each attempt once, retries below the       *)
(* exchange they retry, backoffs with the attempts they were scheduled for, *)
(* and rows that end with the last answer (eventStore.ts, deriveRun;        *)
(* projections.ts, projectExchanges).                                       *)
THEOREM WireLogIsFaithful == Spec => []WireLogFaithful
<1>1. Typed /\ Held => WireLogFaithful
  <2> SUFFICES ASSUME Typed, Held, NEW r \in Materialized(states)
               PROVE  WireLogOf(raw[r], states[r].exchanges, WireRows(states[r]))
    BY DEF WireLogFaithful
  <2> DEFINE S == ToSet(log)
             q == raw[r]
             run == states[r]
             wire == WireOf(q)
             rows == WireRows(run)
  <2>1. Sorted(raw, S) /\ states = DerivedFrom(raw)
    BY SortedRaw
  <2>2. r \in Runs /\ run = DeriveRun(q) /\ run # None
    BY <2>1 DEF DerivedFrom, Materialized
  <2>3. Numbered(S) /\ q \in Seq(S) /\ Ordered(q)
    <3>1. Numbered(S) /\ q \in Seq(S)
      BY <2>1, <2>2, LogFacts DEF Sorted, Typed
    <3>2. Ordered(q)
      BY <2>2 DEF Held, ViewOrderFree, Ordered
    <3> QED
      BY <3>1, <3>2
  <2>4. \A e \in Sent(S) : e.attempt \in Nat
    BY DashboardAssumption DEF Sent, Typed
  <2>5. run.exchanges = wire.entries
    <3>1. PICK start : run = RunState(q, start)
      BY <2>2 DEF DeriveRun
    <3>2. run.exchanges = Exchanges(q)
      BY <3>1 DEF RunState
    <3> QED
      BY <3>2 DEF Exchanges, WireOf
  <2> HIDE DEF S, q, run
  <2>6. Wired(S, ToSet(q), wire.entries) /\ Backed(ToSet(q), wire.entries, wire.pending)
    BY <2>3, WireIs DEF Numbered
  <2> DEFINE entries == wire.entries
  <2>7. rows = [k \in DOMAIN entries |->
                  [id |-> entries[k].attempts[1].seq, endpoint |-> entries[k].endpoint,
                   status |-> Last(entries[k].attempts).status,
                   retries |-> Retries(entries[k].attempts)]]
    BY <2>5 DEF WireRows
  <2> HIDE DEF rows, wire
  <2>8. /\ DOMAIN rows = DOMAIN entries
        /\ \A k \in DOMAIN entries :
             /\ rows[k].id = entries[k].attempts[1].seq /\ rows[k].endpoint = entries[k].endpoint
             /\ rows[k].status = Last(entries[k].attempts).status
             /\ rows[k].retries = Retries(entries[k].attempts)
    BY <2>7
  <2>9. WireLogOf(q, entries, rows)
    <3> HIDE DEF entries
    <3> QED
      BY <2>3, <2>4, <2>6, <2>8, WireLogIs DEF entries
  <2> QED
    BY <2>5, <2>9 DEF q, run, rows
<1>2. Init => Typed /\ Held
  BY HeldInit
<1>3. Typed /\ Held /\ [Next]_vars => (Typed /\ Held)'
  BY HeldStep
<1> QED
  BY <1>1, <1>2, <1>3, PTL DEF Spec

=============================================================================
