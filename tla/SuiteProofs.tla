----------------------------- MODULE SuiteProofs ------------------------------
(***************************************************************************)
(* Proofs about Suite: a report claims no verdict that was not reached,    *)
(* what a server reports only moves on, an interruption is an early one,   *)
(* and exit code 0 is earned - for any scenarios, any selections and any   *)
(* number of batches.                                                      *)
(***************************************************************************)
EXTENDS Suite, SequenceTheorems, TLAPS

States == {"idle", "running"} \cup Verdicts

(* The runs of sc and their states. *)
Shape(sc, st) ==
  sc \in Seq(Scenarios) /\ st \in Seq(States) /\ Len(st) = Len(sc)

(* The events ev tell what happened: nothing that did not, and all that did. *)
Told(ev, sc, st) ==
  /\ \A e \in ev :
       /\ e.run \in DOMAIN sc
       /\ \/ e = Started(e.run, sc[e.run]) /\ st[e.run] # "idle"
          \/ e = Completed(e.run, st[e.run]) /\ st[e.run] \in Verdicts
  /\ \A r \in DOMAIN sc : st[r] # "idle" => Started(r, sc[r]) \in ev
  /\ \A r \in DOMAIN sc : st[r] \in Verdicts => Completed(r, st[r]) \in ev

(* A report has one entry for each scenario it names, and events for it. *)
Founded(rep, ev, sc) ==
  /\ \A x \in rep.scenarios :
       /\ x \in [scenario : Scenarios, run : Nat, status : Verdicts \cup {"partial"}]
       /\ x.run \in DOMAIN sc /\ x.scenario = sc[x.run]
       /\ Started(x.run, x.scenario) \in ev
       /\ x.status \in Verdicts => Completed(x.run, x.status) \in ev
  /\ \A x, y \in rep.scenarios : x.scenario = y.scenario => x = y

-----------------------------------------------------------------------------
(* Lemmas about batches and events, of any state. *)

(* The events of a report are those of its runs. *)
LEMMA EventFields ==
  ASSUME NEW r, NEW s
  PROVE  /\ Started(r, s).kind = "run.started" /\ Completed(r, s).kind = "run.completed"
         /\ Started(r, s).run = r /\ Completed(r, s).run = r
         /\ Started(r, s).of = s /\ Completed(r, s).of = s
  BY DEF Started, Completed

(* The states of runs that are launched, those in `now' at once. *)
Opening(sel, now) == [i \in DOMAIN sel |-> IF i \in now THEN "running" ELSE "idle"]

LEMMA OpeningStates ==
  ASSUME NEW sel \in Seq(Scenarios), NEW now
  PROVE  /\ Opening(sel, now) \in Seq(States) /\ Len(Opening(sel, now)) = Len(sel)
         /\ \A i \in DOMAIN sel : Opening(sel, now)[i] = IF i \in now THEN "running" ELSE "idle"
<1>1. Len(sel) \in Nat /\ DOMAIN sel = 1..Len(sel)
  BY LenProperties
<1>2. Opening(sel, now) \in [1..Len(sel) -> States]
  BY <1>1 DEF Opening, States
<1>3. \A i \in DOMAIN sel : Opening(sel, now)[i] = IF i \in now THEN "running" ELSE "idle"
  BY DEF Opening
<1>. QED BY <1>1, <1>2, <1>3

(* sc2 and st2 are sc and st with the runs of sel, in states fresh, after them. *)
Extended(sc, st, sel, fresh, sc2, st2) ==
  /\ Shape(sc2, st2)
  /\ \A r \in DOMAIN sc : r \in DOMAIN sc2 /\ sc2[r] = sc[r] /\ st2[r] = st[r]
  /\ \A i \in DOMAIN sel : /\ Len(sc) + i \in DOMAIN sc2
                           /\ sc2[Len(sc) + i] = sel[i]
                           /\ st2[Len(sc) + i] = fresh[i]
  /\ \A r \in DOMAIN sc2 : r \in DOMAIN sc \/ \E i \in DOMAIN sel : r = Len(sc) + i

(* What follows the first part of a concatenation is the second part. *)
LEMMA SecondPart ==
  ASSUME NEW S, NEW a \in Seq(S), NEW b \in Seq(S), NEW i \in DOMAIN b
  PROVE  (a \o b)[Len(a) + i] = b[i]
<1>1. Len(a) \in Nat /\ Len(b) \in Nat /\ i \in 1..Len(b)
  BY LenProperties
<1>2. Len(a) + i \in 1..(Len(a) + Len(b)) /\ ~(Len(a) + i <= Len(a)) /\ Len(a) + i - Len(a) = i
  BY <1>1
<1>. QED BY <1>2, ConcatProperties

(* Runs appended to a batch: the old ones keep their place. *)
LEMMA Appended ==
  ASSUME NEW sc, NEW st, Shape(sc, st), NEW sel \in Seq(Scenarios),
         NEW fresh \in Seq(States), Len(fresh) = Len(sel)
  PROVE  Extended(sc, st, sel, fresh, sc \o sel, st \o fresh)
<1>2. /\ Len(sc) \in Nat /\ Len(sel) \in Nat /\ Len(st) = Len(sc)
      /\ DOMAIN sc = 1..Len(sc) /\ DOMAIN sel = 1..Len(sel)
  BY LenProperties DEF Shape
<1>4. /\ sc \o sel \in Seq(Scenarios) /\ Len(sc \o sel) = Len(sc) + Len(sel)
      /\ \A i \in 1..(Len(sc) + Len(sel)) :
           (sc \o sel)[i] = IF i <= Len(sc) THEN sc[i] ELSE sel[i - Len(sc)]
  BY ConcatProperties DEF Shape
<1>5. /\ st \o fresh \in Seq(States) /\ Len(st \o fresh) = Len(sc) + Len(sel)
      /\ \A i \in 1..(Len(sc) + Len(sel)) :
           (st \o fresh)[i] = IF i <= Len(sc) THEN st[i] ELSE fresh[i - Len(sc)]
  <2>1. st \in Seq(States) /\ Len(st) = Len(sc)
    BY DEF Shape
  <2>2. /\ st \o fresh \in Seq(States) /\ Len(st \o fresh) = Len(st) + Len(fresh)
        /\ \A i \in 1..(Len(st) + Len(fresh)) :
             (st \o fresh)[i] = IF i <= Len(st) THEN st[i] ELSE fresh[i - Len(st)]
    BY <2>1, ConcatProperties, Zenon
  <2>. QED BY <2>1, <2>2
<1>6. DOMAIN (sc \o sel) = 1..(Len(sc) + Len(sel))
  BY <1>4, LenProperties
<1>7. Shape(sc \o sel, st \o fresh)
  BY <1>4, <1>5 DEF Shape
<1>8. \A r \in DOMAIN sc : /\ r \in DOMAIN (sc \o sel)
                           /\ (sc \o sel)[r] = sc[r] /\ (st \o fresh)[r] = st[r]
  BY <1>2, <1>4, <1>5, <1>6
<1>9. ASSUME NEW i \in DOMAIN sel
      PROVE  /\ Len(sc) + i \in DOMAIN (sc \o sel)
             /\ (sc \o sel)[Len(sc) + i] = sel[i]
             /\ (st \o fresh)[Len(sc) + i] = fresh[i]
  <2>1. /\ Len(sc) + i \in 1..(Len(sc) + Len(sel)) /\ ~(Len(sc) + i <= Len(sc))
        /\ Len(sc) + i - Len(sc) = i
    BY <1>2
  <2>2. (sc \o sel)[Len(sc) + i] = sel[i]
    BY SecondPart DEF Shape
  <2>3. i \in DOMAIN fresh /\ Len(st) = Len(sc) /\ st \in Seq(States)
    BY <1>2, LenProperties DEF Shape
  <2>4. (st \o fresh)[Len(st) + i] = fresh[i]
    BY <2>3, SecondPart
  <2>5. Len(sc) + i \in DOMAIN (sc \o sel)
    BY <1>6, <2>1
  <2>. QED BY <2>2, <2>3, <2>4, <2>5
<1>10. ASSUME NEW r \in DOMAIN (sc \o sel), r \notin DOMAIN sc
       PROVE  \E i \in DOMAIN sel : r = Len(sc) + i
  <2>1. r - Len(sc) \in DOMAIN sel /\ r = Len(sc) + (r - Len(sc))
    BY <1>2, <1>6, <1>10
  <2>. QED BY <2>1
<1>. QED BY <1>7, <1>8, <1>9, <1>10 DEF Extended

(* A run that gets the next state of its life. *)
LEMMA Advanced ==
  ASSUME NEW sc, NEW st, Shape(sc, st), NEW r \in DOMAIN sc, NEW s \in States
  PROVE  /\ Shape(sc, [st EXCEPT ![r] = s])
         /\ [st EXCEPT ![r] = s][r] = s
         /\ \A q \in DOMAIN sc : q # r => [st EXCEPT ![r] = s][q] = st[q]
  BY DEF Shape, States

(* A run that starts, or ends, and says so. *)
LEMMA ToldOfStart ==
  ASSUME NEW ev, NEW sc, NEW st, Shape(sc, st), Told(ev, sc, st),
         NEW r \in DOMAIN sc, st[r] = "idle", NEW s, s = "running"
  PROVE  Told(ev \cup {Started(r, sc[r])}, sc, [st EXCEPT ![r] = s])
<1> DEFINE e == Started(r, sc[r])
           st2 == [st EXCEPT ![r] = s]
<1>1. st2[r] = "running" /\ \A q \in DOMAIN sc : q # r => st2[q] = st[q]
  BY DEF Shape
<1>2. e.run = r /\ "running" # "idle" /\ "running" \notin Verdicts /\ "idle" \notin Verdicts
  BY EventFields DEF Verdicts
<1>3. \A f \in ev : f.run # r
  BY <1>2 DEF Told
<1>4. e = Started(e.run, sc[e.run])
  BY <1>2
<1> HIDE DEF st2, e
<1>5. ASSUME NEW f \in ev \cup {e}
      PROVE  /\ f.run \in DOMAIN sc
             /\ \/ f = Started(f.run, sc[f.run]) /\ st2[f.run] # "idle"
                \/ f = Completed(f.run, st2[f.run]) /\ st2[f.run] \in Verdicts
  <2>1. CASE f \in ev
    BY <1>1, <1>3, <2>1 DEF Told
  <2>2. CASE f = e
    BY <1>1, <1>2, <1>4, <2>2
  <2>. QED BY <2>1, <2>2
<1>6. \A q \in DOMAIN sc : st2[q] # "idle" => Started(q, sc[q]) \in ev \cup {e}
  BY <1>1, <1>2, <1>4 DEF Told
<1>7. \A q \in DOMAIN sc : st2[q] \in Verdicts => Completed(q, st2[q]) \in ev \cup {e}
  BY <1>1, <1>2 DEF Told
<1>. QED BY <1>5, <1>6, <1>7 DEF Told, e, st2

LEMMA ToldOfEnd ==
  ASSUME NEW ev, NEW sc, NEW st, Shape(sc, st), Told(ev, sc, st),
         NEW r \in DOMAIN sc, st[r] = "running", NEW v \in Verdicts
  PROVE  Told(ev \cup {Completed(r, v)}, sc, [st EXCEPT ![r] = v])
<1> DEFINE e == Completed(r, v)
           st2 == [st EXCEPT ![r] = v]
<1>1. st2[r] = v /\ \A q \in DOMAIN sc : q # r => st2[q] = st[q]
  BY DEF Shape
<1>2. e.run = r /\ "running" \notin Verdicts /\ v # "idle"
  BY EventFields DEF Verdicts
<1>3. \A f \in ev : f.run = r => f = Started(r, sc[r])
  BY <1>2 DEF Told
<1>4. Started(r, sc[r]) \in ev
  BY <1>2 DEF Told
<1> HIDE DEF st2
<1>5. ASSUME NEW f \in ev \cup {e}
      PROVE  /\ f.run \in DOMAIN sc
             /\ \/ f = Started(f.run, sc[f.run]) /\ st2[f.run] # "idle"
                \/ f = Completed(f.run, st2[f.run]) /\ st2[f.run] \in Verdicts
  <2>1. CASE f \in ev /\ f.run = r
    BY <1>1, <1>2, <1>3, <2>1
  <2>2. CASE f \in ev /\ f.run # r
    BY <1>1, <2>2 DEF Told
  <2>3. CASE f = e
    BY <1>1, <1>2, <2>3
  <2>. QED BY <2>1, <2>2, <2>3
<1>6. \A q \in DOMAIN sc : st2[q] # "idle" => Started(q, sc[q]) \in ev \cup {e}
  BY <1>1, <1>4 DEF Told
<1>7. \A q \in DOMAIN sc : st2[q] \in Verdicts => Completed(q, st2[q]) \in ev \cup {e}
  BY <1>1 DEF Told
<1>. QED BY <1>5, <1>6, <1>7 DEF Told, st2

(* More events and more runs take nothing from what a report rests on. *)
LEMMA FoundedStays ==
  ASSUME NEW rep, NEW ev, NEW sc, Founded(rep, ev, sc), NEW ev2, ev \subseteq ev2,
         NEW sc2, \A r \in DOMAIN sc : r \in DOMAIN sc2 /\ sc2[r] = sc[r]
  PROVE  Founded(rep, ev2, sc2)
  BY DEF Founded

(* A report that is up to date has the latest run of each scenario, with the *)
(* verdict of that run, and leaves out none that is the only one.            *)
Current(rep, ev, sc, st) ==
  /\ Founded(rep, ev, sc)
  /\ \A x \in rep.scenarios :
       /\ \A r \in DOMAIN sc : Started(r, x.scenario) \in ev => r <= x.run
       /\ st[x.run] \in Verdicts => x.status = st[x.run]
  /\ \A r \in DOMAIN sc :
       (st[r] # "idle" /\ \A q \in DOMAIN sc : sc[q] = sc[r] => q = r) =>
         \E x \in rep.scenarios : x.run = r

(* The report of what was told is up to date. *)
LEMMA Built ==
  ASSUME NEW ev, NEW sc, NEW st, Shape(sc, st), Told(ev, sc, st)
  PROVE  Current(BuildReport(ev), ev, sc, st)
<1> DEFINE entries == BuildReport(ev).scenarios
<1>1. entries = {[scenario |-> e.of, run |-> e.run, status |-> StatusOf(e.run, ev)] :
                   e \in Latest(ev)}
  BY DEF BuildReport
<1> HIDE DEF entries
<1>2. DOMAIN sc = 1..Len(sc) /\ Len(sc) \in Nat /\ \A r \in DOMAIN sc : sc[r] \in Scenarios
  BY LenProperties DEF Shape
<1>3. ASSUME NEW e \in Latest(ev)
      PROVE  /\ e.run \in DOMAIN sc /\ e.of = sc[e.run]
             /\ e = Started(e.run, sc[e.run]) /\ e \in ev
             /\ \A f \in ev : f.kind = "run.started" /\ f.of = e.of => f.run <= e.run
  <2>1. e \in ev /\ e.kind = "run.started"
    BY DEF Latest, Buckets
  <2>2. e.run \in DOMAIN sc /\ e = Started(e.run, sc[e.run])
    <3>1. e # Completed(e.run, st[e.run])
      BY <2>1, EventFields
    <3>. QED BY <2>1, <3>1 DEF Told
  <2>3. e.of = sc[e.run]
    BY <2>2, EventFields
  <2>. QED BY <2>1, <2>2, <2>3 DEF Latest, Buckets
<1>4. ASSUME NEW r \in DOMAIN sc
      PROVE  /\ StatusOf(r, ev) \in Verdicts \cup {"partial"}
             /\ StatusOf(r, ev) \in Verdicts => Completed(r, StatusOf(r, ev)) \in ev
             /\ st[r] \in Verdicts => StatusOf(r, ev) = st[r]
  <2>1. ASSUME NEW v \in Verdicts, Completed(r, v) \in ev PROVE st[r] = v
    <3>1. Completed(r, v) = Completed(r, st[r])
      <4>1. Completed(r, v) # Started(r, sc[r])
        BY EventFields
      <4>2. Completed(r, v).run = r
        BY EventFields
      <4>. QED BY <2>1, <4>1, <4>2 DEF Told
    <3>. QED BY <3>1, EventFields
  <2>2. CASE \E v \in Verdicts : Completed(r, v) \in ev
    <3>1. StatusOf(r, ev) \in Verdicts /\ Completed(r, StatusOf(r, ev)) \in ev
      BY <2>2 DEF StatusOf
    <3>. QED BY <2>1, <3>1
  <2>3. CASE ~\E v \in Verdicts : Completed(r, v) \in ev
    <3>1. StatusOf(r, ev) = "partial" /\ "partial" \notin Verdicts
      BY <2>3 DEF StatusOf, Verdicts
    <3>2. st[r] \notin Verdicts
      BY <2>3 DEF Told
    <3>. QED BY <3>1, <3>2
  <2>. QED BY <2>2, <2>3
<1>5. ASSUME NEW x \in entries
      PROVE  \E e \in Latest(ev) : /\ x = [scenario |-> e.of, run |-> e.run, status |-> StatusOf(e.run, ev)]
                                   /\ x.scenario = e.of /\ x.run = e.run
                                   /\ x.status = StatusOf(e.run, ev)
  BY <1>1
<1>6. ASSUME NEW x \in entries
      PROVE  /\ x \in [scenario : Scenarios, run : Nat, status : Verdicts \cup {"partial"}]
             /\ x.run \in DOMAIN sc /\ x.scenario = sc[x.run]
             /\ Started(x.run, x.scenario) \in ev
             /\ x.status \in Verdicts => Completed(x.run, x.status) \in ev
             /\ \A r \in DOMAIN sc : Started(r, x.scenario) \in ev => r <= x.run
             /\ st[x.run] \in Verdicts => x.status = st[x.run]
             /\ x.status = StatusOf(x.run, ev)
  <2>1. PICK e \in Latest(ev) :
          /\ x = [scenario |-> e.of, run |-> e.run, status |-> StatusOf(e.run, ev)]
          /\ x.scenario = e.of /\ x.run = e.run /\ x.status = StatusOf(e.run, ev)
    BY <1>5
  <2>2. x \in [scenario : Scenarios, run : Nat, status : Verdicts \cup {"partial"}]
    <3>1. e.of \in Scenarios /\ e.run \in Nat /\ StatusOf(e.run, ev) \in Verdicts \cup {"partial"}
      BY <1>2, <1>3, <1>4
    <3>. QED BY <2>1, <3>1
  <2>3. \A r \in DOMAIN sc : Started(r, x.scenario) \in ev => r <= x.run
    BY <1>3, <2>1, EventFields
  <2>. QED BY <1>3, <1>4, <2>1, <2>2, <2>3
<1>7. ASSUME NEW x \in entries, NEW y \in entries, x.scenario = y.scenario
      PROVE  x = y
  <2>1. x.run = y.run
    <3>1. x.run \in Nat /\ y.run \in Nat /\ x.run <= y.run /\ y.run <= x.run
      BY <1>2, <1>6, <1>7
    <3>. QED BY <3>1
  <2>2. x.status = y.status
    BY <1>6, <2>1
  <2>. QED BY <1>5, <1>7, <2>1, <2>2
<1>8. ASSUME NEW r \in DOMAIN sc, st[r] # "idle", \A q \in DOMAIN sc : sc[q] = sc[r] => q = r
      PROVE  \E x \in entries : x.run = r
  <2> DEFINE e == Started(r, sc[r])
  <2>1. e \in ev /\ e.run = r /\ e.of = sc[r] /\ e.kind = "run.started"
    BY <1>8, EventFields DEF Told
  <2>2. ASSUME NEW f \in ev, f.kind = "run.started", f.of = sc[r] PROVE f.run = r
    <3>1. f.run \in DOMAIN sc /\ f = Started(f.run, sc[f.run])
      <4>1. f # Completed(f.run, st[f.run])
        BY <2>2, EventFields
      <4>. QED BY <4>1 DEF Told
    <3>2. sc[f.run] = sc[r]
      BY <2>2, <3>1, EventFields
    <3>. QED BY <1>8, <3>1, <3>2
  <2> HIDE DEF e
  <2>3. e \in Latest(ev)
    <3>1. \A f \in Buckets(ev) : f.of = e.of => f.run <= e.run
      BY <1>2, <2>1, <2>2 DEF Buckets
    <3>. QED BY <2>1, <3>1 DEF Latest, Buckets
  <2> DEFINE x == [scenario |-> e.of, run |-> e.run, status |-> StatusOf(e.run, ev)]
  <2>4. x \in entries /\ x.run = r
    BY <1>1, <2>1, <2>3
  <2>. QED BY <2>4
<1>. QED BY <1>6, <1>7, <1>8 DEF Founded, Current, entries

(* A later report has an entry of the same or a later run, and never another *)
(* verdict of the same run.                                                  *)
LEMMA LaterReport ==
  ASSUME NEW sc, NEW st, NEW ev, Shape(sc, st), Told(ev, sc, st), NEW rep, Founded(rep, ev, sc),
         NEW x \in rep.scenarios, NEW y \in BuildReport(ev).scenarios, x.scenario = y.scenario
  PROVE  y.run > x.run \/ (y.run = x.run /\ x.status \in {"partial", y.status})
<1>1. x.run \in DOMAIN sc /\ Started(x.run, y.scenario) \in ev /\ x.run \in Nat
  BY DEF Founded
<1>2. x.run <= y.run /\ y.run \in Nat
  BY <1>1, Built DEF Founded, Current
<1>3. CASE x.run = y.run /\ x.status # "partial"
  <2>1. x.status \in Verdicts /\ Completed(x.run, x.status) \in ev
    BY <1>3 DEF Founded
  <2>2. st[x.run] = x.status
    <3>1. Completed(x.run, x.status).run = x.run
          /\ Completed(x.run, x.status) # Started(x.run, sc[x.run])
      BY EventFields
    <3>2. Completed(x.run, x.status) = Completed(x.run, st[x.run])
      BY <2>1, <3>1 DEF Told
    <3>. QED BY <3>2, EventFields
  <2>3. y.status = st[y.run]
    BY <1>3, <2>1, <2>2, Built DEF Current
  <2>. QED BY <1>3, <2>2, <2>3
<1>4. CASE x.run # y.run
  BY <1>1, <1>2, <1>4
<1>5. CASE x.run = y.run /\ x.status = "partial"
  BY <1>5
<1>. QED BY <1>3, <1>4, <1>5

-----------------------------------------------------------------------------
(* The inductive invariant. *)

(* The host: what its phases are and what they go with. *)
Hosted ==
  /\ lane \in Lanes \cup {"server"}
  /\ phase \in {"preflight", "running", "writing", "lingering", "exited"}
  /\ lane = "server" => phase = "running"
  /\ phase # "exited" => exit = "none"
  /\ phase \in {"preflight", "running"} => ~interrupted
  /\ phase = "preflight" => scenarioOf = <<>>

(* The runs of the command line: of different scenarios, and as far as the  *)
(* lane is - one after the other, or all at once.                           *)
Batched ==
  /\ \A q, r \in Runs : scenarioOf[q] = scenarioOf[r] => q = r
  /\ phase \in {"running", "writing"} => Runs # {}
  /\ lane = "serial" /\ phase = "running" =>
       \A q, r \in Runs : q < r /\ state[r] # "idle" => state[q] \in Verdicts
  /\ lane = "concurrent" => \A r \in Runs : state[r] # "idle"
  /\ lane = "concurrent" /\ phase = "running" => \E r \in Runs : state[r] = "running"
  /\ lane = "payout" => Len(scenarioOf) <= 1 /\ \A r \in Runs : state[r] # "idle"

(* Every run ended, and the report has them all. *)
Finished ==
  \A r \in Runs :
    state[r] \in Verdicts /\ \E x \in report.scenarios : x.run = r /\ x.status = state[r]

(* Where the report is complete. *)
Concluded ==
  /\ phase = "writing" /\ ~interrupted => Finished
  /\ exit = "0" => /\ lane # "server" /\ phase = "exited" /\ Runs # {} /\ Finished
                   /\ \A r \in Runs : state[r] = "passed"

IInv ==
  /\ Shape(scenarioOf, state)
  /\ Told(collected, scenarioOf, state)
  /\ Founded(report, collected, scenarioOf)
  /\ Hosted
  /\ lane # "server" => Batched
  /\ Concluded

(* The runs are numbered from 1. *)
LEMMA Numbered ==
  ASSUME IInv
  PROVE  /\ Runs = 1..Len(scenarioOf) /\ Len(scenarioOf) \in Nat
         /\ \A r \in Runs : state[r] \in States
  BY LenProperties DEF IInv, Shape, Runs

LEMMA InitIInv == Init => IInv
<1> SUFFICES ASSUME Init PROVE IInv
  OBVIOUS
<1>1. Shape(scenarioOf, state)
  BY DEF Init, Shape
<1>2. Runs = {}
  BY DEF Init, Runs
<1>3. Told(collected, scenarioOf, state) /\ Founded(report, collected, scenarioOf)
  BY DEF Init, Told, Founded, NoReport
<1>4. Hosted /\ (lane # "server" => Batched) /\ Concluded
  BY <1>2 DEF Init, Hosted, Batched, Concluded, Lanes
<1>. QED BY <1>1, <1>3, <1>4 DEF IInv

(* Selections are sequences of different scenarios, and not empty. *)
LEMMA SelectionFacts ==
  ASSUME NEW sel \in Selections
  PROVE  /\ sel \in Seq(Scenarios) /\ DOMAIN sel = 1..Len(sel) /\ Len(sel) \in Nat
         /\ Len(sel) >= 1
         /\ \A i, j \in DOMAIN sel : sel[i] = sel[j] => i = j
<1>1. sel \in Seq(Scenarios) /\ sel # <<>>
      /\ \A i, j \in DOMAIN sel : sel[i] = sel[j] => i = j
  BY SuiteAssumption
<1>2. DOMAIN sel = 1..Len(sel) /\ Len(sel) \in Nat
  BY <1>1, LenProperties
<1>3. Len(sel) # 0
  BY <1>1, EmptySeq
<1>. QED BY <1>1, <1>2, <1>3

(* A batch that starts. *)
LEMMA Launched ==
  ASSUME IInv, NEW sel \in Seq(Scenarios), NEW now, now \subseteq DOMAIN sel, Launch(sel, now)
  PROVE  /\ Shape(scenarioOf, state)'
         /\ Told(collected', scenarioOf', state')
         /\ Founded(report, collected', scenarioOf')
         /\ \A r \in Runs : r \in Runs' /\ scenarioOf'[r] = scenarioOf[r] /\ state'[r] = state[r]
         /\ \A i \in DOMAIN sel :
              /\ Len(scenarioOf) + i \in Runs'
              /\ scenarioOf'[Len(scenarioOf) + i] = sel[i]
              /\ state'[Len(scenarioOf) + i] = IF i \in now THEN "running" ELSE "idle"
         /\ \A r \in Runs' : r \in Runs \/ \E i \in DOMAIN sel : r = Len(scenarioOf) + i
<1> DEFINE fresh == Opening(sel, now)
           sc2 == scenarioOf \o sel
           st2 == state \o fresh
           first == Len(scenarioOf)
<1>1. Shape(scenarioOf, state) /\ Told(collected, scenarioOf, state)
      /\ Founded(report, collected, scenarioOf)
  BY DEF IInv
<1>2. /\ Shape(sc2, st2)
      /\ \A r \in DOMAIN scenarioOf : /\ r \in DOMAIN sc2 /\ sc2[r] = scenarioOf[r]
                                      /\ st2[r] = state[r]
      /\ \A i \in DOMAIN sel : /\ first + i \in DOMAIN sc2
                               /\ sc2[first + i] = sel[i]
                               /\ st2[first + i] = IF i \in now THEN "running" ELSE "idle"
      /\ \A r \in DOMAIN sc2 : r \in DOMAIN scenarioOf \/ \E i \in DOMAIN sel : r = first + i
  <2>1. /\ fresh \in Seq(States) /\ Len(fresh) = Len(sel)
        /\ \A i \in DOMAIN sel : fresh[i] = IF i \in now THEN "running" ELSE "idle"
    BY OpeningStates
  <2>2. Shape(scenarioOf, state)
    BY <1>1
  <2>3. Extended(scenarioOf, state, sel, fresh, sc2, st2)
    <3> HIDE DEF fresh
    <3>. QED BY <2>1, <2>2, Appended
  <2> HIDE DEF fresh, sc2, st2
  <2>. QED BY <2>1, <2>3 DEF Extended
<1>3. /\ scenarioOf' = sc2 /\ state' = st2
      /\ collected' = collected \cup {Started(first + i, sel[i]) : i \in now}
  BY DEF Launch, Opening
<1> HIDE DEF fresh, sc2, st2
<1>4. Founded(report, collected', sc2)
  BY <1>1, <1>2, <1>3, FoundedStays
<1>5. ASSUME NEW i \in now
      PROVE  LET e == Started(first + i, sel[i])
             IN /\ e.run \in DOMAIN sc2 /\ e = Started(e.run, sc2[e.run])
                /\ st2[e.run] # "idle"
  BY <1>2, EventFields
<1>6. \A e \in collected' :
        /\ e.run \in DOMAIN sc2
        /\ \/ e = Started(e.run, sc2[e.run]) /\ st2[e.run] # "idle"
           \/ e = Completed(e.run, st2[e.run]) /\ st2[e.run] \in Verdicts
  <2>1. ASSUME NEW e \in collected
        PROVE  /\ e.run \in DOMAIN sc2
               /\ \/ e = Started(e.run, sc2[e.run]) /\ st2[e.run] # "idle"
                  \/ e = Completed(e.run, st2[e.run]) /\ st2[e.run] \in Verdicts
    BY <1>1, <1>2 DEF Told
  <2>. QED BY <1>3, <1>5, <2>1
<1>7. ASSUME NEW r \in DOMAIN sc2
      PROVE  /\ st2[r] # "idle" => Started(r, sc2[r]) \in collected'
             /\ st2[r] \in Verdicts => Completed(r, st2[r]) \in collected'
  <2>1. CASE r \in DOMAIN scenarioOf
    BY <1>1, <1>2, <1>3, <2>1 DEF Told
  <2>2. CASE \E i \in DOMAIN sel : r = first + i
    <3>1. PICK i \in DOMAIN sel : r = first + i
      BY <2>2
    <3>2. st2[r] = (IF i \in now THEN "running" ELSE "idle") /\ sc2[r] = sel[i]
      BY <1>2, <3>1
    <3>. QED BY <1>3, <3>1, <3>2 DEF Verdicts
  <2>. QED BY <1>2, <2>1, <2>2
<1>8. Told(collected', sc2, st2)
  BY <1>6, <1>7 DEF Told
<1>. QED BY <1>2, <1>3, <1>4, <1>8 DEF Runs

(* What a step must show of a batch that goes on: the data parts are the    *)
(* lemmas above.                                                            *)
LEMMA BeginKeeps == ASSUME IInv, Begin PROVE IInv'
<1>1. /\ phase = "preflight" /\ phase' = "running" /\ lane # "server"
      /\ scenarioOf = <<>> /\ Len(scenarioOf) = 0 /\ Runs = {}
      /\ UNCHANGED <<lane, aborted, interrupted, report, exit>>
      /\ ~interrupted /\ exit = "none" /\ lane \in Lanes
  BY DEF IInv, Hosted, Begin, Runs
<1>2. ASSUME NEW sel \in Seq(Scenarios), Len(sel) >= 1, NEW now, now \subseteq DOMAIN sel,
             \A i, j \in DOMAIN sel : sel[i] = sel[j] => i = j,
             Launch(sel, now), now = {1} \/ now = DOMAIN sel,
             lane = "serial" => now = {1}, lane = "concurrent" => now = DOMAIN sel,
             lane = "payout" => Len(sel) = 1
      PROVE  IInv'
  <2>1. DOMAIN sel = 1..Len(sel) /\ Len(sel) \in Nat
    BY LenProperties
  <2>2. /\ Shape(scenarioOf, state)' /\ Told(collected', scenarioOf', state')
        /\ Founded(report, collected', scenarioOf')
        /\ \A j \in DOMAIN sel :
             /\ Len(scenarioOf) + j \in Runs'
             /\ scenarioOf'[Len(scenarioOf) + j] = sel[j]
             /\ state'[Len(scenarioOf) + j] = IF j \in now THEN "running" ELSE "idle"
        /\ \A r \in Runs' : r \in Runs \/ \E j \in DOMAIN sel : r = Len(scenarioOf) + j
    BY <1>2, Launched
  <2>3. /\ Runs' = DOMAIN sel
        /\ \A r \in DOMAIN sel : /\ scenarioOf'[r] = sel[r]
                                 /\ state'[r] = IF r \in now THEN "running" ELSE "idle"
    <3>1. \A j \in DOMAIN sel : Len(scenarioOf) + j = j
      BY <1>1, <2>1
    <3>2. \A j \in DOMAIN sel : /\ j \in Runs' /\ scenarioOf'[j] = sel[j]
                                /\ state'[j] = IF j \in now THEN "running" ELSE "idle"
      BY <2>2, <3>1
    <3>3. \A r \in Runs' : r \in DOMAIN sel
      BY <1>1, <2>2, <3>1
    <3>. QED BY <3>2, <3>3
  <2>4. 1 \in DOMAIN sel /\ 1 \in now
    BY <1>2, <2>1
  <2>5. Batched'
    <3>1. (\A q, r \in Runs : scenarioOf[q] = scenarioOf[r] => q = r)'
      BY <1>2, <2>3
    <3>2. (Runs # {})' /\ state'[1] = "running" /\ 1 \in Runs'
      BY <2>3, <2>4
    <3>3. (lane = "serial" => \A q, r \in Runs : q < r /\ state[r] # "idle" => state[q] \in Verdicts)'
      <4>1. SUFFICES ASSUME lane = "serial", NEW q \in DOMAIN sel, NEW r \in DOMAIN sel,
                            q < r, state'[r] # "idle"
                     PROVE  FALSE
        BY <1>1, <2>3
      <4>2. now = {1} /\ r \in now
        BY <1>2, <2>3, <4>1
      <4>. QED BY <2>1, <4>1, <4>2
    <3>4. (lane = "concurrent" => \A r \in Runs : state[r] # "idle")'
      BY <1>1, <1>2, <2>3
    <3>5. (lane = "payout" => Len(scenarioOf) <= 1 /\ \A r \in Runs : state[r] # "idle")'
      <4>1. SUFFICES ASSUME lane = "payout"
                     PROVE  Len(scenarioOf') <= 1 /\ \A r \in Runs' : state'[r] # "idle"
        BY <1>1
      <4>2. Runs' = {1} /\ now = {1}
        BY <1>2, <2>1, <2>3, <4>1
      <4>3. Runs' = 1..Len(scenarioOf') /\ Len(scenarioOf') \in Nat
        BY <2>2, LenProperties DEF Shape, Runs
      <4>. QED BY <2>3, <4>2, <4>3
    <3>. QED BY <3>1, <3>2, <3>3, <3>4, <3>5 DEF Batched
  <2>6. Hosted' /\ Concluded'
    BY <1>1 DEF IInv, Hosted, Concluded
  <2>. QED BY <1>1, <2>2, <2>5, <2>6 DEF IInv
<1>3. CASE lane = "serial" \/ lane = "concurrent"
  <2>1. PICK sel \in Selections : Launch(sel, IF lane = "serial" THEN {1} ELSE DOMAIN sel)
    BY <1>3 DEF Begin
  <2>2. /\ sel \in Seq(Scenarios) /\ Len(sel) >= 1 /\ DOMAIN sel = 1..Len(sel) /\ Len(sel) \in Nat
        /\ \A i, j \in DOMAIN sel : sel[i] = sel[j] => i = j
    BY SelectionFacts
  <2>3. {1} \subseteq DOMAIN sel
    BY <2>2
  <2>. QED BY <1>2, <1>3, <2>1, <2>2, <2>3
<1>4. CASE lane = "payout"
  <2>1. Launch(<<PayoutScenario>>, {1})
    BY <1>4 DEF Begin
  <2>2. /\ <<PayoutScenario>> \in Seq(Scenarios) /\ Len(<<PayoutScenario>>) = 1
        /\ DOMAIN <<PayoutScenario>> = {1}
    BY SuiteAssumption
  <2>3. \A j, k \in DOMAIN <<PayoutScenario>> :
          <<PayoutScenario>>[j] = <<PayoutScenario>>[k] => j = k
    BY <2>2
  <2> DEFINE sel == <<PayoutScenario>>
             now == {1}
  <2>4. /\ sel \in Seq(Scenarios) /\ Len(sel) = 1 /\ Len(sel) >= 1 /\ now \subseteq DOMAIN sel
        /\ \A j, k \in DOMAIN sel : sel[j] = sel[k] => j = k
        /\ Launch(sel, now) /\ now = {1}
    BY <2>1, <2>2, <2>3
  <2> HIDE DEF sel, now
  <2>. QED BY <1>2, <1>4, <2>4
<1>. QED BY <1>1, <1>3, <1>4 DEF Lanes

LEMMA PostKeeps == ASSUME IInv, Post PROVE IInv'
<1>1. PICK sel \in Selections : Launch(sel, DOMAIN sel)
  BY DEF Post
<1>2. sel \in Seq(Scenarios)
  BY SelectionFacts
<1>3. /\ lane = "server" /\ phase = "running" /\ exit = "none"
      /\ UNCHANGED <<lane, phase, aborted, interrupted, report, exit>>
  BY DEF IInv, Hosted, Post
<1>4. /\ Shape(scenarioOf, state)' /\ Told(collected', scenarioOf', state')
      /\ Founded(report, collected', scenarioOf')
  BY <1>1, <1>2, Launched
<1>5. Hosted' /\ Concluded'
  BY <1>3 DEF IInv, Hosted, Concluded
<1>. QED BY <1>3, <1>4, <1>5 DEF IInv

LEMMA ReportAnswered == ASSUME IInv, GetReport PROVE IInv'
<1>1. /\ lane = "server" /\ phase = "running" /\ exit = "none" /\ report' = BuildReport(collected)
      /\ UNCHANGED <<lane, phase, scenarioOf, state, collected, aborted, interrupted, exit>>
  BY DEF IInv, Hosted, GetReport
<1>2. Founded(report', collected, scenarioOf)
  BY <1>1, Built DEF IInv, Current
<1>3. Shape(scenarioOf, state)' /\ Told(collected, scenarioOf, state)'
      /\ Founded(report, collected, scenarioOf)'
  BY <1>1, <1>2 DEF IInv
<1>4. Hosted' /\ Concluded'
  BY <1>1 DEF IInv, Hosted, Concluded
<1>. QED BY <1>1, <1>3, <1>4 DEF IInv

(* A run that ends and says so. *)
LEMMA EndTold ==
  ASSUME IInv, NEW r \in Runs, state[r] = "running", NEW v \in Verdicts
  PROVE  LET ended == collected \cup {Completed(r, v)}
             after == [state EXCEPT ![r] = v]
         IN /\ Shape(scenarioOf, after) /\ Told(ended, scenarioOf, after)
            /\ Founded(report, ended, scenarioOf)
            /\ after[r] = v /\ v # "idle" /\ v # "running"
            /\ \A q \in Runs : q # r => after[q] = state[q]
<1>1. Shape(scenarioOf, state) /\ Told(collected, scenarioOf, state)
      /\ Founded(report, collected, scenarioOf) /\ r \in DOMAIN scenarioOf /\ v \in States
  BY DEF IInv, Runs, States
<1>2. Told(collected \cup {Completed(r, v)}, scenarioOf, [state EXCEPT ![r] = v])
  BY <1>1, ToldOfEnd
<1>3. Shape(scenarioOf, [state EXCEPT ![r] = v])
  BY <1>1, Advanced
<1>4. Founded(report, collected \cup {Completed(r, v)}, scenarioOf)
  BY <1>1, FoundedStays
<1>5. [state EXCEPT ![r] = v][r] = v
      /\ \A q \in Runs : q # r => [state EXCEPT ![r] = v][q] = state[q]
  BY <1>1 DEF Shape, Runs
<1>. QED BY <1>2, <1>3, <1>4, <1>5 DEF Verdicts

(* While a run goes on, no complete report exists. *)
LEMMA NotConcluded ==
  ASSUME IInv, NEW r \in Runs, state[r] = "running"
  PROVE  exit # "0" /\ (phase = "writing" => interrupted)
  BY DEF IInv, Concluded, Finished, Hosted, Verdicts

(* A serial batch goes on with its next run, which was idle. *)
LEMMA NextIsIdle ==
  ASSUME IInv, lane = "serial", phase = "running",
         NEW r \in Runs, state[r] = "running", r < Len(scenarioOf)
  PROVE  r + 1 \in Runs /\ r + 1 > r /\ state[r + 1] = "idle"
<1>1. r \in Nat /\ r + 1 \in Runs /\ r + 1 > r
  BY Numbered
<1>2. state[r] \notin Verdicts
  BY DEF Verdicts
<1>3. ~(state[r + 1] # "idle")
  BY <1>1, <1>2 DEF IInv, Batched
<1>. QED BY <1>1, <1>3

LEMMA NextRunStarts ==
  ASSUME IInv, NEW r \in Runs, NEW v \in Verdicts, state[r] = "running", exit = "none",
         phase = "running", lane = "serial", r < Len(scenarioOf),
         state' = [[state EXCEPT ![r] = v] EXCEPT ![r + 1] = "running"],
         collected' = collected \cup {Completed(r, v)} \cup {Started(r + 1, scenarioOf[r + 1])},
         UNCHANGED <<lane, scenarioOf, aborted, exit, phase, interrupted, report>>
  PROVE  IInv'
<1> DEFINE ended == collected \cup {Completed(r, v)}
           after == [state EXCEPT ![r] = v]
<1>1. /\ Shape(scenarioOf, after) /\ Told(ended, scenarioOf, after)
      /\ Founded(report, ended, scenarioOf)
      /\ after[r] = v /\ \A q \in Runs : q # r => after[q] = state[q]
  BY EndTold
<1>2. r + 1 \in Runs /\ r \in Nat /\ r + 1 > r /\ state[r + 1] = "idle"
  BY NextIsIdle, Numbered
<1>3. after[r + 1] = "idle" /\ r + 1 \in DOMAIN scenarioOf /\ "running" \in States
  BY <1>1, <1>2 DEF Runs, States
<1>4. state' = [after EXCEPT ![r + 1] = "running"]
      /\ collected' = ended \cup {Started(r + 1, scenarioOf[r + 1])}
  OBVIOUS
<1> HIDE DEF after, ended
<1>5. Told(collected', scenarioOf, state')
  <2>1. \A s : s = "running" =>
          Told(ended \cup {Started(r + 1, scenarioOf[r + 1])}, scenarioOf, [after EXCEPT ![r + 1] = s])
    BY <1>1, <1>3, ToldOfStart
  <2>. QED BY <1>4, <2>1
<1>6. /\ Shape(scenarioOf, state') /\ state'[r + 1] = "running"
      /\ \A q \in Runs : q # r + 1 => state'[q] = after[q]
  <2>1. \A s \in States :
          /\ Shape(scenarioOf, [after EXCEPT ![r + 1] = s])
          /\ [after EXCEPT ![r + 1] = s][r + 1] = s
          /\ \A q \in DOMAIN scenarioOf : q # r + 1 => [after EXCEPT ![r + 1] = s][q] = after[q]
    BY <1>1, <1>3, Advanced
  <2>2. /\ Shape(scenarioOf, [after EXCEPT ![r + 1] = "running"])
        /\ [after EXCEPT ![r + 1] = "running"][r + 1] = "running"
        /\ \A q \in DOMAIN scenarioOf : q # r + 1 => [after EXCEPT ![r + 1] = "running"][q] = after[q]
    BY <1>3, <2>1, Zenon
  <2>. QED BY <1>4, <2>2 DEF Runs
<1>7. Founded(report, collected', scenarioOf)
  BY <1>1, <1>4, FoundedStays
<1>8. Batched'
  <2>1. \A q \in Runs : q # r /\ q # r + 1 => state'[q] = state[q]
    BY <1>1, <1>6
  <2>2. state'[r] = v
    BY <1>1, <1>2, <1>6
  <2>3. ASSUME NEW q \in Runs, NEW p \in Runs, q < p, state'[p] # "idle"
        PROVE  state'[q] \in Verdicts
    <3>1. q \in Nat /\ p \in Nat
      BY Numbered
    <3>2. p <= r + 1
      <4>1. SUFFICES ASSUME p > r + 1 PROVE FALSE
        BY <1>2, <3>1
      <4>2. state[p] # "idle" /\ r < p
        BY <1>2, <2>1, <2>3, <3>1, <4>1
      <4>3. state[r] \in Verdicts
        BY <4>2 DEF IInv, Batched
      <4>. QED BY <4>3 DEF Verdicts
    <3>3. CASE q = r
      BY <2>2, <3>3
    <3>4. CASE q # r
      <4>1. q < r /\ q # r + 1
        BY <1>2, <2>3, <3>1, <3>2, <3>4
      <4>2. state[q] \in Verdicts
        BY <4>1 DEF IInv, Batched
      <4>. QED BY <2>1, <3>4, <4>1, <4>2
    <3>. QED BY <3>3, <3>4
  <2>. QED BY <2>3 DEF IInv, Batched, Runs
<1>9. Hosted' /\ Concluded'
  BY DEF IInv, Hosted, Concluded
<1>. QED BY <1>5, <1>6, <1>7, <1>8, <1>9 DEF IInv

LEMMA RunGoesOut ==
  ASSUME IInv, NEW r \in Runs, NEW v \in Verdicts, state[r] = "running", exit = "none",
         ~(phase = "running" /\ (Last(r) \/ (lane = "serial" /\ r < Len(scenarioOf)))),
         state' = [state EXCEPT ![r] = v], collected' = collected \cup {Completed(r, v)},
         UNCHANGED <<lane, scenarioOf, aborted, exit, phase, interrupted, report>>
  PROVE  IInv'
<1>1. /\ Shape(scenarioOf, state') /\ Told(collected', scenarioOf, state')
      /\ Founded(report, collected', scenarioOf)
      /\ state'[r] = v /\ v # "idle" /\ v # "running"
      /\ \A q \in Runs : q # r => state'[q] = state[q]
  <2> DEFINE ended == collected \cup {Completed(r, v)}
             after == [state EXCEPT ![r] = v]
  <2>1. /\ Shape(scenarioOf, after) /\ Told(ended, scenarioOf, after)
        /\ Founded(report, ended, scenarioOf)
        /\ after[r] = v /\ v # "idle" /\ v # "running"
        /\ \A q \in Runs : q # r => after[q] = state[q]
    BY EndTold, Zenon
  <2>2. state' = after /\ collected' = ended
    OBVIOUS
  <2>. QED BY <2>1, <2>2, Zenon
<1>2. Hosted'
  BY DEF IInv, Hosted
<1>3. Concluded'
  BY NotConcluded DEF Concluded
<1>4. ASSUME lane # "server" PROVE Batched'
  <2>1. phase = "running" => lane = "concurrent" /\ Unfinished # {r}
    <3>1. r = Len(scenarioOf) \/ r < Len(scenarioOf)
      BY Numbered
    <3>. QED BY <1>4, <3>1 DEF IInv, Hosted, Last, Lanes
  <2>2. ASSUME phase = "running" PROVE \E q \in Runs : state'[q] = "running"
    <3>1. PICK q \in Unfinished : q # r
      BY <2>1, <2>2 DEF Unfinished
    <3>. QED BY <1>1, <3>1 DEF Unfinished
  <2>3. \A q \in Runs : state[q] # "idle" => state'[q] # "idle"
    BY <1>1
  <2>. QED BY <1>4, <2>1, <2>2, <2>3 DEF IInv, Batched, Runs
<1>. QED BY <1>1, <1>2, <1>3, <1>4 DEF IInv

LEMMA BatchEnds ==
  ASSUME IInv, NEW r \in Runs, NEW v \in Verdicts, state[r] = "running", exit = "none",
         phase = "running", NEW more \in BOOLEAN, more \/ Last(r),
         state' = [state EXCEPT ![r] = v], collected' = collected \cup {Completed(r, v)},
         Report(collected', more), lane # "server",
         UNCHANGED <<lane, scenarioOf, aborted, exit>>
  PROVE  IInv'
<1>1. /\ Shape(scenarioOf, state') /\ Told(collected', scenarioOf, state')
      /\ state'[r] = v /\ v # "idle"
      /\ \A q \in Runs : q # r => state'[q] = state[q]
  <2> DEFINE ended == collected \cup {Completed(r, v)}
             after == [state EXCEPT ![r] = v]
  <2>1. /\ Shape(scenarioOf, after) /\ Told(ended, scenarioOf, after)
        /\ after[r] = v /\ v # "idle"
        /\ \A q \in Runs : q # r => after[q] = state[q]
    BY EndTold, Zenon
  <2>2. state' = after /\ collected' = ended
    OBVIOUS
  <2>. QED BY <2>1, <2>2, Zenon
<1>2. report' = BuildReport(collected') /\ phase' = "writing" /\ interrupted' = more
  BY DEF Report
<1>3. Current(report', collected', scenarioOf, state') /\ Founded(report', collected', scenarioOf)
  <2>1. Current(BuildReport(collected'), collected', scenarioOf, state')
    BY <1>1, Built
  <2>. QED BY <1>2, <2>1 DEF Current
<1>4. Hosted'
  BY <1>2 DEF IInv, Hosted
<1>5. Batched'
  BY <1>1, <1>2 DEF IInv, Batched, Runs
<1>6. ASSUME ~more PROVE Finished'
  <2>1. ASSUME NEW q \in Runs PROVE state'[q] \in Verdicts
    <3>1. CASE q = r
      BY <1>1, <3>1
    <3>2. CASE q # r
      <4>1. q \in 1..Len(scenarioOf) /\ r \in 1..Len(scenarioOf) /\ Len(scenarioOf) \in Nat
            /\ state[q] \in States
        BY Numbered
      <4>2. CASE lane = "payout"
        BY <3>2, <4>1, <4>2 DEF IInv, Batched
      <4>3. CASE lane = "serial" /\ r = Len(scenarioOf)
        <5>1. q < r /\ state[r] # "idle"
          BY <3>2, <4>1, <4>3
        <5>2. state[q] \in Verdicts
          BY <4>3, <5>1 DEF IInv, Batched
        <5>. QED BY <1>1, <3>2, <5>2
      <4>4. CASE lane = "concurrent" /\ Unfinished = {r}
        <5>1. state[q] # "running" /\ state[q] # "idle"
          BY <3>2, <4>4 DEF Unfinished, IInv, Batched
        <5>. QED BY <1>1, <3>2, <4>1, <5>1 DEF States
      <4>. QED BY <1>6, <4>2, <4>3, <4>4 DEF Last
    <3>. QED BY <3>1, <3>2
  <2>2. ASSUME NEW q \in Runs PROVE \E x \in report'.scenarios : x.run = q /\ x.status = state'[q]
    <3>1. state'[q] # "idle"
      BY <2>1 DEF Verdicts
    <3>2. \A p \in DOMAIN scenarioOf : scenarioOf[p] = scenarioOf[q] => p = q
      BY DEF IInv, Batched, Runs
    <3>. QED BY <1>3, <2>1, <3>1, <3>2 DEF Current, Runs
  <2>. QED BY <2>1, <2>2 DEF Finished, Runs
<1>7. Concluded'
  BY <1>2, <1>6 DEF Concluded
<1>. QED BY <1>1, <1>3, <1>4, <1>5, <1>7 DEF IInv

LEMMA EndKeeps ==
  ASSUME IInv, NEW r \in Runs, NEW v \in Verdicts, RunEnds(r, v)
  PROVE  IInv'
<1> DEFINE more == lane = "serial" /\ r < Len(scenarioOf)
<1>1. /\ exit = "none" /\ state[r] = "running"
      /\ UNCHANGED <<lane, scenarioOf, aborted, exit>>
  BY DEF RunEnds
<1>2. CASE /\ phase = "running" /\ more
           /\ state' = [[state EXCEPT ![r] = v] EXCEPT ![r + 1] = "running"]
           /\ collected' = collected \cup {Completed(r, v)} \cup {Started(r + 1, scenarioOf[r + 1])}
           /\ StillRunning
  BY <1>1, <1>2, NextRunStarts DEF StillRunning
<1>3. CASE /\ phase = "running" /\ (Last(r) \/ (more /\ Halts))
           /\ state' = [state EXCEPT ![r] = v]
           /\ collected' = collected \cup {Completed(r, v)}
           /\ Report(collected \cup {Completed(r, v)}, more)
  <2>1. more \in BOOLEAN /\ (more \/ Last(r)) /\ Report(collected', more) /\ lane # "server"
    BY <1>3 DEF Last
  <2> HIDE DEF more
  <2>. QED BY <1>1, <1>3, <2>1, BatchEnds
<1>4. CASE /\ ~(phase = "running" /\ (Last(r) \/ more))
           /\ state' = [state EXCEPT ![r] = v]
           /\ collected' = collected \cup {Completed(r, v)}
           /\ StillRunning
  BY <1>1, <1>4, RunGoesOut DEF StillRunning
<1>. QED BY <1>2, <1>3, <1>4 DEF RunEnds

LEMMA SignalKeeps == ASSUME IInv, Signal PROVE IInv'
<1>1. /\ lane # "server" /\ phase \in {"running", "writing"} /\ exit = "none"
      /\ UNCHANGED <<lane, scenarioOf, state, collected, exit>>
  BY DEF Signal, IInv, Hosted
<1>2. Shape(scenarioOf, state)' /\ Told(collected, scenarioOf, state)'
  BY <1>1 DEF IInv
<1>3. CASE Report(collected, TRUE)
  <2>1. report' = BuildReport(collected) /\ phase' = "writing" /\ interrupted' = TRUE
    BY <1>3 DEF Report
  <2>2. Founded(report', collected, scenarioOf)
    <3>1. Current(BuildReport(collected), collected, scenarioOf, state)
      BY Built DEF IInv
    <3>. QED BY <2>1, <3>1 DEF Current
  <2>3. Hosted' /\ Concluded'
    BY <1>1, <2>1 DEF IInv, Hosted, Concluded
  <2>4. Batched'
    BY <1>1, <2>1 DEF IInv, Batched, Runs
  <2>. QED BY <1>1, <1>2, <2>2, <2>3, <2>4 DEF IInv
<1>4. CASE StillRunning
  <2>1. UNCHANGED <<phase, interrupted, report>>
    BY <1>4 DEF StillRunning
  <2>2. Hosted' /\ Concluded'
    BY <1>1, <2>1 DEF IInv, Hosted, Concluded, Finished, Runs
  <2>3. Batched'
    BY <1>1, <2>1 DEF IInv, Batched, Runs
  <2>. QED BY <1>1, <1>2, <2>1, <2>2, <2>3 DEF IInv
<1>. QED BY <1>3, <1>4 DEF Signal

(* The end of the process: exit code 0 needs the report of a whole batch.    *)
LEMMA ExitKeeps ==
  ASSUME IInv, PreflightFails \/ Killed \/ Written \/ WriteFails \/ LoopEmpties
  PROVE  IInv'
<1>1. /\ UNCHANGED <<lane, scenarioOf, state, collected, interrupted, report>>
      /\ phase' \in {"lingering", "exited"} /\ lane # "server"
      /\ phase' = "lingering" => exit' = exit /\ exit = "none"
  BY DEF IInv, Hosted, PreflightFails, Killed, Written, WriteFails, LoopEmpties
<1>2. /\ Shape(scenarioOf, state)' /\ Told(collected, scenarioOf, state)'
      /\ Founded(report, collected, scenarioOf)'
  BY <1>1 DEF IInv
<1>3. Hosted'
  BY <1>1 DEF IInv, Hosted
<1>4. Batched'
  BY <1>1 DEF IInv, Batched, Runs
<1>5. ASSUME exit' = "0" PROVE Written /\ ~interrupted /\ CodeOf(report) = "0"
  BY <1>5 DEF IInv, Hosted, PreflightFails, Killed, Written, WriteFails, LoopEmpties
<1>6. ASSUME exit' = "0"
      PROVE  /\ phase' = "exited" /\ Runs # {} /\ Finished
             /\ \A r \in Runs : state[r] = "passed"
  <2>1. phase = "writing" /\ phase' = "exited" /\ ~interrupted
        /\ \A x \in report.scenarios : x.status = "passed"
    BY <1>5, <1>6 DEF Written, CodeOf
  <2>2. Finished /\ Runs # {}
    BY <1>1, <2>1 DEF IInv, Concluded, Batched
  <2>3. \A r \in Runs : state[r] = "passed"
    BY <2>1, <2>2 DEF Finished
  <2>. QED BY <2>1, <2>2, <2>3
<1>7. Concluded'
  BY <1>1, <1>6 DEF Concluded, Finished, Runs
<1>. QED BY <1>1, <1>2, <1>3, <1>4, <1>7 DEF IInv

LEMMA NextIInv == IInv /\ [Next]_vars => IInv'
<1> SUFFICES ASSUME IInv, [Next]_vars PROVE IInv'
  OBVIOUS
<1>1. CASE Begin
  BY <1>1, BeginKeeps
<1>2. CASE Post
  BY <1>2, PostKeeps
<1>3. CASE GetReport
  BY <1>3, ReportAnswered
<1>4. CASE \E r \in Runs, v \in Verdicts : RunEnds(r, v)
  BY <1>4, EndKeeps
<1>5. CASE Signal
  BY <1>5, SignalKeeps
<1>6. CASE PreflightFails \/ Killed \/ Written \/ WriteFails \/ LoopEmpties
  BY <1>6, ExitKeeps
<1>7. CASE UNCHANGED vars
  <2>1. Shape(scenarioOf, state)' /\ Told(collected, scenarioOf, state)'
        /\ Founded(report, collected, scenarioOf)'
    BY <1>7 DEF IInv, vars
  <2>2. Hosted' /\ (lane # "server" => Batched)' /\ Concluded'
    BY <1>7 DEF IInv, vars, Hosted, Batched, Concluded, Finished, Runs
  <2>. QED BY <2>1, <2>2 DEF IInv
<1>. QED BY <1>1, <1>2, <1>3, <1>4, <1>5, <1>6, <1>7 DEF Next

-----------------------------------------------------------------------------
(* Events tell what happened, a report is founded on them, and a batch that *)
(* was not interrupted is reported when all its runs have ended.            *)
THEOREM SuiteInvariant == Spec => []IInv
<1>. QED BY InitIInv, NextIInv, PTL DEF Spec

(* VerdictsReached: no report claims a verdict that its run did not reach,  *)
(* whenever it was built.                                                   *)
THEOREM NoVerdictInvented == Spec => []VerdictsReached
<1>1. ASSUME IInv PROVE VerdictsReached
  <2>1. SUFFICES ASSUME NEW x \in report.scenarios
                 PROVE  /\ x.run \in Runs /\ scenarioOf[x.run] = x.scenario
                        /\ x.status \in Verdicts => state[x.run] = x.status
    BY DEF VerdictsReached
  <2>2. /\ x.run \in DOMAIN scenarioOf /\ x.scenario = scenarioOf[x.run]
        /\ x.status \in Verdicts => Completed(x.run, x.status) \in collected
    BY <1>1 DEF IInv, Founded
  <2>3. ASSUME x.status \in Verdicts PROVE state[x.run] = x.status
    <3>1. Completed(x.run, x.status).run = x.run
          /\ Completed(x.run, x.status) # Started(x.run, scenarioOf[x.run])
      BY EventFields
    <3>2. Completed(x.run, x.status) = Completed(x.run, state[x.run])
      BY <1>1, <2>2, <2>3, <3>1 DEF IInv, Told
    <3>. QED BY <3>2, EventFields
  <2>. QED BY <2>2, <2>3 DEF Runs
<1>. QED BY <1>1, SuiteInvariant, PTL

(* ExitZeroEarned: exit code 0 means that every run was started, ended and  *)
(* passed, and is in the report.                                            *)
THEOREM ZeroIsEarned == Spec => []ExitZeroEarned
<1>1. ASSUME IInv PROVE ExitZeroEarned
  <2>1. SUFFICES ASSUME exit = "0"
                 PROVE  /\ Runs # {} /\ \A r \in Runs : state[r] = "passed"
                        /\ {x.scenario : x \in report.scenarios} = {scenarioOf[r] : r \in Runs}
    BY DEF ExitZeroEarned
  <2>2. Runs # {} /\ Finished /\ \A r \in Runs : state[r] = "passed"
    BY <1>1, <2>1 DEF IInv, Concluded
  <2>3. \A x \in report.scenarios : x.run \in Runs /\ x.scenario = scenarioOf[x.run]
    BY <1>1 DEF IInv, Founded, Runs
  <2>4. \A r \in Runs : \E x \in report.scenarios : x.scenario = scenarioOf[r]
    BY <2>2, <2>3 DEF Finished
  <2>. QED BY <2>2, <2>3, <2>4
<1>. QED BY <1>1, SuiteInvariant, PTL

(* InterruptedEarly: whoever says that a batch was interrupted left a run   *)
(* of it unfinished.                                                        *)
THEOREM InterruptionIsEarly == Spec => InterruptedEarly
<1>1. ASSUME IInv, [Next]_vars, interrupted', ~interrupted
      PROVE  \E r \in Runs : state'[r] \in {"idle", "running"}
  <2>1. CASE \E r \in Runs, v \in Verdicts : RunEnds(r, v)
    <3>1. PICK r \in Runs, v \in Verdicts : RunEnds(r, v)
      BY <2>1
    <3>2. /\ lane = "serial" /\ r < Len(scenarioOf) /\ phase = "running"
          /\ state[r] = "running" /\ state' = [state EXCEPT ![r] = v]
      BY <1>1, <3>1 DEF RunEnds, Report, StillRunning
    <3>3. r + 1 \in Runs /\ r \in Nat /\ r + 1 > r /\ state[r + 1] = "idle"
      BY <1>1, <3>2, NextIsIdle, Numbered
    <3>4. state'[r + 1] = "idle"
      BY <1>1, <3>2, <3>3, EndTold
    <3>. QED BY <3>3, <3>4
  <2>2. CASE Signal
    <3>1. lane = "concurrent" /\ phase = "running" /\ state' = state
      BY <1>1, <2>2 DEF Signal, StillRunning
    <3>2. \E r \in Runs : state[r] = "running"
      BY <1>1, <3>1 DEF IInv, Batched
    <3>. QED BY <3>1, <3>2
  <2>3. CASE UNCHANGED interrupted
    BY <1>1, <2>3
  <2>. QED
    BY <1>1, <2>1, <2>2, <2>3
    DEF Next, vars, PreflightFails, Begin, Post, GetReport, Killed, Written, WriteFails, LoopEmpties
<1>. QED BY <1>1, SuiteInvariant, PTL DEF Spec, InterruptedEarly

(* ReportsMoveOn: a later report has the same or a later run of a scenario, *)
(* and takes back no verdict.                                               *)
THEOREM ReportsOnlyMoveOn == Spec => ReportsMoveOn
<1>1. ASSUME IInv, IInv', [Next]_vars, NEW x \in report.scenarios, NEW y \in report'.scenarios,
             x.scenario = y.scenario
      PROVE  y.run > x.run \/ (y.run = x.run /\ x.status \in {"partial", y.status})
  <2>1. CASE report' = report
    BY <1>1, <2>1 DEF IInv, Founded
  <2>2. CASE /\ report' = BuildReport(collected') /\ collected \subseteq collected'
             /\ scenarioOf' = scenarioOf
    <3>1. Founded(report, collected', scenarioOf')
      BY <1>1, <2>2, FoundedStays DEF IInv
    <3>2. Shape(scenarioOf', state') /\ Told(collected', scenarioOf', state')
      BY <1>1 DEF IInv
    <3>. QED BY <1>1, <2>2, <3>1, <3>2, LaterReport
  <2>3. ASSUME NEW r \in Runs, NEW v \in Verdicts, RunEnds(r, v)
        PROVE  \/ report' = report
               \/ /\ report' = BuildReport(collected') /\ collected \subseteq collected'
                  /\ scenarioOf' = scenarioOf
    BY <2>3 DEF RunEnds, Report, StillRunning
  <2>4. ASSUME Signal \/ GetReport
        PROVE  \/ report' = report
               \/ /\ report' = BuildReport(collected') /\ collected \subseteq collected'
                  /\ scenarioOf' = scenarioOf
    BY <2>4 DEF Signal, GetReport, Report, StillRunning
  <2>. QED
    BY <1>1, <2>1, <2>2, <2>3, <2>4
    DEF Next, vars, PreflightFails, Begin, Post, Killed, Written, WriteFails, LoopEmpties
<1>2. IInv /\ IInv' /\ [Next]_vars =>
        \A x \in report.scenarios, y \in report'.scenarios :
          x.scenario = y.scenario =>
            \/ y.run > x.run
            \/ y.run = x.run /\ x.status \in {"partial", y.status}
  BY <1>1
<1>. QED BY <1>2, SuiteInvariant, PTL DEF Spec, ReportsMoveOn
=============================================================================
