-------------------------------- MODULE Suite --------------------------------
(***************************************************************************)
(* A batch of scenario runs: runScenarios (server/src/engine/runner.ts)    *)
(* and runPayoutSuite (engine/payout.ts), the report built from the events *)
(* they collect (engine/report.ts), and the two hosts that start batches:  *)
(* the command line (server/src/cli.ts), which turns the report into an    *)
(* exit code and may be interrupted, and POST /api/runs with GET           *)
(* /api/report (server/src/http/routes.ts), where batches overlap.         *)
(*                                                                         *)
(* A run is abstracted to the verdict it ends with (ScenarioRun has the    *)
(* inside of it).  Runs are numbered in the order in which their           *)
(* run.started events are emitted, which is the order of started.seq.      *)
(* What a batch does between two awaits is one action: nothing, not even a *)
(* signal, comes between the end of the last run and the report.           *)
(***************************************************************************)
EXTENDS Naturals, Sequences, FiniteSets

CONSTANTS
  Scenarios,   \* the runnable scenarios
  Required,    \* those that gate the suite status
  Selections,  \* what a caller may ask for, without repetitions (parseScenarioSelection)
  MaxRuns      \* bound: runs of a server

PayoutScenario == "a"    \* the envelope id a payout run borrows

ASSUME SuiteAssumption ==
  /\ MaxRuns \in Nat
  /\ Required \subseteq Scenarios
  /\ Selections \subseteq Seq(Scenarios) \ {<<>>}
  /\ \A sel \in Selections : \A i, j \in DOMAIN sel : sel[i] = sel[j] => i = j
  /\ PayoutScenario \in Scenarios

VARIABLES
  lane,        \* "serial", "concurrent", "payout", or "server"
  phase,       \* of the host: "preflight", "running", "writing", "lingering", "exited"
  scenarioOf,  \* the scenario of each run of the batch, in order
  state,       \* of each run: "idle", "running", or its verdict
  collected,   \* the events collected for the report
  aborted,     \* the abort signal, set by the signal handlers
  interrupted, \* what runScenarios returns
  report,      \* the report written, or last answered
  exit         \* the exit code of the process

vars ==
  <<lane, phase, scenarioOf, state, collected, aborted, interrupted, report, exit>>

Lanes == {"serial", "concurrent", "payout"}
Verdicts == {"passed", "failed"}
Runs == DOMAIN scenarioOf
Unfinished == {r \in Runs : state[r] = "running"}

-----------------------------------------------------------------------------
(* Events and the report.                                                   *)

Started(r, s) == [kind |-> "run.started", run |-> r, of |-> s]
Completed(r, v) == [kind |-> "run.completed", run |-> r, of |-> v]

Buckets(events) == {e \in events : e.kind = "run.started"}

LatestEnded(events) ==    \* fault: a run that has ended comes first
  LET ended == {e \in Buckets(events) : \E v \in Verdicts : Completed(e.run, v) \in events}
  IN {e \in Buckets(events) :
        /\ e \in ended \/ ~\E f \in ended : f.of = e.of
        /\ \A f \in Buckets(events) : f.of = e.of /\ (e \in ended => f \in ended) => f.run <= e.run}

(* The latest run of a scenario is the one started last.                    *)
Latest(events) ==
  {e \in Buckets(events) : \A f \in Buckets(events) : f.of = e.of => f.run <= e.run}

StatusFabricated(r, events) ==    \* fault: unfinished counts as failed
  IF Completed(r, "passed") \in events THEN "passed" ELSE "failed"

(* The status of one scenario: a run without run.completed is partial.      *)
StatusOf(r, events) ==
  IF \E v \in Verdicts : Completed(r, v) \in events
  THEN CHOOSE v \in Verdicts : Completed(r, v) \in events
  ELSE "partial"

SuiteStatus(entries) ==
  IF ~ Required \subseteq {x.scenario : x \in entries} THEN "partial"
  ELSE IF \E x \in entries : x.status = "failed" THEN "failed"
  ELSE "passed"

BuildReport(events) ==
  LET entries == {[scenario |-> e.of, run |-> e.run, status |-> StatusOf(e.run, events)] :
                    e \in Latest(events)}
  IN [suite |-> SuiteStatus(entries), scenarios |-> entries]

NoReport == [suite |-> "none", scenarios |-> {}]

CodeOfSuite(rep) == IF rep.suite = "failed" THEN "1" ELSE "0"    \* fault: partial passes

(* cli.ts: what a report makes of the exit code.                            *)
CodeOf(rep) == IF \E x \in rep.scenarios : x.status # "passed" THEN "1" ELSE "0"

-----------------------------------------------------------------------------
Init ==
  /\ lane \in Lanes \cup {"server"}
  /\ phase = IF lane = "server" THEN "running" ELSE "preflight"
  /\ scenarioOf = <<>>
  /\ state = <<>>
  /\ collected = {}
  /\ aborted = FALSE
  /\ interrupted = FALSE
  /\ report = NoReport
  /\ exit = "none"

(* The start of a batch: the runs of `sel` are numbered from `first`, and   *)
(* those of `now` emit run.started before the first await.                  *)
Launch(sel, now) ==
  LET first == Len(scenarioOf)
  IN /\ scenarioOf' = scenarioOf \o sel
     /\ state' = state \o [i \in DOMAIN sel |-> IF i \in now THEN "running" ELSE "idle"]
     /\ collected' = collected \cup {Started(first + i, sel[i]) : i \in now}

(* The arguments or the key are refused, or the probe fails: exit 1 or 2.   *)
PreflightFails ==
  /\ phase = "preflight"
  /\ phase' = "exited"
  /\ exit' \in {"1", "2"}
  /\ UNCHANGED <<lane, scenarioOf, state, collected, aborted, interrupted, report>>

Begin ==
  /\ phase = "preflight"
  /\ phase' = "running"
  /\ CASE lane = "serial" -> \E sel \in Selections : Launch(sel, {1})
       [] lane = "concurrent" -> \E sel \in Selections : Launch(sel, DOMAIN sel)
       [] lane = "payout" -> Launch(<<PayoutScenario>>, {1})
  /\ UNCHANGED <<lane, aborted, interrupted, report, exit>>

Post ==
  /\ lane = "server"
  /\ \E sel \in Selections :
       /\ Len(scenarioOf) + Len(sel) <= MaxRuns
       /\ Launch(sel, DOMAIN sel)
  /\ UNCHANGED <<lane, phase, aborted, interrupted, report, exit>>

GetReport ==
  /\ lane = "server"
  /\ report' = BuildReport(collected)
  /\ UNCHANGED <<lane, phase, scenarioOf, state, collected, aborted, interrupted, exit>>

ReportSignalled(events, early) ==    \* fault: any signal counts as an interruption
  /\ interrupted' = (early \/ aborted)
  /\ report' = BuildReport(events)
  /\ phase' = "writing"

(* The batch is over: the report is built from what was collected and its   *)
(* file is being written.                                                   *)
Report(events, early) ==
  /\ interrupted' = early
  /\ report' = BuildReport(events)
  /\ phase' = "writing"

StillRunning == UNCHANGED <<phase, interrupted, report>>

(* Before each run of a serial batch: stop here?                            *)
Halts == aborted

LastOf(r) ==    \* fault: after a signal nobody waits for the last run
  ~aborted /\ \/ lane = "payout"
              \/ lane = "serial" /\ r = Len(scenarioOf)
              \/ lane = "concurrent" /\ Unfinished = {r}

(* The end of run r is what the batch is waiting for.                       *)
Last(r) ==
  \/ lane = "payout"
  \/ lane = "serial" /\ r = Len(scenarioOf)
  \/ lane = "concurrent" /\ Unfinished = {r}

(* A run ends with its verdict, and the code waiting for it continues: with *)
(* the next run, with the report, or not at all yet.                        *)
RunEnds(r, v) ==
  LET ended == collected \cup {Completed(r, v)}
      after == [state EXCEPT ![r] = v]
      more == lane = "serial" /\ r < Len(scenarioOf)
  IN /\ exit = "none"
     /\ state[r] = "running"
     /\ \/ /\ phase = "running" /\ more /\ ~Halts
           /\ state' = [after EXCEPT ![r + 1] = "running"]
           /\ collected' = ended \cup {Started(r + 1, scenarioOf[r + 1])}
           /\ StillRunning
        \/ /\ phase = "running" /\ (Last(r) \/ (more /\ Halts))
           /\ state' = after
           /\ collected' = ended
           /\ Report(ended, more)
        \/ /\ ~ (phase = "running" /\ (Last(r) \/ more))
           /\ state' = after
           /\ collected' = ended
           /\ StillRunning
     /\ UNCHANGED <<lane, scenarioOf, aborted, exit>>

(* SIGINT or SIGTERM while the handlers are installed.  The race of a       *)
(* concurrent batch is lost to the signal, its runs go on unattended; a     *)
(* serial batch looks at the signal before the next run, a payout never.    *)
Signal ==
  /\ lane # "server"
  /\ phase \in {"running", "writing"}
  /\ ~aborted
  /\ aborted' = TRUE
  /\ IF phase = "running" /\ lane = "concurrent" THEN Report(collected, TRUE) ELSE StillRunning
  /\ UNCHANGED <<lane, scenarioOf, state, collected, exit>>

(* Without handlers a signal kills: before they are installed and after     *)
(* they are taken off.                                                      *)
Killed ==
  /\ phase \in {"preflight", "lingering"}
  /\ phase' = "exited"
  /\ exit' = "killed"
  /\ UNCHANGED <<lane, scenarioOf, state, collected, aborted, interrupted, report>>

(* The report is on disk: an interrupted process leaves at once, another    *)
(* one has nothing left to wait for.                                        *)
Written ==
  /\ phase = "writing"
  /\ phase' = "exited"
  /\ exit' = IF interrupted THEN "130" ELSE CodeOf(report)
  /\ UNCHANGED <<lane, scenarioOf, state, collected, aborted, interrupted, report>>

(* The report cannot be written: main rejects and only sets the exit code;  *)
(* abandoned runs keep the process alive.                                   *)
WriteFails ==
  /\ phase = "writing"
  /\ phase' = "lingering"
  /\ UNCHANGED <<lane, scenarioOf, state, collected, aborted, interrupted, report, exit>>

LoopEmpties ==
  /\ phase = "lingering"
  /\ Unfinished = {}
  /\ phase' = "exited"
  /\ exit' = "1"
  /\ UNCHANGED <<lane, scenarioOf, state, collected, aborted, interrupted, report>>

Next ==
  \/ PreflightFails
  \/ Begin
  \/ Post
  \/ GetReport
  \/ \E r \in Runs, v \in Verdicts : RunEnds(r, v)
  \/ Signal
  \/ Killed
  \/ Written
  \/ WriteFails
  \/ LoopEmpties

Spec == Init /\ [][Next]_vars

(* The process keeps going and every run ends (ScenarioRun: Completes).      *)
FairSpec ==
  /\ Spec
  /\ WF_vars(PreflightFails \/ Begin)
  /\ WF_vars(Written \/ WriteFails)
  /\ WF_vars(LoopEmpties)
  /\ \A r \in 1..MaxRuns : WF_vars(\E v \in Verdicts : r \in Runs /\ RunEnds(r, v))

-----------------------------------------------------------------------------
(* Properties.                                                              *)

(* The report claims a verdict only of a run that reached it, also when the *)
(* report is a snapshot of a batch that was interrupted while runs ended    *)
(* (report.ts: status; "never fabricates" in runner.ts:61-68).              *)
VerdictsReached ==
  \A x \in report.scenarios :
    /\ x.run \in Runs
    /\ scenarioOf[x.run] = x.scenario
    /\ x.status \in Verdicts => state[x.run] = x.status

(* Exit code 0 is earned: every run the caller asked for was started, ended *)
(* and passed, and the report names each of their scenarios, whatever the   *)
(* order in which signals and ends of runs arrived (cli.ts:140-165).        *)
ExitZeroEarned ==
  exit = "0" =>
    /\ Runs # {}
    /\ \A r \in Runs : state[r] = "passed"
    /\ {x.scenario : x \in report.scenarios} = {scenarioOf[r] : r \in Runs}

(* A batch that says it was interrupted really left a run unfinished, and   *)
(* so does the exit code 130 (runner.ts:83: "before every run finished").   *)
InterruptedEarly ==
  [][interrupted' /\ ~interrupted => \E r \in Runs : state'[r] \in {"idle", "running"}]_vars

(* What a server reports of a scenario only moves on: to a later run of it, *)
(* or from partial to the verdict of the same run.  An earlier run that     *)
(* ends late never takes the place of a later one (report.ts:45-50).        *)
ReportsMoveOn ==
  [][\A x \in report.scenarios, y \in report'.scenarios :
       x.scenario = y.scenario =>
         \/ y.run > x.run
         \/ y.run = x.run /\ x.status \in {"partial", y.status}]_vars

(* The command line comes to an end, signals or not, and also when the      *)
(* report cannot be written (cli.ts, runner.ts:125-160).                    *)
CommandEnds == (lane # "server") ~> (exit # "none")

=============================================================================
