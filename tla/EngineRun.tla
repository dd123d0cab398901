------------------------------ MODULE EngineRun ------------------------------
(***************************************************************************)
(* One "scrutineer run" from Engine.Run to the exit code: the Pool with one*)
(* goroutine per suite (core/engine/parallel.go), runSuiteSimple in each   *)
(* of them (engine.go:113-214), the results slice, the reporter and the    *)
(* coverage tracker they share, Engine.ExitCode and the coverage gate of   *)
(* cmdRun (cmd/scrutineer/run.go:92-109).                                  *)
(*                                                                         *)
(* Of Runner.RunTest only what the other suites can see is kept: a step is *)
(* one action that passes or fails (StepRunner has the detail).  Telemetry *)
(* is write-only and left out.  A reporter method is one action, although  *)
(* nothing makes it atomic: with more than one suite at a time the calls   *)
(* of the JSON reporter also race, which can only add to what is shown.    *)
(***************************************************************************)
EXTENDS CoverageTracker, JSONReporter, Integers

CONSTANTS Manifests,    \* the sequences of suites to consider
          Configs       \* the configurations to consider

TestRecord == [name : STRING, skip : BOOLEAN, steps : Nat \ {0}]

SuiteRecord == [name : STRING, tests : Seq(TestRecord) \ {<<>>}]

ASSUME ManifestsAssumption == Manifests \subseteq Seq(SuiteRecord)
\* of schema.Config: the size given to NewPool, the coverage gate, which is
\* off at 0, and which reporter is built
ConfigRecord == [parallelism : Nat, threshold : 0 .. 100, reporter : {"json", "ansi"}]
ASSUME ConfigsAssumption == Configs \subseteq ConfigRecord

VARIABLES config,
          manifest, \* the suites of this run
          ctxDone,  \* Ctrl-C: signal.NotifyContext cancels the context
          main,     \* where Pool.Run, and after it cmdRun, is
          next,     \* the loop variable of Pool.Run
          sem,      \* values buffered in the pool's semaphore
          pc,       \* where each suite's goroutine is
          at,       \* the loop variable over the suite's tests
          step,     \* steps of the current test that have run
          passing,  \* whether the current test has not failed
          sr,       \* the goroutine's SuiteResult
          results,  \* the slice Run returns
          report,   \* the JSON reporter
          tracked,  \* the coverage tracker
          exitCode,
          executed  \* history: <<suite, test>> |-> steps that ran and passed

poolVars == <<main, next, sem>>
suiteVars == <<pc, at, step, passing, sr>>
sharedVars == <<results, report, tracked>>
vars == <<config, manifest, ctxDone, poolVars, suiteVars, sharedVars, exitCode, executed>>

\* NewPool
Size == IF config.parallelism < 1 THEN 1 ELSE config.parallelism

Suites == DOMAIN manifest
Name(s) == manifest[s].name
TestsOf(s) == manifest[s].tests
Test(s) == TestsOf(s)[at[s]]

NoResult == [results |-> <<>>, passed |-> 0, failed |-> 0, skipped |-> 0]

Init ==
  /\ config \in Configs
  /\ manifest \in Manifests
  /\ ctxDone = FALSE
  /\ main = "launch"
  /\ next = 1
  /\ sem = 0
  /\ pc = [s \in Suites |-> "unborn"]
  /\ at = [s \in Suites |-> 1]
  /\ step = [s \in Suites |-> 0]
  /\ passing = [s \in Suites |-> TRUE]
  /\ sr = [s \in Suites |-> NoResult]
  /\ results = [s \in Suites |-> NoResult]
  /\ report = NewReport
  /\ tracked = NewTracker
  /\ exitCode = -1
  /\ executed = [s \in Suites |-> [t \in DOMAIN TestsOf(s) |-> 0]]

\* the shared reporter, of which only the JSON one keeps state
Report(updated) == report' = IF config.reporter = "json" THEN updated ELSE report

Goes(s, from, to) == pc[s] = from /\ pc' = [pc EXCEPT ![s] = to]
-----------------------------------------------------------------------------
(* Pool.Run.  wg counts the goroutines launched and not gone.              *)

\* wg.Add, sem <- struct{}{}, go
Launch ==
  /\ main = "launch"
  /\ next \in Suites
  /\ sem < Size
  /\ sem' = sem + 1
  /\ pc' = [pc EXCEPT ![next] = "start"]
  /\ next' = next + 1
  /\ UNCHANGED <<main, at, step, passing, sr, sharedVars, exitCode, executed>>

\* wg.Wait returns
PoolDone ==
  /\ main = "launch"
  /\ next \notin Suites
  /\ \A s \in Suites : pc[s] = "gone"
  /\ main' = "exit"
  /\ UNCHANGED <<next, sem, suiteVars, sharedVars, exitCode, executed>>
-----------------------------------------------------------------------------
(* runSuiteSimple for suite s.                                             *)

StartSuite(s) ==
  /\ Goes(s, "start", "register")
  /\ Report(OnSuiteStart(report, Name(s)))
  /\ UNCHANGED <<poolVars, at, step, passing, sr, results, tracked, exitCode, executed>>

\* variant: the suite is registered with the tests seen so far
RegisterAsItGoes(s) ==
  /\ Goes(s, "register", IF at[s] < Len(TestsOf(s)) THEN "register" ELSE "test")
  /\ tracked' = RegisterTest(RegisterSuite(tracked, Name(s), at[s]),
                             Name(s), Test(s).name, Test(s).steps)
  /\ at' = [at EXCEPT ![s] = IF @ < Len(TestsOf(s)) THEN @ + 1 ELSE 1]
  /\ UNCHANGED <<poolVars, step, passing, sr, results, report, exitCode, executed>>

\* one round of the registration loop; RegisterSuite and RegisterTest lock
\* separately, but nothing can be seen between them
Register(s) ==
  /\ Goes(s, "register", IF at[s] < Len(TestsOf(s)) THEN "register" ELSE "test")
  /\ tracked' = RegisterTest(RegisterSuite(tracked, Name(s), Len(TestsOf(s))),
                             Name(s), Test(s).name, Test(s).steps)
  /\ at' = [at EXCEPT ![s] = IF @ < Len(TestsOf(s)) THEN @ + 1 ELSE 1]
  /\ UNCHANGED <<poolVars, step, passing, sr, results, report, exitCode, executed>>

\* variant: a skipped test is not counted
SkipTestUncounted(s) ==
  /\ Goes(s, "test", "test")
  /\ at[s] <= Len(TestsOf(s)) /\ Test(s).skip
  /\ tracked' = RecordTestSkip(tracked, Name(s), Test(s).name)
  /\ at' = [at EXCEPT ![s] = @ + 1]
  /\ UNCHANGED <<poolVars, step, passing, sr, results, report, exitCode, executed>>

SkipTest(s) ==
  /\ Goes(s, "test", "test")
  /\ at[s] <= Len(TestsOf(s)) /\ Test(s).skip
  /\ sr' = [sr EXCEPT ![s].skipped = @ + 1]
  /\ tracked' = RecordTestSkip(tracked, Name(s), Test(s).name)
  /\ at' = [at EXCEPT ![s] = @ + 1]
  /\ UNCHANGED <<poolVars, step, passing, results, report, exitCode, executed>>

StartTest(s) ==
  /\ Goes(s, "test", "step")
  /\ at[s] <= Len(TestsOf(s)) /\ ~Test(s).skip
  /\ Report(OnTestStart(report, Name(s), Test(s).name))
  /\ step' = [step EXCEPT ![s] = 0]
  /\ passing' = [passing EXCEPT ![s] = TRUE]
  /\ UNCHANGED <<poolVars, at, sr, results, tracked, exitCode, executed>>

\* a step of the test, past the look at the context, and its OnStepResult;
\* RecordStep counts a step whose connector call came back, so also one that
\* failed on a capture or an assertion
RunStep(s, ok) ==
  /\ Goes(s, "step", IF ok /\ step[s] + 1 < Test(s).steps THEN "step" ELSE "verdict")
  /\ ~ctxDone
  /\ step' = [step EXCEPT ![s] = @ + 1]
  /\ passing' = [passing EXCEPT ![s] = ok]
  /\ tracked' \in IF ok THEN {RecordStep(tracked, Name(s), Test(s).name)}
                  ELSE {tracked, RecordStep(tracked, Name(s), Test(s).name)}
  /\ executed' = IF ok THEN [executed EXCEPT ![s][at[s]] = @ + 1] ELSE executed
  /\ Report(OnStepResult(report, Name(s), Test(s).name, ok))
  /\ UNCHANGED <<poolVars, at, sr, results, exitCode>>

\* variant: a test that is cut short keeps the verdict it had
CutTestQuietly(s) ==
  /\ Goes(s, "step", "verdict")
  /\ ctxDone
  /\ UNCHANGED <<poolVars, at, step, passing, sr, sharedVars, exitCode, executed>>

\* ctx.Err() before a step: the test fails, the reporter is not told of a step
CutTest(s) ==
  /\ Goes(s, "step", "verdict")
  /\ ctxDone
  /\ passing' = [passing EXCEPT ![s] = FALSE]
  /\ UNCHANGED <<poolVars, at, step, sr, sharedVars, exitCode, executed>>

\* RunTest returns, the result is appended
FinishTest(s) ==
  /\ Goes(s, "verdict", "report")
  /\ tracked' = RecordTestRun(tracked, Name(s), Test(s).name)
  /\ sr' = [sr EXCEPT ![s].results = Append(@, passing[s])]
  /\ UNCHANGED <<poolVars, at, step, passing, results, report, exitCode, executed>>

EndTest(s) ==
  /\ Goes(s, "report", "test")
  /\ Report(OnTestEnd(report, Name(s), Test(s).name, passing[s]))
  /\ at' = [at EXCEPT ![s] = @ + 1]
  /\ UNCHANGED <<poolVars, step, passing, sr, results, tracked, exitCode, executed>>

\* summarise adds the flags of Results up
Summarised(r) ==
  [r EXCEPT !.passed = @ + Cardinality({n \in DOMAIN r.results : r.results[n]}),
            !.failed = @ + Cardinality({n \in DOMAIN r.results : ~r.results[n]})]

Counts(r) == <<r.passed, r.failed, r.skipped>>

EndSuite(s) ==
  /\ Goes(s, "test", "store")
  /\ at[s] > Len(TestsOf(s))
  /\ sr' = [sr EXCEPT ![s] = Summarised(@)]
  /\ Report(OnSuiteEnd(report, Counts(sr'[s])))
  /\ UNCHANGED <<poolVars, at, step, passing, results, tracked, exitCode, executed>>

\* results[index] = sr, under mu
Store(s) ==
  /\ Goes(s, "store", "release")
  /\ results' = [results EXCEPT ![s] = sr[s]]
  /\ UNCHANGED <<poolVars, at, step, passing, sr, report, tracked, exitCode, executed>>

\* variant: the slot is not given back
ReleaseNothing(s) ==
  /\ Goes(s, "release", "gone")
  /\ UNCHANGED <<poolVars, at, step, passing, sr, sharedVars, exitCode, executed>>

\* the deferred <-sem, and wg.Done
Release(s) ==
  /\ Goes(s, "release", "gone")
  /\ sem' = sem - 1
  /\ UNCHANGED <<main, next, at, step, passing, sr, sharedVars, exitCode, executed>>
-----------------------------------------------------------------------------
(* cmdRun.                                                                 *)

\* eng.ExitCode(results)
ComputeExitCode ==
  /\ main = "exit"
  /\ exitCode' = IF \E s \in Suites : results[s].failed > 0 THEN 1 ELSE 0
  /\ main' = "gate"
  /\ UNCHANGED <<next, sem, suiteVars, sharedVars, executed>>

\* variant: the gate decides alone
CheckGateOverrules ==
  /\ main = "gate"
  /\ exitCode' = IF config.threshold > 0 /\ BelowThreshold(tracked, config.threshold) THEN 1 ELSE 0
  /\ main' = "done"
  /\ UNCHANGED <<next, sem, suiteVars, sharedVars, executed>>

\* gate.Check: it can only turn OK into TestFailure
CheckGate ==
  /\ main = "gate"
  /\ exitCode' = IF config.threshold > 0 /\ BelowThreshold(tracked, config.threshold) /\ exitCode = 0
                 THEN 1 ELSE exitCode
  /\ main' = "done"
  /\ UNCHANGED <<next, sem, suiteVars, sharedVars, executed>>

Interrupt ==
  /\ ~ctxDone
  /\ main = "launch"
  /\ ctxDone' = TRUE
  /\ UNCHANGED <<config, manifest, poolVars, suiteVars, sharedVars, exitCode, executed>>
-----------------------------------------------------------------------------
MainStep == Launch \/ PoolDone \/ ComputeExitCode \/ CheckGate

SuiteStep(s) ==
  \/ StartSuite(s) \/ Register(s) \/ SkipTest(s) \/ StartTest(s)
  \/ (\E ok \in BOOLEAN : RunStep(s, ok)) \/ CutTest(s)
  \/ FinishTest(s) \/ EndTest(s) \/ EndSuite(s) \/ Store(s) \/ Release(s)

Step == (MainStep \/ \E s \in Suites : SuiteStep(s)) /\ UNCHANGED <<config, manifest, ctxDone>>

Next == Step \/ Interrupt

\* goroutines that can run do run, and a step comes back
Spec == Init /\ [][Next]_vars /\ WF_vars(Step)
-----------------------------------------------------------------------------
Running == {s \in Suites : pc[s] \notin {"unborn", "gone"}}

(* parallel.go:5 "runs tests in parallel with bounded concurrency": the    *)
(* suites at work are no more than the pool has slots, and the semaphore   *)
(* holds one value for each of them.                                       *)
PoolBound == Cardinality(Running) = sem /\ sem <= Size

\* the tests of suite s that are to be run, and the rank of such a test among them
PlacesToRun(s) == {t \in DOMAIN TestsOf(s) : ~TestsOf(s)[t].skip}
Rank(s, t) == Cardinality({u \in PlacesToRun(s) : u <= t})

\* names that tell suites, and tests of a suite, apart
SuitesNamed == \A s, u \in Suites : Name(s) = Name(u) => s = u
TestsNamed ==
  \A s \in Suites : \A t, w \in DOMAIN TestsOf(s) : TestsOf(s)[t].name = TestsOf(s)[w].name => t = w

(* What Run returns is complete, whatever the order in which the suites    *)
(* finish and whenever the run is interrupted: at each suite's own place a *)
(* result with one flag per test that was to run, and counts that add up to*)
(* the suite's tests.  Until then PoolBound holds.                         *)
ResultsComplete ==
  /\ PoolBound
  /\ main # "launch" => \A s \in Suites :
       /\ Len(results[s].results) = Cardinality(PlacesToRun(s))
       /\ results[s].passed + results[s].failed = Cardinality(PlacesToRun(s))
       /\ results[s].skipped = Len(TestsOf(s)) - Cardinality(PlacesToRun(s))

(* exitcode.go:5 "OK indicates all tests passed", and the gate: code 0     *)
(* means that every step of every test that was to run did run and pass,   *)
(* and that coverage is at the threshold; code 1 means that some step did  *)
(* not pass or was cut off by the interrupt, or that coverage is below it. *)
ExitCodeSound ==
  LET allPassed == \A s \in Suites : \A t \in DOMAIN TestsOf(s) :
        TestsOf(s)[t].skip \/ executed[s][t] = TestsOf(s)[t].steps
      gateMet == config.threshold = 0 \/ ~BelowThreshold(tracked, config.threshold)
  IN main = "done" => (exitCode = 0 <=> allPassed /\ gateMet)

(* With suites and tests of distinct names coverage adds up at the end:    *)
(* every suite is there with all its tests, each of them was either run or *)
(* skipped, and no test has more steps executed than it has.               *)
CoverageAddsUp ==
  SuitesNamed /\ TestsNamed /\ main # "launch" => \A s \in Suites :
    /\ Name(s) \in DOMAIN tracked
    /\ TotalTests(tracked, Name(s)) = Len(TestsOf(s))
    /\ RanTests(tracked, Name(s)) = Cardinality(PlacesToRun(s))
    /\ SkippedTests(tracked, Name(s)) = Len(TestsOf(s)) - Cardinality(PlacesToRun(s))
    /\ \A t \in DOMAIN TestsOf(s) :
         tracked[Name(s)].tests[TestsOf(s)[t].name].executed <= TestsOf(s)[t].steps

\* the finished JSON report lists every suite, each with its own summary and
\* with one entry for each of its tests that was to run, in order, with the
\* verdict of that test and the steps reported for it
ReportMatches ==
  /\ Len(report.suites) = Len(manifest)
  /\ \A s \in Suites : \E k \in DOMAIN report.suites :
       LET entry == report.suites[k] IN
       /\ entry.name = Name(s)
       /\ entry.summary = Counts(results[s])
       /\ Len(entry.tests) = Cardinality(PlacesToRun(s))
       /\ \A t \in PlacesToRun(s) :
            LET told == entry.tests[Rank(s, t)] IN
            /\ told.name = TestsOf(s)[t].name
            /\ told.passed = results[s].results[Rank(s, t)]
            /\ Len(told.steps) <= TestsOf(s)[t].steps
            /\ told.passed => told.steps = [i \in 1 .. TestsOf(s)[t].steps |-> TRUE]

Reported == main = "done" /\ config.reporter = "json"

(* With one suite at a time, and tests of distinct names, the JSON report  *)
(* says of every suite and test what happened.                             *)
SequentialReportFaithful == Reported /\ Size = 1 /\ TestsNamed => ReportMatches

(* reporter.go:48 "Events are delivered in lifecycle order: OnSuiteStart,  *)
(* then for each test OnTestStart / OnStepResult* / OnTestEnd, then        *)
(* OnSuiteEnd": so the report is faithful however many suites run at once. *)
ReportFaithful == Reported => ReportMatches

(* The run comes to an exit code, interrupted or not.                      *)
RunEnds == <>(main = "done")
=============================================================================
