----------------------------- MODULE StepRunner -----------------------------
(***************************************************************************)
(* Runner.RunTest and Runner.runStep (core/engine/runner.go:37-228): one   *)
(* test, its steps in order, each with a connector of its own that is set  *)
(* up, used and torn down again.  Every call out of the runner may fail;   *)
(* the context may be cancelled at any moment.                             *)
(*                                                                         *)
(* A step is what the runner reads of schema.TestStep: which connector it  *)
(* resolves to, the variables its parameters mention, the variables it     *)
(* captures, and how many assertions it has.                               *)
(***************************************************************************)
EXTENDS Naturals, Sequences, FiniteSets

CONSTANTS Tests,    \* the tests to consider, each a sequence of steps
          Vars      \* capture variables

StepRecord == [connector : {"none", "unknown", "known"},
               uses : SUBSET Vars, captures : SUBSET Vars, asserts : Nat]

ASSUME TestsAssumption == Tests \subseteq Seq(StepRecord)

VARIABLES test,       \* the test being run
          ctxDone,    \* ctx.Err() # nil
          pc,         \* where RunTest and runStep are
          step,       \* index of the current step, from 1
          live,       \* steps whose connector is set up and not torn down
          store,      \* variables with a captured value in tctx.Store
          toCapture,  \* captures of the step not processed yet
          checked,    \* assertions of the step evaluated so far
          ok,         \* whether the step that is being left has passed
          results,    \* stepResults, as Passed flags
          reported,   \* what OnStepResult was called with
          tel,        \* telemetry: <<event, step>> in the order written
          cov         \* the coverage tracker's entry of this test

stepVars == <<live, store, toCapture, checked, ok>>
testVars == <<step, results, reported>>
logVars == <<tel, cov>>
vars == <<test, ctxDone, pc, stepVars, testVars, logVars>>

\* the local variable passed of RunTest
passed == \A k \in DOMAIN results : results[k]

Current == test[step]

Emit(event) == tel' = Append(tel, <<event, step>>)

Init ==
  /\ test \in Tests
  /\ ctxDone \in BOOLEAN
  /\ pc = "enter"
  /\ step = 1
  /\ live = {}
  /\ store \in SUBSET Vars      \* captures of earlier tests that share the context
  /\ toCapture = {}
  /\ checked = 0
  /\ ok = TRUE
  /\ results = <<>>
  /\ reported = <<>>
  /\ tel = <<>>
  /\ cov = [runs |-> 0, steps |-> 0, passedAsserts |-> 0, failedAsserts |-> 0]
-----------------------------------------------------------------------------
(* RunTest, around the steps.                                              *)

EnterTest ==
  /\ pc = "enter"
  /\ Emit("TestStart")
  /\ pc' = "check"
  /\ UNCHANGED <<testVars, stepVars, cov>>

\* no step left
StepsOver ==
  /\ pc = "check"
  /\ step > Len(test)
  /\ pc' = "verdict"
  /\ UNCHANGED <<testVars, stepVars, logVars>>

\* variant: a cancelled test keeps the verdict of the steps it has run
StepCancelledQuietly ==
  /\ pc = "check"
  /\ step <= Len(test)
  /\ ctxDone
  /\ pc' = "verdict"
  /\ UNCHANGED <<testVars, stepVars, logVars>>

\* ctx.Err() # nil before a step: a failed result that is not reported
StepCancelled ==
  /\ pc = "check"
  /\ step <= Len(test)
  /\ ctxDone
  /\ results' = Append(results, FALSE)
  /\ pc' = "verdict"
  /\ UNCHANGED <<step, stepVars, reported, logVars>>

NextStep ==
  /\ pc = "check"
  /\ step <= Len(test)
  /\ ~ctxDone
  /\ pc' = "start"
  /\ UNCHANGED <<testVars, stepVars, logVars>>

\* variant: a failed step is tried once more
ReportStepRetries ==
  /\ pc = "report"
  /\ results' = Append(results, ok)
  /\ reported' = Append(reported, ok)
  /\ IF ok THEN step' = step + 1 /\ pc' = "check"
           ELSE UNCHANGED step /\ pc' = IF Len(results) < step THEN "check" ELSE "verdict"
  /\ UNCHANGED <<stepVars, logVars>>

\* runStep came back: OnStepResult, and on to the next step if it passed
ReportStep ==
  /\ pc = "report"
  /\ results' = Append(results, ok)
  /\ reported' = Append(reported, ok)
  /\ IF ok THEN step' = step + 1 /\ pc' = "check"
           ELSE UNCHANGED step /\ pc' = "verdict"
  /\ UNCHANGED <<stepVars, logVars>>

\* TestPass or TestFail, and RecordTestRun
Verdict ==
  /\ pc = "verdict"
  /\ Emit(IF passed THEN "TestPass" ELSE "TestFail")
  /\ cov' = [cov EXCEPT !.runs = @ + 1]
  /\ pc' = "done"
  /\ UNCHANGED <<testVars, stepVars>>
-----------------------------------------------------------------------------
(* runStep.  A return before the deferred teardown is registered goes      *)
(* straight to the report; a return after it goes through Teardown.        *)

StartStep ==
  /\ pc = "start"
  /\ Emit("StepStart")
  /\ IF Current.connector = "none" THEN pc' = "report" /\ ok' = FALSE
                                   ELSE pc' = "lookup" /\ UNCHANGED ok
  /\ UNCHANGED <<testVars, live, store, toCapture, checked, cov>>

\* registry.Get, then the ConnectorSetup record
LookUp ==
  /\ pc = "lookup"
  /\ \/ /\ Current.connector = "known"
        /\ Emit("ConnectorSetup")
        /\ pc' = "setup"
        /\ UNCHANGED ok
     \/ /\ Current.connector = "unknown"
        /\ Emit("Error")
        /\ pc' = "report" /\ ok' = FALSE
  /\ UNCHANGED <<testVars, live, store, toCapture, checked, cov>>

SetUp ==
  /\ pc = "setup"
  /\ live' = live \cup {step}
  /\ pc' = "interpolate"
  /\ UNCHANGED <<testVars, store, toCapture, checked, ok, logVars>>

\* conn.Setup fails: the deferred teardown is not registered yet
SetUpFails ==
  /\ pc = "setup"
  /\ Emit("Error")
  /\ pc' = "report" /\ ok' = FALSE
  /\ UNCHANGED <<testVars, live, store, toCapture, checked, cov>>

\* return with an error between the registration of the defer and its run
FailTo(target) ==
  /\ Emit("Error")
  /\ ok' = FALSE
  /\ pc' = target

Interpolate ==
  /\ pc = "interpolate"
  /\ \/ Current.uses \subseteq store /\ pc' = "execute" /\ UNCHANGED <<ok, tel>>
     \/ ~(Current.uses \subseteq store) /\ FailTo("teardown")
  /\ UNCHANGED <<testVars, live, store, toCapture, checked, cov>>

\* variant: an error of Execute returns without running the teardown
ExecuteNoTeardown ==
  /\ pc = "execute"
  /\ \/ /\ cov' = [cov EXCEPT !.steps = @ + 1]
        /\ toCapture' = Current.captures
        /\ pc' = "capture"
        /\ UNCHANGED <<ok, tel>>
     \/ FailTo("report") /\ UNCHANGED <<toCapture, cov>>
  /\ UNCHANGED <<testVars, live, store, checked>>

\* conn.Execute, then RecordStep
Execute ==
  /\ pc = "execute"
  /\ \/ /\ cov' = [cov EXCEPT !.steps = @ + 1]
        /\ toCapture' = Current.captures
        /\ pc' = "capture"
        /\ UNCHANGED <<ok, tel>>
     \/ FailTo("teardown") /\ UNCHANGED <<toCapture, cov>>
  /\ UNCHANGED <<testVars, live, store, checked>>

\* one entry of step.Capture, a map ranged over in any order; the entries
\* stored before a failing one stay stored
Capture(v) ==
  /\ pc = "capture"
  /\ v \in toCapture
  /\ \/ store' = store \cup {v} /\ toCapture' = toCapture \ {v} /\ UNCHANGED <<pc, ok, tel>>
     \/ FailTo("teardown") /\ toCapture' = {} /\ UNCHANGED store
  /\ UNCHANGED <<testVars, live, checked, cov>>

CapturesOver ==
  /\ pc = "capture"
  /\ toCapture = {}
  /\ checked' = 0
  /\ pc' = "assert"
  /\ UNCHANGED <<testVars, live, store, toCapture, ok, logVars>>

\* evaluateAssertion, the Assertion record and RecordAssertion
Assert ==
  /\ pc = "assert"
  /\ checked < Current.asserts
  /\ checked' = checked + 1
  /\ Emit("Assertion")
  /\ \/ /\ cov' = [cov EXCEPT !.passedAsserts = @ + 1]
        /\ UNCHANGED <<pc, ok>>
     \/ /\ cov' = [cov EXCEPT !.failedAsserts = @ + 1]
        /\ ok' = FALSE
        /\ pc' = "teardown"
  /\ UNCHANGED <<testVars, live, store, toCapture>>

\* StepEnd is written on the way out of a step that passed
AssertsOver ==
  /\ pc = "assert"
  /\ checked = Current.asserts
  /\ Emit("StepEnd")
  /\ ok' = TRUE
  /\ pc' = "teardown"
  /\ UNCHANGED <<testVars, live, store, toCapture, checked, cov>>

\* the deferred function: the ConnectorTeardown record, then conn.Teardown
Teardown ==
  /\ pc = "teardown"
  /\ Emit("ConnectorTeardown")
  /\ live' = live \ {step}
  /\ pc' = "report"
  /\ UNCHANGED <<testVars, store, toCapture, checked, ok, cov>>

Cancel ==
  /\ ~ctxDone
  /\ pc # "done"
  /\ ctxDone' = TRUE
  /\ UNCHANGED <<test, pc, testVars, stepVars, logVars>>
-----------------------------------------------------------------------------
Step ==
  /\ UNCHANGED <<test, ctxDone>>
  /\ \/ EnterTest \/ StepsOver \/ StepCancelled \/ NextStep \/ ReportStep \/ Verdict
     \/ StartStep \/ LookUp \/ SetUp \/ SetUpFails \/ Interpolate \/ Execute
     \/ (\E v \in Vars : Capture(v)) \/ CapturesOver \/ Assert \/ AssertsOver
     \/ Teardown

Next == Step \/ Cancel

\* the runner goes on; connector calls are assumed to come back
Spec == Init /\ [][Next]_vars /\ WF_vars(Step)
-----------------------------------------------------------------------------
\* steps that have an event in the telemetry log
With(event) == {k \in DOMAIN test : \E n \in DOMAIN tel : tel[n] = <<event, k>>}

\* how many records of an event the log holds for a step
Times(event, k) == Cardinality({n \in DOMAIN tel : tel[n] = <<event, k>>})

\* the assertions of steps 1 .. n
AssertsUpTo[n \in 0 .. Len(test)] == IF n = 0 THEN 0 ELSE AssertsUpTo[n - 1] + test[n].asserts

(* A verdict of "passed" means that every step ran to its end and every    *)
(* assertion of every step was evaluated and held; a verdict of "failed"   *)
(* rests on exactly one failed step, the last one in the result.  The      *)
(* reporter saw the same steps, but for the failure of a step that was     *)
(* never begun because of a cancellation.                                  *)
VerdictSound ==
  pc = "done" =>
    /\ cov.runs = 1
    /\ passed =>
         /\ results = [k \in DOMAIN test |-> TRUE]
         /\ cov.steps = Len(test)
         /\ With("StepEnd") = DOMAIN test
         /\ cov.passedAsserts = AssertsUpTo[Len(test)]
         /\ cov.failedAsserts = 0
    /\ ~passed =>
         /\ results # <<>>
         /\ \A k \in DOMAIN results : results[k] <=> k < Len(results)
    /\ \/ reported = results
       \/ ctxDone /\ results = Append(reported, FALSE) /\ step \notin With("StepStart")

(* A connector that was set up is torn down before its step is reported,   *)
(* so no two connectors of a test are ever up together, on whichever path  *)
(* the step is left.                                                       *)
NoConnectorOutlivesStep ==
  /\ pc \in {"check", "start", "report", "verdict", "done"} => live = {}
  /\ Cardinality(live) <= 1

(* The telemetry log of a test is well bracketed: one verdict, at the end; *)
(* for each step at most one record of each lifecycle event, the teardown  *)
(* after the setup, and everything a step does between its StepStart and   *)
(* its ConnectorTeardown.                                                  *)
TelemetryBracketed ==
  /\ \A k \in DOMAIN test : \A e \in {"StepStart", "ConnectorSetup", "StepEnd",
       "ConnectorTeardown"} : Times(e, k) <= 1
  /\ \A m, n \in DOMAIN tel :
       /\ tel[m][1] \in {"TestPass", "TestFail"} => m = Len(tel)
       /\ m < n => tel[m][2] <= tel[n][2]
       /\ tel[n] = <<"ConnectorTeardown", tel[m][2]>> /\ m > n =>
            tel[m][1] \in {"TestPass", "TestFail"}

=============================================================================
