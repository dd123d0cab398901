--------------------------- MODULE CoverageTracker ---------------------------
(***************************************************************************)
(* coverage.Tracker, its Results and the coverage gate                     *)
(* (core/coverage/coverage.go, gate.go, model.go).  A tracker is a function*)
(* from suite names to what is known of the suite; every method below is   *)
(* one critical section of Tracker.mu.  Assertions are counted just as     *)
(* steps are and are left to StepRunner; the insertion orders only matter  *)
(* to the listing.                                                         *)
(***************************************************************************)
EXTENDS Naturals, FiniteSets, FiniteSetsExt

NewTracker == [s \in {} |-> {}]

\* the first registration of a name decides
RegisterSuite(t, suite, testCount) ==
  IF suite \in DOMAIN t THEN t
  ELSE [n \in DOMAIN t \cup {suite} |->
          IF n = suite THEN [testCount |-> testCount, tests |-> [k \in {} |-> {}]] ELSE t[n]]

RegisterTest(t, suite, test, stepCount) ==
  IF suite \notin DOMAIN t \/ test \in DOMAIN t[suite].tests THEN t
  ELSE [t EXCEPT ![suite].tests =
          [n \in DOMAIN t[suite].tests \cup {test} |->
             IF n = test THEN [steps |-> stepCount, executed |-> 0, ran |-> FALSE, skipped |-> FALSE]
             ELSE t[suite].tests[n]]]

\* findTest: what is recorded for a name nobody registered is dropped
Found(t, suite, test) == suite \in DOMAIN t /\ test \in DOMAIN t[suite].tests

RecordTestRun(t, suite, test) ==
  IF Found(t, suite, test) THEN [t EXCEPT ![suite].tests[test].ran = TRUE] ELSE t

RecordTestSkip(t, suite, test) ==
  IF Found(t, suite, test) THEN [t EXCEPT ![suite].tests[test].skipped = TRUE] ELSE t

RecordStep(t, suite, test) ==
  IF Found(t, suite, test) THEN [t EXCEPT ![suite].tests[test].executed = @ + 1] ELSE t

\* Results, per suite
TotalTests(t, suite) == t[suite].testCount
RanTests(t, suite) ==
  Cardinality({n \in DOMAIN t[suite].tests : t[suite].tests[n].ran})
SkippedTests(t, suite) ==
  Cardinality({n \in DOMAIN t[suite].tests : t[suite].tests[n].skipped})

AllTests(t) == MapThenSumSet(LAMBDA suite : TotalTests(t, suite), DOMAIN t)
AllRan(t) == MapThenSumSet(LAMBDA suite : RanTests(t, suite), DOMAIN t)

\* TotalPercent < threshold, as integers; without tests the percentage is 0
BelowThreshold(t, threshold) ==
  IF AllTests(t) = 0 THEN 0 < threshold ELSE 100 * AllRan(t) < threshold * AllTests(t)
=============================================================================
