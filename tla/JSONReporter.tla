---------------------------- MODULE JSONReporter ----------------------------
(***************************************************************************)
(* reporter.JSONReporter (core/reporter/json.go:47-154) as a record that   *)
(* its methods map to a new one: the suites begun so far, and for the suite*)
(* begun last the entries of its tests under suite and test name, with the *)
(* order in which they were started.  The pointer current is always to the *)
(* last suite.  Elapsed times, tags and error texts are left out.          *)
(***************************************************************************)
EXTENDS Naturals, Sequences

NewReport == [suites |-> <<>>, tests |-> [k \in {} |-> {}], testOrder |-> <<>>]

Key(suite, test) == <<suite, test>>

\* variant: the per-suite state is kept
OnSuiteStartKeeps(r, suite) ==
  [r EXCEPT !.suites = Append(@, [name |-> suite, summary |-> <<>>, tests |-> <<>>])]

OnSuiteStart(r, suite) ==
  [suites |-> Append(r.suites, [name |-> suite, summary |-> <<>>, tests |-> <<>>]),
   tests |-> NewReport.tests,
   testOrder |-> <<>>]

\* a second test of the same name replaces the entry of the first
OnTestStart(r, suite, test) ==
  [r EXCEPT !.tests = [k \in DOMAIN r.tests \cup {Key(suite, test)} |->
                         IF k = Key(suite, test) THEN [name |-> test, steps |-> <<>>, passed |-> FALSE]
                         ELSE r.tests[k]],
            !.testOrder = Append(@, Key(suite, test))]

OnStepResult(r, suite, test, passed) ==
  IF Key(suite, test) \in DOMAIN r.tests
  THEN [r EXCEPT !.tests[Key(suite, test)].steps = Append(@, passed)]
  ELSE r

OnTestEnd(r, suite, test, passed) ==
  IF Key(suite, test) \in DOMAIN r.tests
  THEN [r EXCEPT !.tests[Key(suite, test)].passed = passed]
  ELSE r

\* the loop over testOrder, which takes the keys that have an entry
Entries(r) ==
  LET taken[n \in 0 .. Len(r.testOrder)] ==
        IF n = 0 THEN <<>>
        ELSE IF r.testOrder[n] \in DOMAIN r.tests THEN Append(taken[n - 1], r.tests[r.testOrder[n]])
        ELSE taken[n - 1]
  IN  taken[Len(r.testOrder)]

\* the suite that is closed is the one that was begun last, whatever its name
OnSuiteEnd(r, summary) ==
  IF r.suites = <<>> THEN r
  ELSE [r EXCEPT !.suites[Len(r.suites)].summary = summary,
                 !.suites[Len(r.suites)].tests = @ \o Entries(r)]
=============================================================================
