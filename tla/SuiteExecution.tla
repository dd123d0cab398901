---------------------------- MODULE SuiteExecution ----------------------------
(***************************************************************************)
(* Engine.runSuiteWithExecution and runInteraction                         *)
(* (core/engine/engine.go:219-485): a suite that has an execution block or *)
(* interactions.  LoopController runs passes; in each pass the outer       *)
(* dispatcher runs interactions, and in each interaction an inner          *)
(* dispatcher runs tests, all of them adding to one SuiteResult under mu.  *)
(*                                                                         *)
(* The dispatchers appear here as what ConcurrentDispatcher and            *)
(* SerialDispatcher are checked to do: a look at the context, then the     *)
(* work; and a concurrent one may, once the context is done, drain the     *)
(* slot of a live goroutine and never return (LoseSlot).  A panic ends the *)
(* process in this path and is left out, as is telemetry.                  *)
(***************************************************************************)
EXTENDS LoopController, Sequences, FiniteSets, FiniteSetsExt, CoverageTracker

Modes == {"sequential", "concurrent", "random", "weighted"}

CONSTANT Suites   \* the suites to consider

SuiteRecord == [mode : Modes, concurrency : Nat,
                fleet : {"none", "known", "unknown"},
                interactions : Seq([mode : Modes, tests : Seq([skip : BOOLEAN])])]

ASSUME SuitesAssumption == Suites \subseteq SuiteRecord
VARIABLES suite,      \* the suite, normalised: tests alone are one interaction
          pc,         \* where runSuiteWithExecution is
          fleetUp,    \* the orchestrator is set up and not torn down
          inter,      \* this pass: where each interaction is
          picks,      \* this pass: how many tests its inner dispatcher picked
          busy,       \* this pass: its tests that are picked or running
          lost,       \* a dispatcher waits for a drained slot for ever
          sr,         \* the SuiteResult: results by verdict, and skipped
          starts,     \* OnSuiteStart calls
          tracked,    \* the coverage tracker
          ran         \* history: how often each test was begun

suiteVars == <<suite, pc, fleetUp, starts>>
passVars == <<inter, picks, busy>>
countVars == <<lost, sr, tracked, ran>>
vars == <<loopVars, suiteVars, passVars, countVars>>

Interactions == DOMAIN suite.interactions
TestsOf(j) == DOMAIN suite.interactions[j].tests
ModeOf(j) == suite.interactions[j].mode
Skip(j, t) == suite.interactions[j].tests[t].skip

\* NewDispatcher: only the concurrent mode looks at its concurrency
Slots(mode, concurrency) ==
  IF mode = "concurrent" /\ concurrency > 1 THEN concurrency ELSE 1

OuterSlots == Slots(suite.mode, suite.concurrency)
InnerSlots(j) == Slots(ModeOf(j), 0)

Init ==
  /\ LoopInit
  /\ suite \in Suites
  /\ pc = "start"
  /\ fleetUp = FALSE
  /\ inter = [j \in Interactions |-> "idle"]
  /\ picks = [j \in Interactions |-> <<>>]
  /\ busy = [j \in Interactions |-> {}]
  /\ lost = FALSE
  /\ sr = [passed |-> 0, failed |-> 0, skipped |-> 0]
  /\ starts = 0
  /\ tracked = NewTracker
  /\ ran = [j \in Interactions |-> [t \in TestsOf(j) |-> 0]]
-----------------------------------------------------------------------------
(* runSuiteWithExecution.                                                  *)

\* OnSuiteStart, and the fleet: a setup that fails ends the suite at once,
\* after a second OnSuiteStart
StartSuite ==
  /\ pc = "start"
  /\ IF suite.fleet = "unknown"
     THEN /\ pc' = "done"
          /\ starts' = starts + 2
          /\ sr' = [sr EXCEPT !.failed = 1]
          /\ UNCHANGED fleetUp
     ELSE /\ pc' = "loop"
          /\ starts' = starts + 1
          /\ fleetUp' = (suite.fleet = "known")
          /\ UNCHANGED sr
  /\ UNCHANGED <<loopVars, suite, passVars, lost, tracked, ran>>

EnterPass ==
  /\ pc = "loop"
  /\ BeginPass
  /\ inter' = [j \in Interactions |-> "idle"]
  /\ picks' = [j \in Interactions |-> <<>>]
  /\ UNCHANGED <<suiteVars, busy, countVars>>

Started == {j \in Interactions : inter[j] # "idle"}
Over == {j \in Interactions : inter[j] = "over"}

\* a weighted pass dispatches one interaction, any other pass all of them
DispatchCount == IF suite.mode = "weighted" THEN 1 ELSE Len(suite.interactions)

\* variant: the dispatcher does not wait for its goroutines
LeavePassEarly ==
  /\ pc = "loop"
  /\ ~lost
  /\ Cardinality(Started) = DispatchCount \/ RunDone
  /\ EndPass
  /\ UNCHANGED <<suiteVars, passVars, countVars>>

\* variant: a pass that is cut short is waited for
LeavePassWaitsForAll ==
  /\ pc = "loop"
  /\ ~lost
  /\ Cardinality(Over) = DispatchCount
  /\ EndPass
  /\ UNCHANGED <<suiteVars, passVars, countVars>>

\* the outer Dispatch returns
LeavePass ==
  /\ pc = "loop"
  /\ ~lost
  /\ Started = Over
  /\ Cardinality(Started) = DispatchCount \/ RunDone
  /\ EndPass
  /\ UNCHANGED <<suiteVars, passVars, countVars>>

BetweenPasses ==
  /\ pc = "loop"
  /\ StopAtTop \/ IntervalOver \/ IntervalCut
  /\ UNCHANGED <<suiteVars, passVars, countVars>>

\* summarise, OnSuiteEnd, and the deferred Teardown of the fleet
EndSuite ==
  /\ pc = "loop"
  /\ loop = "done"
  /\ pc' = "done"
  /\ fleetUp' = FALSE
  /\ UNCHANGED <<loopVars, suite, starts, passVars, countVars>>
-----------------------------------------------------------------------------
(* runInteraction for interaction j, in this pass.                         *)

\* which interaction the outer dispatcher may begin next
MayBegin(j) ==
  CASE suite.mode = "sequential" -> j = Cardinality(Started) + 1
    [] suite.mode = "weighted" -> Started = {}
    [] suite.mode = "random" -> TRUE
    [] suite.mode = "concurrent" ->
         Cardinality({i \in Interactions \ Over : i < j}) < OuterSlots

BeginInteraction(j) ==
  /\ loop = "pass"
  /\ ~RunDone
  /\ inter[j] = "idle"
  /\ Cardinality(Started \ Over) < OuterSlots
  /\ MayBegin(j)
  /\ inter' = [inter EXCEPT ![j] = "running"]
  /\ UNCHANGED <<loopVars, suiteVars, picks, busy, countVars>>

\* which test the inner dispatcher may pick next
MayPick(j, t) ==
  CASE ModeOf(j) \in {"sequential", "concurrent"} -> t = Len(picks[j]) + 1
    [] ModeOf(j) = "random" -> \A n \in DOMAIN picks[j] : picks[j][n] # t
    [] ModeOf(j) = "weighted" -> TRUE

\* past the dispatcher's look at the context
PickTest(j, t) ==
  /\ inter[j] = "running"
  /\ ~RunDone
  /\ Len(picks[j]) < Cardinality(TestsOf(j))
  /\ Cardinality(busy[j]) < InnerSlots(j)
  /\ MayPick(j, t)
  /\ picks' = [picks EXCEPT ![j] = Append(@, t)]
  /\ busy' = [busy EXCEPT ![j] = @ \cup {[test |-> t, at |-> "picked", late |-> FALSE]}]
  /\ UNCHANGED <<loopVars, suiteVars, inter, countVars>>

\* a goroutine of a concurrent dispatcher looks at the context once more
DropTest(j, b) ==
  /\ b.at = "picked"
  /\ RunDone /\ ModeOf(j) = "concurrent"
  /\ busy' = [busy EXCEPT ![j] = @ \ {b}]
  /\ UNCHANGED <<loopVars, suiteVars, inter, picks, countVars>>

SkipTest(j, b) ==
  /\ b.at = "picked"
  /\ Skip(j, b.test)
  /\ sr' = [sr EXCEPT !.skipped = @ + 1]
  /\ busy' = [busy EXCEPT ![j] = @ \ {b}]
  /\ UNCHANGED <<loopVars, suiteVars, inter, picks, lost, tracked, ran>>

\* OnTestStart and RunTest
BeginTest(j, b) ==
  /\ b.at = "picked"
  /\ ~Skip(j, b.test)
  /\ busy' = [busy EXCEPT ![j] = (@ \ {b}) \cup
                {[test |-> b.test, at |-> "running", late |-> RunDone]}]
  /\ ran' = [ran EXCEPT ![j][b.test] = @ + 1]
  /\ UNCHANGED <<loopVars, suiteVars, inter, picks, lost, sr, tracked>>

\* RunTest returns and its result is appended; begun after the context was
\* done it cannot have passed, since every test has a step.  The suite was
\* never registered with the tracker, which forgets the run.
FinishTest(j, b, ok) ==
  /\ b.at = "running"
  /\ b.late => ~ok
  /\ sr' = IF ok THEN [sr EXCEPT !.passed = @ + 1] ELSE [sr EXCEPT !.failed = @ + 1]
  /\ tracked' = RecordTestRun(tracked, "suite", <<j, b.test>>)
  /\ busy' = [busy EXCEPT ![j] = @ \ {b}]
  /\ UNCHANGED <<loopVars, suiteVars, inter, picks, lost, ran>>

\* variant: the inner dispatcher stops before its last pick
EndInteractionOneShort(j) ==
  /\ inter[j] = "running"
  /\ busy[j] = {}
  /\ Len(picks[j]) + 1 >= Cardinality(TestsOf(j)) \/ RunDone
  /\ inter' = [inter EXCEPT ![j] = "over"]
  /\ UNCHANGED <<loopVars, suiteVars, picks, busy, countVars>>

\* the inner Dispatch returns
EndInteraction(j) ==
  /\ inter[j] = "running"
  /\ busy[j] = {}
  /\ Len(picks[j]) = Cardinality(TestsOf(j)) \/ RunDone
  /\ inter' = [inter EXCEPT ![j] = "over"]
  /\ UNCHANGED <<loopVars, suiteVars, picks, busy, countVars>>

\* the drain of a concurrent dispatcher takes the slot of a live goroutine:
\* that dispatcher, and with it the pass, never returns
LoseSlot ==
  /\ RunDone /\ ~lost
  /\ \/ suite.mode = "concurrent" /\ Started # Over /\ Cardinality(Started) < DispatchCount
     \/ \E j \in Interactions :
          /\ ModeOf(j) = "concurrent" /\ busy[j] # {}
          /\ Len(picks[j]) < Cardinality(TestsOf(j))
  /\ lost' = TRUE
  /\ UNCHANGED <<loopVars, suiteVars, passVars, sr, tracked, ran>>

TimeOut == pc = "loop" /\ Expire /\ UNCHANGED <<suiteVars, passVars, countVars>>
Interrupt == pc # "done" /\ Cancel /\ UNCHANGED <<suiteVars, passVars, countVars>>
-----------------------------------------------------------------------------
InteractionStep(j) ==
  \/ BeginInteraction(j)
  \/ \E t \in TestsOf(j) : PickTest(j, t)
  \/ \E b \in busy[j] : DropTest(j, b) \/ SkipTest(j, b) \/ BeginTest(j, b)
       \/ \E ok \in BOOLEAN : FinishTest(j, b, ok)
  \/ EndInteraction(j)

Step ==
  \/ StartSuite \/ EnterPass \/ LeavePass \/ BetweenPasses \/ EndSuite
  \/ \E j \in Interactions : InteractionStep(j)

Next == Step \/ LoseSlot \/ TimeOut \/ Interrupt

\* goroutines that can run do run, tests come back, an armed timer fires
Spec == Init /\ [][Next]_vars /\ WF_vars(Step) /\ WF_vars(TimeOut)
-----------------------------------------------------------------------------
(* Where the variables range; a failed fleet setup leaves nothing up.      *)
TypeOK ==
  /\ LoopTypeOK
  /\ pc \in {"start", "loop", "done"}
  /\ inter \in [Interactions -> {"idle", "running", "over"}]
  /\ \A j \in Interactions :
       /\ Len(picks[j]) <= Len(suite.interactions[j].tests)
       /\ \A b \in busy[j] : b.test \in TestsOf(j) /\ b.at \in {"picked", "running"}
  /\ sr \in [passed : Nat, failed : Nat, skipped : Nat]
  /\ starts \in 0 .. 2
  /\ fleetUp => suite.fleet = "known" /\ pc = "loop"

(* When a pass is over nothing of it is at work, though the comment at     *)
(* dispatcher.go:57 says that there is no pass barrier: no test begins or  *)
(* ends between passes or after OnSuiteEnd.                                *)
PassBarrier == loop # "pass" => \A j \in Interactions : inter[j] # "running" /\ busy[j] = {}

\* the running sums of a sequence of numbers, and the last of them
Sums(a) == LET upTo[k \in 0 .. Len(a)] == IF k = 0 THEN 0 ELSE upTo[k - 1] + a[k] IN upTo
Total(a) == Sums(a)[Len(a)]

\* how many tests were begun, over all passes
TestsBegun == Total([j \in Interactions |-> Total(ran[j])])

(* The result of a suite that ended holds every test that was begun, and   *)
(* none else; left alone, a suite without weighted picks ran every test    *)
(* that is not skipped exactly once in every pass.                         *)
EachTestEachPass ==
  pc = "done" /\ starts = 1 =>
    /\ sr.passed + sr.failed = TestsBegun
    /\ ~RunDone /\ suite.mode # "weighted" =>
         \A j \in Interactions : ModeOf(j) # "weighted" => \A t \in TestsOf(j) :
           ran[j][t] = IF Skip(j, t) THEN 0 ELSE PassesAsked

(* A suite that has a repeat count, a positive duration or neither comes to*)
(* its end, or a concurrent dispatcher is left waiting on a drained slot.  *)
EndsOrLosesSlot == (Bounded \/ exec.duration > 0) ~> (pc = "done" \/ lost)

=============================================================================
