----------------------- MODULE SuitesAndData_proofs ------------------------
(***************************************************************************)
(* The passes of LoopController and the suites that SuiteExecution runs in *)
(* them, for every execution block, every cap on the passes and every      *)
(* suite; the log that suites share (TelemetryLog), for any records; and   *)
(* what the operators of assertions and the run command say of any input.  *)
(*                                                                         *)
(* RepeatHonoured is not inductive: that the end of a pass finds passNum   *)
(* at most at the repeat count rests on the top of the loop, which is only *)
(* reached with a pass still to go.  For the suite the invariant says of   *)
(* each interaction what its dispatcher has picked, begun and left over in *)
(* this pass (AtWork), and how often each of its tests was begun in the    *)
(* passes up to now (RanInv); and of all of them together that what was    *)
(* begun is counted or still running (SumInv).                             *)
(*                                                                         *)
(* LogReadable rests on what the file holds at each moment (FileInv, for   *)
(* as long as suites take turns, TurnInv) or held when a write failed      *)
(* (FailInv); on what a record looks like in cells (TagsEncoded, CodeFacts)*)
(* and is when it is read back (TagsComeBack, RecordComesBack, CutRecord); *)
(* and on the run of the reader over a file that begins with such records  *)
(* (WrittenAreRead, PrefixRead, WholeRead).                                *)
(*                                                                         *)
(* AssertionsHold and ExitCodesTruthful are about one evaluation of what   *)
(* is given: the verdict of each operator is found apart (EqualityVerdicts,*)
(* OrderVerdicts, TextVerdicts, SizeVerdicts), then they are compared; the *)
(* command is seen from its end (RunEndsOneWay).                           *)
(***************************************************************************)
EXTENDS SuiteExecution, TelemetryLog, Assertions, Command, Induction, FiniteSetTheorems, SequenceTheorems

-----------------------------------------------------------------------------
(* The loop.                                                               *)

\* at the top of the loop and in the sleep before it a pass is still to go
PassToGo == Bounded /\ loop \in {"top", "interval"} => passNum < PassesAsked

LoopInv == LoopTypeOK /\ RepeatHonoured /\ PassToGo

(* The cap is the model's, not the code's.                                 *)
LEMMA CapIsNat == PassCap \in Nat
BY PassCapAssumption

(* runSuiteWithExecution's repeat (engine.go:295-301) is positive exactly  *)
(* when the run is bounded, and then it is the number of passes asked for. *)
LEMMA RepeatIsAsked ==
  ASSUME LoopTypeOK
  PROVE  /\ exec.repeat \in Nat /\ exec.duration \in Int /\ exec.interval \in Int
         /\ Repeat \in Nat /\ PassesAsked \in Nat /\ PassesAsked >= 1
         /\ Bounded <=> Repeat > 0
         /\ Bounded => Repeat = PassesAsked
<1>1. exec \in ExecBlock
  BY ExecsAssumption DEF LoopTypeOK
<1>2. exec.repeat \in Nat /\ exec.duration \in Int /\ exec.interval \in Int
  BY <1>1 DEF ExecBlock
<1>. QED
  BY <1>2 DEF Repeat, PassesAsked, Bounded

(* Before the first pass nothing is used up.                               *)
LEMMA InitLoopInv == LoopInit => LoopInv
<1>. SUFFICES ASSUME LoopInit PROVE LoopInv
  OBVIOUS
<1>1. exec \in Execs /\ loop \in {"top", "pass", "interval", "done"}
        /\ passNum \in 0 .. PassCap /\ loop # "interval"
  BY CapIsNat DEF LoopInit
<1>2. ctxDone \in BOOLEAN /\ expired \in BOOLEAN /\ ~expired
  BY Zenon DEF LoopInit
<1>3. LoopTypeOK
  BY <1>1, <1>2 DEF LoopTypeOK
<1>4. RepeatHonoured /\ PassToGo
  BY <1>3, RepeatIsAsked DEF LoopInit, RepeatHonoured, PassToGo
<1>. QED
  BY <1>3, <1>4 DEF LoopInv

(* A step keeps the ranges; only BeginPass counts, and it stays below the  *)
(* cap.                                                                    *)
LEMMA StepKeepsTypes == LoopTypeOK /\ [LoopNext]_loopVars => LoopTypeOK'
<1>. SUFFICES ASSUME LoopTypeOK, [LoopNext]_loopVars PROVE LoopTypeOK'
  OBVIOUS
<1>. USE CapIsNat DEF LoopTypeOK
<1>1. CASE BeginPass
  BY <1>1 DEF BeginPass
<1>2. CASE EndPass
  BY <1>2 DEF EndPass
<1>3. CASE StopAtTop \/ IntervalOver \/ IntervalCut
  BY <1>3 DEF StopAtTop, IntervalOver, IntervalCut
<1>4. CASE Expire
  <2>1. expired' \in BOOLEAN /\ ctxDone' \in BOOLEAN
    BY <1>4, Zenon DEF Expire
  <2>2. exec'.duration > 0
    BY <1>4 DEF Expire
  <2>3. /\ exec' \in Execs /\ loop' \in {"top", "pass", "interval", "done"}
        /\ passNum' \in 0 .. PassCap /\ (loop' = "interval" => exec'.interval > 0)
    BY <1>4 DEF Expire
  <2>. QED
    BY <2>1, <2>2, <2>3
<1>5. CASE Cancel
  <2>1. ctxDone' \in BOOLEAN
    BY <1>5, Zenon DEF Cancel
  <2>2. UNCHANGED <<exec, expired, loop, passNum>>
    BY <1>5 DEF Cancel
  <2>. QED
    BY <2>1, <2>2
<1>6. CASE UNCHANGED loopVars
  BY <1>6 DEF loopVars
<1>. QED
  BY <1>1, <1>2, <1>3, <1>4, <1>5, <1>6 DEF LoopNext, LoopStep

(* A step keeps the invariant: a pass begins only with one to go, and the  *)
(* end of a pass either leaves one to go or ends the run.                  *)
LEMMA StepKeepsLoopInv == LoopInv /\ [LoopNext]_loopVars => LoopInv'
<1>. SUFFICES ASSUME LoopInv, [LoopNext]_loopVars PROVE LoopInv'
  OBVIOUS
<1>1. LoopTypeOK'
  BY StepKeepsTypes DEF LoopInv
<1>2. LoopTypeOK /\ passNum \in Nat
  BY CapIsNat DEF LoopInv, LoopTypeOK
<1>3. exec' = exec
  BY DEF LoopNext, LoopStep, loopVars, BeginPass, StopAtTop, EndPass, IntervalOver,
         IntervalCut, Expire, Cancel
<1>4. Repeat' = Repeat /\ PassesAsked' = PassesAsked /\ Bounded' = Bounded
  BY <1>3 DEF Repeat, PassesAsked, Bounded
<1>5. RepeatHonoured' /\ PassToGo'
  <2>. USE <1>2, <1>4, RepeatIsAsked DEF LoopInv, RepeatHonoured, PassToGo
  <2>1. CASE BeginPass
    BY <2>1 DEF BeginPass
  <2>2. CASE StopAtTop
    BY <2>2 DEF StopAtTop, RunDone
  <2>3. CASE EndPass
    <3>1. passNum' = passNum /\ (RunDone' <=> RunDone) /\ loop = "pass"
      BY <2>3 DEF EndPass, RunDone
    <3>2. CASE Repeat > 0 /\ passNum >= Repeat
      <4>1. loop' = "done"
        BY <2>3, <3>2 DEF EndPass
      <4>. QED
        BY <3>1, <3>2, <4>1
    <3>3. CASE ~(Repeat > 0 /\ passNum >= Repeat)
      <4>1. loop' \in {"interval", "top"}
        BY <2>3, <3>3 DEF EndPass
      <4>. QED
        BY <3>1, <3>3, <4>1
    <3>. QED
      BY <3>2, <3>3
  <2>4. CASE IntervalOver
    BY <2>4 DEF IntervalOver
  <2>5. CASE IntervalCut
    BY <2>5 DEF IntervalCut, RunDone
  <2>6. CASE Expire \/ Cancel
    BY <2>6 DEF Expire, Cancel, RunDone
  <2>7. CASE UNCHANGED loopVars
    BY <2>7 DEF loopVars, RunDone
  <2>. QED
    BY <2>1, <2>2, <2>3, <2>4, <2>5, <2>6, <2>7 DEF LoopNext, LoopStep
<1>. QED
  BY <1>1, <1>5 DEF LoopInv

(* The inductive invariant holds of every run of the loop.                 *)
THEOREM LoopInvariance == LoopSpec => []LoopInv
BY InitLoopInv, StepKeepsLoopInv, PTL DEF LoopSpec

(* LoopController.Run (loop.go:32-69): the repeat count is never exceeded, *)
(* and the loop ends by itself only when it is reached.                    *)
THEOREM RepeatIsHonoured == LoopSpec => []RepeatHonoured
<1>1. LoopInv => RepeatHonoured
  BY DEF LoopInv
<1>. QED
  BY <1>1, LoopInvariance, PTL

(* loop.go:41-43: after the timeout or an interrupt no pass begins.        *)
THEOREM NothingAfterStop == LoopSpec => NoPassAfterStop
<1>1. [LoopNext]_loopVars =>
        [RunDone => passNum' = passNum /\ (loop' = "pass" => loop = "pass")]_loopVars
  BY DEF LoopNext, LoopStep, loopVars, BeginPass, StopAtTop, EndPass, IntervalOver,
         IntervalCut, Expire, Cancel, RunDone
<1>. QED
  BY <1>1, PTL DEF LoopSpec, NoPassAfterStop

-----------------------------------------------------------------------------
(* Running sums.                                                           *)

(* The running sums are what their recursion says.                         *)
LEMMA SumsUnfold ==
  ASSUME NEW a \in Seq(Nat)
  PROVE  /\ Sums(a)[0] = 0
         /\ \A k \in 1 .. Len(a) : Sums(a)[k] = Sums(a)[k - 1] + a[k]
         /\ \A k \in 0 .. Len(a) : Sums(a)[k] \in Nat
<1>1. Len(a) \in Nat /\ a \in [1 .. Len(a) -> Nat]
  OBVIOUS
<1>2. \E f : f = [k \in 0 .. Len(a) |-> IF k = 0 THEN 0 ELSE f[k - 1] + a[k]]
  BY <1>1, SumExists
<1>3. Sums(a) = CHOOSE f : f = [k \in 0 .. Len(a) |-> IF k = 0 THEN 0 ELSE f[k - 1] + a[k]]
  BY Zenon DEF Sums
<1>4. Sums(a) = [k \in 0 .. Len(a) |-> IF k = 0 THEN 0 ELSE Sums(a)[k - 1] + a[k]]
  BY <1>2, <1>3, Zenon
<1>5. \A k \in 0 .. Len(a) : Sums(a)[k] = IF k = 0 THEN 0 ELSE Sums(a)[k - 1] + a[k]
  BY <1>4, Zenon
<1>6. QED
  BY <1>1, <1>5, SumTyped

(* A sum is a number, and that of zeros is zero.                           *)
LEMMA TotalTyped ==
  ASSUME NEW a \in Seq(Nat)
  PROVE  /\ Total(a) \in Nat
         /\ (\A k \in 1 .. Len(a) : a[k] = 0) => Total(a) = 0
<1>1. Len(a) \in Nat
  OBVIOUS
<1>2. Total(a) \in Nat
  BY <1>1, SumsUnfold DEF Total
<1>3. ASSUME \A k \in 1 .. Len(a) : a[k] = 0 PROVE Total(a) = 0
  <2> DEFINE T == {k \in 0 .. Len(a) : Sums(a)[k] = 0}
  <2>1. 0 \in T
    BY <1>1, SumsUnfold
  <2>2. ASSUME NEW k \in 0 .. Len(a) - 1, k \in T PROVE k + 1 \in T
    <3>1. k + 1 \in 1 .. Len(a) /\ (k + 1) - 1 = k
      BY <1>1
    <3>2. Sums(a)[k + 1] = Sums(a)[k] + a[k + 1]
      BY <3>1, SumsUnfold
    <3>3. QED
      BY <1>3, <2>2, <3>1, <3>2
  <2> HIDE DEF T
  <2>3. 0 .. Len(a) \subseteq T
    BY <1>1, <2>1, <2>2, IntervalInduction
  <2>4. QED
    BY <1>1, <2>3 DEF T, Total
<1>4. QED
  BY <1>2, <1>3

(* One summand more by one, the sum more by one.                           *)
LEMMA TotalUp ==
  ASSUME NEW a \in Seq(Nat), NEW b \in Seq(Nat), NEW i \in 1 .. Len(a), Len(b) = Len(a),
         b[i] = a[i] + 1, \A k \in 1 .. Len(a) : k # i => b[k] = a[k]
  PROVE  Total(b) = Total(a) + 1
<1>1. Len(a) \in Nat /\ i \in Nat /\ 1 <= i /\ i <= Len(a)
  OBVIOUS
<1>2. /\ Sums(a)[0] = 0 /\ \A k \in 1 .. Len(a) : Sums(a)[k] = Sums(a)[k - 1] + a[k]
      /\ \A k \in 0 .. Len(a) : Sums(a)[k] \in Nat
  BY SumsUnfold
<1>3. /\ Sums(b)[0] = 0 /\ \A k \in 1 .. Len(a) : Sums(b)[k] = Sums(b)[k - 1] + b[k]
      /\ \A k \in 0 .. Len(a) : Sums(b)[k] \in Nat
  <2>1. /\ Sums(b)[0] = 0 /\ \A k \in 1 .. Len(b) : Sums(b)[k] = Sums(b)[k - 1] + b[k]
        /\ \A k \in 0 .. Len(b) : Sums(b)[k] \in Nat
    BY SumsUnfold
  <2>2. QED
    BY <2>1
<1>4. \A k \in 1 .. Len(a) : a[k] \in Nat
  OBVIOUS
<1> DEFINE Ahead(k) == (k < i => Sums(b)[k] = Sums(a)[k]) /\ (k >= i => Sums(b)[k] = Sums(a)[k] + 1)
           T == {k \in 0 .. Len(a) : Ahead(k)}
<1>5. 0 \in T
  BY <1>1, <1>2, <1>3
<1>6. ASSUME NEW k \in 0 .. Len(a) - 1, k \in T PROVE k + 1 \in T
  <2>1. k \in 0 .. Len(a) /\ k + 1 \in 1 .. Len(a) /\ (k + 1) - 1 = k /\ k \in Nat
    BY <1>1
  <2>2. Sums(a)[k + 1] = Sums(a)[k] + a[k + 1] /\ Sums(a)[k] \in Nat
    BY <1>2, <2>1
  <2>3. Sums(b)[k + 1] = Sums(b)[k] + b[k + 1] /\ Sums(b)[k] \in Nat
    BY <1>3, <2>1
  <2>4. a[k + 1] \in Nat
    BY <1>4, <2>1
  <2>5. Ahead(k)
    BY <1>6
  <2>6. CASE k + 1 = i
    <3>1. b[k + 1] = a[k + 1] + 1 /\ Sums(b)[k] = Sums(a)[k]
      BY <1>1, <2>1, <2>5, <2>6
    <3>2. Sums(b)[k + 1] = Sums(a)[k + 1] + 1
      <4> HIDE DEF Ahead, T
      <4>1. Sums(b)[k + 1] = Sums(a)[k] + (a[k + 1] + 1)
        BY <2>3, <3>1, Zenon
      <4>2. \A x, y \in Nat : x + (y + 1) = (x + y) + 1
        OBVIOUS
      <4>3. QED
        BY <2>2, <2>4, <4>1, <4>2, Zenon
    <3>3. ~(k + 1 < i)
      BY <1>1, <2>1, <2>6
    <3>4. Ahead(k + 1)
      BY <3>2, <3>3
    <3>5. QED
      BY <2>1, <3>4
  <2>7. CASE k + 1 # i
    <3>1. b[k + 1] = a[k + 1] /\ (k < i <=> k + 1 < i)
      BY <1>1, <2>1, <2>7
    <3>2. CASE k < i
      <4>1. Sums(b)[k] = Sums(a)[k] /\ k + 1 < i
        BY <2>5, <3>1, <3>2
      <4>2. Sums(b)[k + 1] = Sums(a)[k + 1]
        BY <2>2, <2>3, <3>1, <4>1, Zenon
      <4>3. QED
        BY <1>1, <2>1, <4>1, <4>2
    <3>3. CASE ~(k < i)
      <4>1. Sums(b)[k] = Sums(a)[k] + 1 /\ ~(k + 1 < i) /\ k + 1 >= i
        BY <1>1, <2>1, <2>5, <3>1, <3>3
      <4>2. Sums(b)[k + 1] = Sums(a)[k + 1] + 1
        <5>1. Sums(b)[k + 1] = (Sums(a)[k] + 1) + a[k + 1]
          BY <2>3, <3>1, <4>1, Zenon
        <5>2. \A x, y \in Nat : (x + 1) + y = (x + y) + 1
          OBVIOUS
        <5>3. QED
          BY <2>2, <2>4, <5>1, <5>2, Zenon
      <4>3. QED
        BY <4>1, <4>2
    <3>4. Ahead(k + 1)
      BY <3>2, <3>3
    <3>5. QED
      BY <2>1, <3>4
  <2>8. QED
    BY <2>6, <2>7
<1>7. 0 .. Len(a) \subseteq T
  <2> HIDE DEF T
  <2>1. QED
    BY <1>1, <1>5, <1>6, IntervalInduction
<1>8. Ahead(Len(a))
  BY <1>1, <1>7
<1>9. QED
  BY <1>1, <1>8 DEF Total

-----------------------------------------------------------------------------
(* The suite.                                                              *)

TestRecord == [skip : BOOLEAN]
InteractionRecord == [mode : Modes, tests : Seq(TestRecord)]

\* where the variables range
TypedInv ==
  /\ suite \in SuiteRecord
  /\ pc \in {"start", "loop", "done"}
  /\ starts \in Nat
  /\ inter \in [Interactions -> {"idle", "running", "over"}]
  /\ picks \in [Interactions -> Seq(Nat)]
  /\ \A j \in Interactions : \A n \in DOMAIN picks[j] : picks[j][n] \in TestsOf(j)
  /\ DOMAIN busy = Interactions
  /\ \A j \in Interactions : \A b \in busy[j] : b.test \in TestsOf(j) /\ b.at \in {"picked", "running"}
  /\ sr \in [passed : Nat, failed : Nat, skipped : Nat]
  /\ ran \in [Interactions -> Seq(Nat)]
  /\ \A j \in Interactions : DOMAIN ran[j] = TestsOf(j)

\* the work of interaction j in this pass: one test at a time, picked in
\* order or at least never twice, and when it is over all of them
AtWork(j) ==
  /\ busy[j] = {} \/ \E b \in busy[j] : busy[j] = {b}
  /\ \A b \in busy[j] : \E n \in DOMAIN picks[j] : picks[j][n] = b.test
  /\ inter[j] # "running" => busy[j] = {}
  /\ loop # "pass" => inter[j] # "running"
  /\ inter[j] = "idle" => picks[j] = <<>>
  /\ inter[j] = "over" /\ ~RunDone => Len(picks[j]) = Cardinality(TestsOf(j))
  /\ ModeOf(j) \in {"sequential", "concurrent"} => \A n \in DOMAIN picks[j] : picks[j][n] = n
  /\ ModeOf(j) # "weighted" => \A m, n \in DOMAIN picks[j] : picks[j][m] = picks[j][n] => m = n

\* test t of interaction j was picked in this pass and no longer waits
BegunNow(j, t) ==
  /\ \E n \in DOMAIN picks[j] : picks[j][n] = t
  /\ \A b \in busy[j] : b.test = t => b.at = "running"

\* how often the tests of interaction j were begun up to now
RanInv(j) ==
  ~RunDone /\ suite.mode # "weighted" /\ ModeOf(j) # "weighted" => \A t \in TestsOf(j) :
    /\ Skip(j, t) => ran[j][t] = 0
    /\ ~Skip(j, t) /\ loop = "pass" => ran[j][t] = IF BegunNow(j, t) THEN passNum ELSE passNum - 1
    /\ ~Skip(j, t) /\ loop # "pass" => ran[j][t] = passNum

PlaceInv ==
  /\ starts = IF pc = "start" THEN 0 ELSE IF suite.fleet = "unknown" THEN 2 ELSE 1
  /\ pc = "loop" => starts = 1
  /\ pc = "done" /\ starts = 1 => loop = "done"

\* the interactions that are in a test
Working == {j \in Interactions : \E b \in busy[j] : b.at = "running"}

SumInv == starts # 2 => sr.passed + sr.failed + Cardinality(Working) = TestsBegun

IInv == LoopInv /\ TypedInv /\ (\A j \in Interactions : AtWork(j) /\ RanInv(j)) /\ PlaceInv /\ SumInv

(* What a suite is made of.                                                *)
LEMMA SuiteShape ==
  ASSUME TypedInv
  PROVE  /\ Interactions = 1 .. Len(suite.interactions) /\ Len(suite.interactions) \in Nat
         /\ IsFiniteSet(Interactions) /\ Cardinality(Interactions) = Len(suite.interactions)
         /\ \A j \in Interactions :
              /\ ModeOf(j) \in Modes /\ InnerSlots(j) = 1
              /\ IsFiniteSet(TestsOf(j)) /\ Cardinality(TestsOf(j)) \in Nat
              /\ TestsOf(j) = 1 .. Cardinality(TestsOf(j))
              /\ \A t \in TestsOf(j) : Skip(j, t) \in BOOLEAN
<1>1. suite.interactions \in Seq(InteractionRecord)
  BY DEF TypedInv, SuiteRecord, InteractionRecord, TestRecord
<1>2. Interactions = 1 .. Len(suite.interactions) /\ Len(suite.interactions) \in Nat
  BY <1>1 DEF Interactions
<1>3. IsFiniteSet(Interactions) /\ Cardinality(Interactions) = Len(suite.interactions)
  BY <1>2, FS_Interval
<1>4. ASSUME NEW j \in Interactions
      PROVE  /\ ModeOf(j) \in Modes /\ InnerSlots(j) = 1
             /\ IsFiniteSet(TestsOf(j)) /\ Cardinality(TestsOf(j)) \in Nat
             /\ TestsOf(j) = 1 .. Cardinality(TestsOf(j))
             /\ \A t \in TestsOf(j) : Skip(j, t) \in BOOLEAN
  <2>1. suite.interactions[j] \in InteractionRecord
    BY <1>1, <1>2
  <2>2. ModeOf(j) \in Modes /\ suite.interactions[j].tests \in Seq(TestRecord)
    BY <2>1 DEF ModeOf, InteractionRecord
  <2>3. DOMAIN suite.interactions[j].tests = 1 .. Len(suite.interactions[j].tests)
        /\ Len(suite.interactions[j].tests) \in Nat
    BY <2>2
  <2>4. InnerSlots(j) = 1
    BY DEF InnerSlots, Slots
  <2>5. \A t \in TestsOf(j) : Skip(j, t) \in BOOLEAN
    <3>1. \A t \in TestsOf(j) : suite.interactions[j].tests[t] \in TestRecord
      BY <2>2, <2>3 DEF TestsOf
    <3>2. QED
      BY <3>1 DEF Skip, TestRecord
  <2>6. IsFiniteSet(TestsOf(j)) /\ Cardinality(TestsOf(j)) = Len(suite.interactions[j].tests)
    BY <2>3, FS_Interval DEF TestsOf
  <2>7. QED
    BY <2>2, <2>3, <2>4, <2>5, <2>6 DEF TestsOf
<1>5. QED
  BY <1>2, <1>3, <1>4

(* Sets of no more than one element.                                       *)
LEMMA Singletons ==
  ASSUME NEW S
  PROVE  /\ \A x : S = {x} => Cardinality(S) = 1
         /\ S = {} => Cardinality(S) = 0
         /\ (S = {} \/ \E x \in S : S = {x}) /\ Cardinality(S) < 1 => S = {}
<1>1. \A x : S = {x} => Cardinality(S) = 1
  BY FS_Singleton
<1>2. S = {} => Cardinality(S) = 0
  BY FS_EmptySet
<1>3. QED
  BY <1>1, <1>2

(* An interaction's step leaves it to the others, and to what is theirs;   *)
(* and what happens around the pass leaves the interactions alone.         *)
LEMMA InteractionFrame ==
  ASSUME NEW j \in Interactions, AtWork(j), RanInv(j),
         suite' = suite, inter'[j] = inter[j], picks'[j] = picks[j], busy'[j] = busy[j], ran'[j] = ran[j],
         loop' = "pass" <=> loop = "pass", passNum' = passNum, RunDone => RunDone'
  PROVE  AtWork(j)' /\ RanInv(j)'
<1>1. TestsOf(j)' = TestsOf(j) /\ ModeOf(j)' = ModeOf(j) /\ \A t : Skip(j, t)' = Skip(j, t)
  BY DEF TestsOf, ModeOf, Skip
<1>2. \A t : BegunNow(j, t)' <=> BegunNow(j, t)
  BY DEF BegunNow
<1>3. AtWork(j)'
  BY <1>1 DEF AtWork
<1>4. RanInv(j)'
  BY <1>1, <1>2 DEF RanInv
<1>5. QED
  BY <1>3, <1>4

(* Once the run is to stop it stays so.                                    *)
LEMMA DoneStays == [LoopNext]_loopVars => (RunDone => RunDone')
  BY DEF LoopNext, LoopStep, loopVars, BeginPass, StopAtTop, EndPass, IntervalOver,
         IntervalCut, Expire, Cancel, RunDone

(* Whatever a step of the suite does, for the loop it is one of its own    *)
(* steps or none; and the suite that is run stays the same.                *)
LEMMA StepOfLoop == [Next]_vars => [LoopNext]_loopVars /\ suite' = suite
<1> SUFFICES ASSUME [Next]_vars PROVE [LoopNext]_loopVars /\ suite' = suite
  OBVIOUS
<1> USE DEF suiteVars, passVars, countVars
<1>1. CASE StartSuite \/ EndSuite
  BY <1>1 DEF StartSuite, EndSuite
<1>2. CASE EnterPass \/ LeavePass \/ BetweenPasses
  BY <1>2 DEF EnterPass, LeavePass, BetweenPasses, LoopNext, LoopStep
<1>3. CASE \E j \in Interactions : InteractionStep(j)
  BY <1>3 DEF InteractionStep, BeginInteraction, PickTest, DropTest, SkipTest, BeginTest, FinishTest,
              EndInteraction
<1>4. CASE LoseSlot \/ TimeOut \/ Interrupt
  BY <1>4 DEF LoseSlot, TimeOut, Interrupt, LoopNext
<1>5. CASE UNCHANGED vars
  BY <1>5 DEF vars
<1>6. QED
  BY <1>1, <1>2, <1>3, <1>4, <1>5 DEF Next, Step

(* So a suite's passes are those of LoopController.Run, which what is      *)
(* proved of the loop applies to.                                          *)
THEOREM SuiteRunsLoop == Spec => LoopSpec
<1>1. Init => LoopInit
  BY DEF Init
<1>2. [Next]_vars => [LoopNext]_loopVars
  BY StepOfLoop
<1>3. QED
  BY <1>1, <1>2, PTL DEF Spec, LoopSpec

(* The steps that leave the interactions to themselves.                    *)
LEMMA AroundThePass ==
  ASSUME TypedInv, \A j \in Interactions : AtWork(j) /\ RanInv(j),
         \/ StartSuite \/ BetweenPasses \/ EndSuite
         \/ LoseSlot \/ TimeOut \/ Interrupt
         \/ UNCHANGED vars
  PROVE  /\ UNCHANGED <<inter, picks, busy, ran>> /\ Interactions' = Interactions
         /\ \A j \in Interactions : (AtWork(j) /\ RanInv(j))'
<1> USE DEF suiteVars, passVars, countVars
<1>1. suite' = suite /\ Interactions' = Interactions /\ (RunDone => RunDone')
  <2>1. [Next]_vars
    BY DEF Next, Step
  <2>2. QED
    BY <2>1, StepOfLoop, DoneStays DEF Interactions
<1>2. UNCHANGED <<inter, picks, busy, ran>>
  BY DEF StartSuite, BetweenPasses, EndSuite, LoseSlot, TimeOut, Interrupt, vars
<1>3. (loop' = "pass" <=> loop = "pass") /\ passNum' = passNum
  <2>1. CASE StartSuite \/ EndSuite \/ LoseSlot \/ UNCHANGED vars
    BY <2>1 DEF StartSuite, EndSuite, LoseSlot, vars, loopVars
  <2>2. CASE BetweenPasses
    BY <2>2 DEF BetweenPasses, StopAtTop, IntervalOver, IntervalCut
  <2>3. CASE TimeOut \/ Interrupt
    BY <2>3 DEF TimeOut, Interrupt, Expire, Cancel
  <2>4. QED
    BY <2>1, <2>2, <2>3
<1>4. \A j \in Interactions : (AtWork(j) /\ RanInv(j))'
  BY <1>1, <1>2, <1>3, InteractionFrame
<1>5. QED
  BY <1>1, <1>2, <1>4

(* A pass begins with every interaction idle and no test begun in it.      *)
LEMMA PassBegins ==
  ASSUME LoopInv, TypedInv, \A j \in Interactions : AtWork(j) /\ RanInv(j), EnterPass
  PROVE  \A j \in Interactions : (AtWork(j) /\ RanInv(j))'
<1>1. /\ loop = "top" /\ loop' = "pass" /\ passNum' = passNum + 1 /\ ~RunDone' /\ ~RunDone /\ passNum \in Nat
      /\ inter' = [j \in Interactions |-> "idle"] /\ picks' = [j \in Interactions |-> <<>>]
      /\ UNCHANGED <<suite, busy, ran>>
  <2>1. /\ loop = "top" /\ passNum' = passNum + 1 /\ ~RunDone /\ UNCHANGED <<exec, ctxDone, expired>>
        /\ loop' = IF Repeat > 0 /\ passNum >= Repeat THEN "done" ELSE "pass"
    BY DEF EnterPass, BeginPass
  <2>2. ~(Repeat > 0 /\ passNum >= Repeat) /\ passNum \in Nat
    <3>1. passNum \in Nat
      BY CapIsNat DEF LoopInv, LoopTypeOK
    <3>2. Bounded => passNum < PassesAsked
      BY <2>1 DEF LoopInv, PassToGo
    <3>3. QED
      BY <3>1, <3>2, RepeatIsAsked DEF LoopInv
  <2>3. QED
    BY <2>1, <2>2 DEF EnterPass, suiteVars, countVars, RunDone
<1>2. ASSUME NEW j \in Interactions
      PROVE  AtWork(j)' /\ RanInv(j)'
  <2>1. TestsOf(j)' = TestsOf(j) /\ ModeOf(j)' = ModeOf(j) /\ \A t : Skip(j, t)' = Skip(j, t)
    BY <1>1 DEF TestsOf, ModeOf, Skip
  <2>2. busy'[j] = {} /\ inter'[j] = "idle" /\ picks'[j] = <<>>
    BY <1>1 DEF AtWork
  <2>3. AtWork(j)'
    BY <1>1, <2>2 DEF AtWork
  <2>4. \A t : ~BegunNow(j, t)'
    BY <2>2 DEF BegunNow
  <2>5. RanInv(j)'
    BY <1>1, <2>1, <2>4 DEF RanInv
  <2>6. QED
    BY <2>3, <2>5
<1>3. QED
  BY <1>1, <1>2 DEF Interactions

(* Tests that are never picked twice, and as many picks as tests: each of  *)
(* them was picked.                                                        *)
LEMMA AllPicked ==
  ASSUME TypedInv, NEW j \in Interactions, Len(picks[j]) = Cardinality(TestsOf(j)),
         \A m, n \in DOMAIN picks[j] : picks[j][m] = picks[j][n] => m = n, NEW t \in TestsOf(j)
  PROVE  \E n \in DOMAIN picks[j] : picks[j][n] = t
<1> DEFINE T == TestsOf(j)
           f == [n \in T |-> picks[j][n]]
<1>1. T = 1 .. Cardinality(T) /\ IsFiniteSet(T) /\ Cardinality(T) \in Nat
  BY SuiteShape
<1>2. picks[j] \in Seq(Nat) /\ DOMAIN picks[j] = T
  BY <1>1 DEF TypedInv
<1>3. \A n \in T : picks[j][n] \in T
  BY <1>2 DEF TypedInv
<1>4. f \in Injection(T, T)
  BY <1>2, <1>3 DEF Injection, IsInjective
<1>5. f \in Surjection(T, T)
  BY <1>1, <1>4, FS_Injection
<1>6. \E n \in T : f[n] = t
  BY <1>5 DEF Surjection
<1>7. QED
  BY <1>2, <1>6

(* A pass that was not cut short ends with every test begun in it.         *)
LEMMA PassEnds ==
  ASSUME TypedInv, \A j \in Interactions : AtWork(j) /\ RanInv(j), LeavePass
  PROVE  \A j \in Interactions : (AtWork(j) /\ RanInv(j))'
<1>1. /\ loop = "pass" /\ loop' # "pass" /\ passNum' = passNum /\ RunDone' = RunDone
      /\ Started = Over /\ (Cardinality(Started) = DispatchCount \/ RunDone)
      /\ UNCHANGED <<suite, inter, picks, busy, ran>>
  BY DEF LeavePass, EndPass, RunDone, suiteVars, passVars, countVars
<1>2. ASSUME NEW j \in Interactions
      PROVE  AtWork(j)' /\ RanInv(j)'
  <2>1. TestsOf(j)' = TestsOf(j) /\ ModeOf(j)' = ModeOf(j) /\ \A t : Skip(j, t)' = Skip(j, t)
    BY <1>1 DEF TestsOf, ModeOf, Skip
  <2>2. inter[j] # "running"
    BY <1>1, <1>2 DEF Started, Over
  <2>3. AtWork(j)'
    BY <1>1, <2>1, <2>2 DEF AtWork
  <2>4. ASSUME ~RunDone, suite.mode # "weighted", ModeOf(j) # "weighted"
        PROVE  /\ Len(picks[j]) = Cardinality(TestsOf(j)) /\ busy[j] = {}
               /\ \A m, n \in DOMAIN picks[j] : picks[j][m] = picks[j][n] => m = n
    <3>1. Cardinality(Started) = Len(suite.interactions)
      BY <1>1, <2>4 DEF DispatchCount
    <3>2. Started \subseteq Interactions
      BY DEF Started
    <3>3. Started = Interactions
      BY <3>1, <3>2, SuiteShape, FS_Subset
    <3>4. inter[j] = "over"
      BY <1>1, <3>3 DEF Over
    <3>5. QED
      BY <2>2, <2>4, <3>4 DEF AtWork
  <2>5. ASSUME ~RunDone, suite.mode # "weighted", ModeOf(j) # "weighted", NEW t \in TestsOf(j)
        PROVE  BegunNow(j, t)
    <3>1. busy[j] = {}
      BY <2>4, <2>5
    <3>2. \E n \in DOMAIN picks[j] : picks[j][n] = t
      BY <2>4, <2>5, AllPicked
    <3>3. QED
      BY <3>1, <3>2 DEF BegunNow
  <2>6. RanInv(j)'
    BY <1>1, <2>1, <2>5 DEF RanInv
  <2>7. QED
    BY <2>3, <2>6
<1>3. QED
  BY <1>1, <1>2 DEF Interactions

(* An interaction's step changes what is its own, and the shared result.   *)
LEMMA InteractionOwns ==
  ASSUME TypedInv, NEW j \in Interactions, InteractionStep(j)
  PROVE  /\ UNCHANGED <<loopVars, suite, pc, starts>> /\ Interactions' = Interactions
         /\ \A i \in Interactions : i # j =>
              inter'[i] = inter[i] /\ picks'[i] = picks[i] /\ busy'[i] = busy[i] /\ ran'[i] = ran[i]
<1> USE DEF suiteVars, countVars, Interactions, TypedInv
<1>1. CASE BeginInteraction(j) \/ EndInteraction(j)
  BY <1>1 DEF BeginInteraction, EndInteraction
<1>2. CASE \E t \in TestsOf(j) : PickTest(j, t)
  BY <1>2 DEF PickTest
<1>3. CASE \E b \in busy[j] : DropTest(j, b) \/ SkipTest(j, b)
  BY <1>3 DEF DropTest, SkipTest
<1>4. CASE \E b \in busy[j] : BeginTest(j, b) \/ \E ok \in BOOLEAN : FinishTest(j, b, ok)
  BY <1>4 DEF BeginTest, FinishTest
<1>5. QED
  BY <1>1, <1>2, <1>3, <1>4 DEF InteractionStep

(* The next test of an interaction is one it has not picked in this pass,  *)
(* unless it draws by weight.                                              *)
LEMMA PickKeeps ==
  ASSUME TypedInv, NEW j \in Interactions, AtWork(j), RanInv(j), NEW t \in TestsOf(j), PickTest(j, t)
  PROVE  AtWork(j)' /\ RanInv(j)'
<1> DEFINE new == [test |-> t, at |-> "picked", late |-> FALSE]
<1>1. /\ inter[j] = "running" /\ ~RunDone /\ MayPick(j, t) /\ Cardinality(busy[j]) < InnerSlots(j)
      /\ Len(picks[j]) < Cardinality(TestsOf(j))
      /\ picks' = [picks EXCEPT ![j] = Append(@, t)] /\ busy' = [busy EXCEPT ![j] = @ \cup {new}]
      /\ UNCHANGED <<suite, inter, ran, loop, passNum>> /\ RunDone' = RunDone
  BY DEF PickTest, suiteVars, countVars, loopVars, RunDone
<1>2. busy[j] = {}
  BY <1>1, SuiteShape, Singletons DEF AtWork
<1>3. picks \in [Interactions -> Seq(Nat)] /\ DOMAIN busy = Interactions /\ picks[j] \in Seq(Nat) /\ t \in Nat
  BY SuiteShape DEF TypedInv
<1>4. TestsOf(j)' = TestsOf(j) /\ ModeOf(j)' = ModeOf(j) /\ \A u : Skip(j, u)' = Skip(j, u)
  BY <1>1 DEF TestsOf, ModeOf, Skip
<1>5. picks'[j] = Append(picks[j], t) /\ busy'[j] = {new}
  BY <1>1, <1>2, <1>3
<1>6. /\ DOMAIN picks[j] = 1 .. Len(picks[j]) /\ Len(picks[j]) \in Nat
      /\ DOMAIN picks'[j] = 1 .. Len(picks[j]) + 1
      /\ \A n \in 1 .. Len(picks[j]) : picks'[j][n] = picks[j][n]
      /\ picks'[j][Len(picks[j]) + 1] = t
  BY <1>3, <1>5
<1>7. ModeOf(j) \in {"sequential", "concurrent"} => t = Len(picks[j]) + 1
  BY <1>1 DEF MayPick
<1>8. ModeOf(j) # "weighted" => \A n \in DOMAIN picks[j] : picks[j][n] # t
  <2>1. CASE ModeOf(j) \in {"sequential", "concurrent"}
    BY <1>6, <1>7, <2>1 DEF AtWork
  <2>2. CASE ModeOf(j) = "random"
    BY <1>1, <2>2 DEF MayPick
  <2>3. ModeOf(j) \in {"sequential", "random", "concurrent", "weighted"}
    BY SuiteShape, Zenon DEF Modes
  <2>4. QED
    BY <2>1, <2>2, <2>3
<1> HIDE DEF new
<1>9. AtWork(j)'
  <2>1. busy'[j] = {} \/ \E b \in busy'[j] : busy'[j] = {b}
    BY <1>5
  <2>2. ModeOf(j) \in {"sequential", "concurrent"} => \A n \in DOMAIN picks'[j] : picks'[j][n] = n
    BY <1>6, <1>7 DEF AtWork
  <2>3. ModeOf(j) # "weighted" => \A m, n \in DOMAIN picks'[j] : picks'[j][m] = picks'[j][n] => m = n
    <3>1. ModeOf(j) # "weighted" => \A m, n \in DOMAIN picks[j] : picks[j][m] = picks[j][n] => m = n
      BY DEF AtWork
    <3> DEFINE p == picks[j]
               q == picks'[j]
               l == Len(p)
    <3>2. /\ DOMAIN p = 1 .. l /\ l \in Nat /\ DOMAIN q = 1 .. l + 1
          /\ \A n \in 1 .. l : q[n] = p[n]
          /\ q[l + 1] = t
      BY <1>6
    <3> HIDE DEF p, q, l
    <3>3. ASSUME ModeOf(j) # "weighted", NEW m \in 1 .. l + 1, NEW n \in 1 .. l + 1, q[m] = q[n] PROVE m = n
      <4>1. \A i \in 1 .. l : p[i] # t
        BY <1>8, <3>2, <3>3 DEF p, l
      <4>2. m \in 1 .. l \/ m = l + 1
        BY <3>2
      <4>3. n \in 1 .. l \/ n = l + 1
        BY <3>2
      <4>4. m \in 1 .. l /\ n \in 1 .. l => m = n
        BY <3>1, <3>2, <3>3 DEF p
      <4>5. QED
        BY <3>2, <3>3, <4>1, <4>2, <4>3, <4>4
    <3>4. QED
      BY <3>2, <3>3 DEF q
  <2>4. \A b \in busy'[j] : \E n \in DOMAIN picks'[j] : picks'[j][n] = b.test
    BY <1>5, <1>6 DEF new
  <2>5. QED
    BY <1>1, <1>4, <2>1, <2>2, <2>3, <2>4 DEF AtWork
<1>10. RanInv(j)'
  <2> SUFFICES ASSUME suite.mode # "weighted", ModeOf(j) # "weighted", NEW u \in TestsOf(j)
               PROVE  /\ Skip(j, u) => ran[j][u] = 0
                      /\ ~Skip(j, u) /\ loop = "pass" =>
                           ran[j][u] = IF BegunNow(j, u)' THEN passNum ELSE passNum - 1
                      /\ ~Skip(j, u) /\ loop # "pass" => ran[j][u] = passNum
    BY <1>1, <1>4 DEF RanInv
  <2>1. new.test = t /\ new.at = "picked"
    BY DEF new
  <2>2. BegunNow(j, u)' <=> BegunNow(j, u)
    <3>1. CASE u = t
      BY <1>5, <1>8, <2>1, <3>1 DEF BegunNow
    <3>2. CASE u # t
      BY <1>2, <1>5, <1>6, <2>1, <3>2 DEF BegunNow
    <3>3. QED
      BY <3>1, <3>2
  <2>3. QED
    BY <1>1, <2>2 DEF RanInv
<1>11. QED
  BY <1>9, <1>10

(* Begun, a test counts for this pass; skipped or dropped it does not, and *)
(* ended it does no more.                                                  *)
LEMMA TestKeeps ==
  ASSUME TypedInv, NEW j \in Interactions, AtWork(j), RanInv(j), NEW b \in busy[j],
         \/ DropTest(j, b) \/ SkipTest(j, b) \/ BeginTest(j, b)
         \/ \E ok \in BOOLEAN : FinishTest(j, b, ok),
         passNum \in Nat
  PROVE  AtWork(j)' /\ RanInv(j)'
<1> USE DEF suiteVars, countVars, loopVars, RunDone
<1>1. UNCHANGED <<suite, inter, picks, loop, passNum>> /\ RunDone' = RunDone
  BY DEF DropTest, SkipTest, BeginTest, FinishTest
<1>2. busy[j] = {b} /\ inter[j] = "running" /\ b.test \in TestsOf(j)
  BY DEF AtWork, TypedInv
<1>3. TestsOf(j)' = TestsOf(j) /\ ModeOf(j)' = ModeOf(j) /\ \A u : Skip(j, u)' = Skip(j, u)
  BY <1>1 DEF TestsOf, ModeOf, Skip
<1>4. CASE DropTest(j, b)
  <2>1. RunDone /\ busy'[j] = {}
    BY <1>2, <1>4 DEF DropTest, TypedInv
  <2>2. QED
    BY <1>1, <1>3, <2>1 DEF AtWork, RanInv
<1>5. CASE SkipTest(j, b)
  <2>1. b.at = "picked" /\ busy'[j] = {} /\ ran' = ran /\ Skip(j, b.test)
    BY <1>2, <1>5 DEF SkipTest, TypedInv
  <2>2. AtWork(j)'
    BY <1>1, <1>3, <2>1 DEF AtWork
  <2>3. \A u \in TestsOf(j) : ~Skip(j, u) => (BegunNow(j, u)' <=> BegunNow(j, u))
    BY <1>1, <1>2, <2>1 DEF BegunNow
  <2>4. RanInv(j)'
    BY <1>1, <1>3, <2>1, <2>3 DEF RanInv
  <2>5. QED
    BY <2>2, <2>4
<1>6. ASSUME NEW ok \in BOOLEAN, FinishTest(j, b, ok)
      PROVE  AtWork(j)' /\ RanInv(j)'
  <2>1. b.at = "running" /\ busy'[j] = {} /\ ran' = ran
    BY <1>2, <1>6 DEF FinishTest, TypedInv
  <2>2. AtWork(j)'
    BY <1>1, <1>3, <2>1 DEF AtWork
  <2>3. \A u \in TestsOf(j) : BegunNow(j, u)' <=> BegunNow(j, u)
    BY <1>1, <1>2, <2>1 DEF BegunNow
  <2>4. RanInv(j)'
    BY <1>1, <1>3, <2>1, <2>3 DEF RanInv
  <2>5. QED
    BY <2>2, <2>4
<1>7. CASE BeginTest(j, b)
  <2> DEFINE running == [test |-> b.test, at |-> "running", late |-> RunDone]
  <2>1. /\ b.at = "picked" /\ ~Skip(j, b.test) /\ busy'[j] = {running}
        /\ ran' = [ran EXCEPT ![j][b.test] = @ + 1]
    BY <1>2, <1>7 DEF BeginTest, TypedInv
  <2>2. running.test = b.test /\ running.at = "running"
    OBVIOUS
  <2> HIDE DEF running
  <2>3. AtWork(j)'
    BY <1>1, <1>2, <1>3, <2>1, <2>2 DEF AtWork
  <2>4. /\ ran'[j][b.test] = ran[j][b.test] + 1
        /\ \A u \in TestsOf(j) : u # b.test => ran'[j][u] = ran[j][u]
    BY <1>2, <2>1 DEF TypedInv
  <2>5. RanInv(j)'
    <3> SUFFICES ASSUME ~RunDone, suite.mode # "weighted", ModeOf(j) # "weighted", NEW u \in TestsOf(j)
                 PROVE  /\ Skip(j, u) => ran'[j][u] = 0
                        /\ ~Skip(j, u) /\ loop = "pass" =>
                             ran'[j][u] = IF BegunNow(j, u)' THEN passNum ELSE passNum - 1
                        /\ ~Skip(j, u) /\ loop # "pass" => ran'[j][u] = passNum
      BY <1>1, <1>3 DEF RanInv
    <3>1. loop = "pass"
      BY <1>2 DEF AtWork
    <3>2. CASE u = b.test
      <4>1. \E n \in DOMAIN picks[j] : picks[j][n] = u
        BY <3>2 DEF AtWork
      <4>2. BegunNow(j, u)' /\ ~BegunNow(j, u)
        BY <1>1, <1>2, <2>1, <2>2, <3>2, <4>1 DEF BegunNow
      <4>3. ran[j][u] = passNum - 1
        BY <2>1, <3>1, <3>2, <4>2 DEF RanInv
      <4>4. QED
        BY <2>1, <2>4, <3>1, <3>2, <4>2, <4>3
    <3>3. CASE u # b.test
      <4>1. BegunNow(j, u)' <=> BegunNow(j, u)
        BY <1>1, <1>2, <2>1, <2>2, <3>3 DEF BegunNow
      <4>2. QED
        BY <2>4, <3>1, <3>3, <4>1 DEF RanInv
    <3>4. QED
      BY <3>2, <3>3
  <2>6. QED
    BY <2>3, <2>5
<1>8. QED
  BY <1>4, <1>5, <1>6, <1>7

(* An interaction begins with its work before it and ends with it behind.  *)
LEMMA EndsKeep ==
  ASSUME TypedInv, NEW j \in Interactions, AtWork(j), RanInv(j), BeginInteraction(j) \/ EndInteraction(j)
  PROVE  AtWork(j)' /\ RanInv(j)'
<1>1. /\ UNCHANGED <<suite, picks, busy, ran, loop, passNum>> /\ RunDone' = RunDone
      /\ \/ loop = "pass" /\ inter'[j] = "running" /\ inter[j] = "idle"
         \/ /\ inter'[j] = "over" /\ inter[j] = "running" /\ busy[j] = {}
            /\ Len(picks[j]) = Cardinality(TestsOf(j)) \/ RunDone
  BY DEF BeginInteraction, EndInteraction, suiteVars, countVars, loopVars, RunDone, TypedInv
<1>2. TestsOf(j)' = TestsOf(j) /\ ModeOf(j)' = ModeOf(j) /\ \A u : Skip(j, u)' = Skip(j, u)
  BY <1>1 DEF TestsOf, ModeOf, Skip
<1>3. AtWork(j)'
  BY <1>1, <1>2 DEF AtWork
<1>4. \A u : BegunNow(j, u)' <=> BegunNow(j, u)
  BY <1>1 DEF BegunNow
<1>5. RanInv(j)'
  BY <1>1, <1>2, <1>4 DEF RanInv
<1>6. QED
  BY <1>3, <1>5

(* All steps keep what is known of the interactions.                       *)
LEMMA WorkKept ==
  ASSUME IInv, [Next]_vars
  PROVE  \A j \in Interactions' : (AtWork(j) /\ RanInv(j))'
<1>1. LoopInv /\ TypedInv /\ \A j \in Interactions : AtWork(j) /\ RanInv(j)
  BY DEF IInv
<1>2. Interactions' = Interactions
  BY StepOfLoop DEF Interactions
<1>3. ASSUME NEW j \in Interactions, InteractionStep(j), NEW i \in Interactions
      PROVE  (AtWork(i) /\ RanInv(i))'
  <2>1. CASE i = j
    <3>1. passNum \in Nat
      BY <1>1, CapIsNat DEF LoopInv, LoopTypeOK
    <3>2. AtWork(j)' /\ RanInv(j)'
      BY <1>1, <1>3, <3>1, EndsKeep, PickKeeps, TestKeeps DEF InteractionStep
    <3>3. QED
      BY <2>1, <3>2
  <2>2. CASE i # j
    <3>1. /\ suite' = suite /\ loop' = loop /\ passNum' = passNum /\ RunDone' = RunDone
          /\ inter'[i] = inter[i] /\ picks'[i] = picks[i] /\ busy'[i] = busy[i] /\ ran'[i] = ran[i]
      BY <1>1, <1>3, <2>2, InteractionOwns DEF loopVars, RunDone
    <3>2. QED
      BY <1>1, <3>1, InteractionFrame
  <2>3. QED
    BY <2>1, <2>2
<1>4. CASE \E j \in Interactions : InteractionStep(j)
  BY <1>2, <1>3, <1>4
<1>5. CASE EnterPass \/ LeavePass
  BY <1>1, <1>2, <1>5, PassBegins, PassEnds
<1>6. CASE \/ StartSuite \/ BetweenPasses \/ EndSuite
           \/ LoseSlot \/ TimeOut \/ Interrupt
           \/ UNCHANGED vars
  BY <1>1, <1>2, <1>6, AroundThePass
<1>7. QED
  BY <1>4, <1>5, <1>6 DEF Next, Step

\* the part of TypedInv that a test in an interaction changes
TestsTyped ==
  /\ picks \in [Interactions -> Seq(Nat)]
  /\ \A j \in Interactions : \A n \in DOMAIN picks[j] : picks[j][n] \in TestsOf(j)
  /\ DOMAIN busy = Interactions
  /\ \A j \in Interactions : \A b \in busy[j] : b.test \in TestsOf(j) /\ b.at \in {"picked", "running"}
  /\ ran \in [Interactions -> Seq(Nat)]
  /\ \A j \in Interactions : DOMAIN ran[j] = TestsOf(j)

(* A result with one more test in it.                                      *)
LEMMA ResultsTyped ==
  ASSUME NEW r \in [passed : Nat, failed : Nat, skipped : Nat]
  PROVE  /\ [r EXCEPT !.passed = @ + 1] \in [passed : Nat, failed : Nat, skipped : Nat]
         /\ [r EXCEPT !.failed = @ + 1] \in [passed : Nat, failed : Nat, skipped : Nat]
         /\ [r EXCEPT !.skipped = @ + 1] \in [passed : Nat, failed : Nat, skipped : Nat]
         /\ [r EXCEPT !.failed = 1] \in [passed : Nat, failed : Nat, skipped : Nat]
  OBVIOUS

(* Picks, tests at work and tests begun stay where they range.             *)
LEMMA TestsTypedKept ==
  ASSUME TypedInv, [Next]_vars
  PROVE  TestsTyped'
<1> USE DEF suiteVars, passVars, countVars
<1>1. suite' = suite /\ Interactions' = Interactions /\ \A j : TestsOf(j)' = TestsOf(j)
  BY StepOfLoop DEF Interactions, TestsOf
<1>2. TestsTyped
  BY DEF TypedInv, TestsTyped
<1>3. CASE UNCHANGED <<picks, busy, ran>>
  BY <1>1, <1>2, <1>3 DEF TestsTyped
<1>4. CASE EnterPass
  <2>1. picks' = [j \in Interactions |-> <<>>] /\ UNCHANGED <<busy, ran>>
    BY <1>4 DEF EnterPass
  <2>2. picks' \in [Interactions -> Seq(Nat)] /\ \A j \in Interactions : DOMAIN picks'[j] = {}
    BY <2>1
  <2>3. QED
    BY <1>1, <1>2, <2>1, <2>2 DEF TestsTyped
<1>5. ASSUME NEW j \in Interactions, NEW t \in TestsOf(j), PickTest(j, t)
      PROVE  TestsTyped'
  <2> DEFINE new == [test |-> t, at |-> "picked", late |-> FALSE]
  <2>1. /\ picks' = [picks EXCEPT ![j] = Append(@, t)] /\ busy' = [busy EXCEPT ![j] = @ \cup {new}]
        /\ ran' = ran
    BY <1>5 DEF PickTest
  <2>2. new.test = t /\ new.at = "picked"
    OBVIOUS
  <2> HIDE DEF new
  <2>3. t \in Nat /\ picks[j] \in Seq(Nat)
    BY <1>2, SuiteShape DEF TestsTyped
  <2>4. Append(picks[j], t) \in Seq(Nat) /\ \A n \in DOMAIN Append(picks[j], t) : Append(picks[j], t)[n] \in TestsOf(j)
    BY <1>2, <2>3 DEF TestsTyped
  <2>5. picks' \in [Interactions -> Seq(Nat)]
          /\ \A i \in Interactions : \A n \in DOMAIN picks'[i] : picks'[i][n] \in TestsOf(i)
    BY <1>2, <2>1, <2>4 DEF TestsTyped
  <2>6. DOMAIN busy' = Interactions
          /\ \A i \in Interactions : \A b \in busy'[i] : b.test \in TestsOf(i) /\ b.at \in {"picked", "running"}
    BY <1>2, <2>1, <2>2 DEF TestsTyped
  <2>7. QED
    BY <1>1, <1>2, <2>1, <2>5, <2>6 DEF TestsTyped
<1>6. ASSUME NEW j \in Interactions, NEW b \in busy[j],
             DropTest(j, b) \/ SkipTest(j, b) \/ \E ok \in BOOLEAN : FinishTest(j, b, ok)
      PROVE  TestsTyped'
  <2>1. busy' = [busy EXCEPT ![j] = @ \ {b}] /\ UNCHANGED <<picks, ran>>
    BY <1>6 DEF DropTest, SkipTest, FinishTest
  <2>2. QED
    BY <1>1, <1>2, <2>1 DEF TestsTyped
<1>7. ASSUME NEW j \in Interactions, NEW b \in busy[j], BeginTest(j, b)
      PROVE  TestsTyped'
  <2> DEFINE running == [test |-> b.test, at |-> "running", late |-> RunDone]
  <2>1. /\ busy' = [busy EXCEPT ![j] = (@ \ {b}) \cup {running}] /\ picks' = picks
        /\ ran' = [ran EXCEPT ![j][b.test] = @ + 1]
    BY <1>7 DEF BeginTest
  <2>2. running.test = b.test /\ running.at = "running"
    OBVIOUS
  <2> HIDE DEF running
  <2>3. DOMAIN busy' = Interactions
          /\ \A i \in Interactions : \A c \in busy'[i] : c.test \in TestsOf(i) /\ c.at \in {"picked", "running"}
    BY <1>2, <2>1, <2>2 DEF TestsTyped
  <2>4. b.test \in DOMAIN ran[j] /\ ran[j] \in Seq(Nat)
    BY <1>2 DEF TestsTyped
  <2>5. [ran[j] EXCEPT ![b.test] = @ + 1] \in Seq(Nat) /\ DOMAIN [ran[j] EXCEPT ![b.test] = @ + 1] = DOMAIN ran[j]
    BY <2>4
  <2>6. ran' \in [Interactions -> Seq(Nat)] /\ \A i \in Interactions : DOMAIN ran'[i] = TestsOf(i)
    BY <1>2, <2>1, <2>5 DEF TestsTyped
  <2>7. QED
    BY <1>1, <1>2, <2>1, <2>3, <2>6 DEF TestsTyped
<1>8. CASE \E j \in Interactions : InteractionStep(j)
  <2>1. PICK j \in Interactions : InteractionStep(j)
    BY <1>8
  <2>2. CASE BeginInteraction(j) \/ EndInteraction(j)
    BY <1>3, <2>2 DEF BeginInteraction, EndInteraction
  <2>3. QED
    BY <1>5, <1>6, <1>7, <2>1, <2>2 DEF InteractionStep
<1>9. CASE \/ StartSuite \/ LeavePass \/ BetweenPasses \/ EndSuite
           \/ LoseSlot \/ TimeOut \/ Interrupt
           \/ UNCHANGED vars
  BY <1>3, <1>9 DEF StartSuite, LeavePass, BetweenPasses, EndSuite, LoseSlot, TimeOut, Interrupt, vars
<1>10. QED
  BY <1>4, <1>8, <1>9 DEF Next, Step

(* The other variables too.                                                *)
LEMMA TypesKept ==
  ASSUME TypedInv, [Next]_vars
  PROVE  TypedInv'
<1> USE DEF suiteVars, passVars, countVars
<1>1. suite' = suite /\ Interactions' = Interactions /\ TestsTyped'
  BY StepOfLoop, TestsTypedKept DEF Interactions
<1>2. sr' \in [passed : Nat, failed : Nat, skipped : Nat]
  <2>1. sr \in [passed : Nat, failed : Nat, skipped : Nat]
    BY DEF TypedInv
  <2>2. \/ sr' = sr
        \/ sr' = [sr EXCEPT !.passed = @ + 1] \/ sr' = [sr EXCEPT !.failed = @ + 1]
        \/ sr' = [sr EXCEPT !.skipped = @ + 1] \/ sr' = [sr EXCEPT !.failed = 1]
    <3>0. ASSUME NEW j \in Interactions, InteractionStep(j)
          PROVE  \/ sr' = sr
                 \/ sr' = [sr EXCEPT !.passed = @ + 1] \/ sr' = [sr EXCEPT !.failed = @ + 1]
                 \/ sr' = [sr EXCEPT !.skipped = @ + 1]
      <4>1. CASE BeginInteraction(j) \/ EndInteraction(j) \/ \E t \in TestsOf(j) : PickTest(j, t)
        BY <4>1, Zenon DEF BeginInteraction, EndInteraction, PickTest, countVars
      <4>2. ASSUME NEW b \in busy[j], DropTest(j, b) \/ SkipTest(j, b) \/ BeginTest(j, b)
            PROVE  sr' = sr \/ sr' = [sr EXCEPT !.skipped = @ + 1]
        BY <4>2, Zenon DEF DropTest, SkipTest, BeginTest, countVars
      <4>3. ASSUME NEW b \in busy[j], NEW ok \in BOOLEAN, FinishTest(j, b, ok)
            PROVE  sr' = [sr EXCEPT !.passed = @ + 1] \/ sr' = [sr EXCEPT !.failed = @ + 1]
        BY <4>3, Zenon DEF FinishTest
      <4>4. QED
        BY <3>0, <4>1, <4>2, <4>3, Zenon DEF InteractionStep
    <3>1. CASE StartSuite \/ \E j \in Interactions : InteractionStep(j)
      BY <3>0, <3>1 DEF StartSuite
    <3>2. CASE \/ EnterPass \/ LeavePass \/ BetweenPasses \/ EndSuite
               \/ LoseSlot \/ TimeOut \/ Interrupt
               \/ UNCHANGED vars
      BY <3>2 DEF EnterPass, LeavePass, BetweenPasses, EndSuite, LoseSlot, TimeOut, Interrupt, vars
    <3>3. QED
      BY <3>1, <3>2 DEF Next, Step
  <2>3. QED
    BY <2>1, <2>2, ResultsTyped
<1>3. pc' \in {"start", "loop", "done"} /\ starts' \in Nat
  <2>1. CASE StartSuite \/ EndSuite
    BY <2>1 DEF StartSuite, EndSuite, TypedInv
  <2>2. CASE ~(StartSuite \/ EndSuite)
    <3>1. UNCHANGED <<pc, starts>>
      BY <2>2, InteractionOwns DEF Next, Step, EnterPass, LeavePass, BetweenPasses, LoseSlot, TimeOut, Interrupt, vars
    <3>2. QED
      BY <3>1 DEF TypedInv
  <2>3. QED
    BY <2>1, <2>2
<1>4. inter' \in [Interactions -> {"idle", "running", "over"}]
  <2>1. CASE \E j \in Interactions : InteractionStep(j)
    <3>1. inter \in [Interactions -> {"idle", "running", "over"}]
      BY DEF TypedInv
    <3>2. ASSUME NEW j \in Interactions, InteractionStep(j)
          PROVE  inter' = inter \/ inter' = [inter EXCEPT ![j] = "running"] \/ inter' = [inter EXCEPT ![j] = "over"]
      <4>1. CASE BeginInteraction(j) \/ EndInteraction(j)
        BY <4>1, Zenon DEF BeginInteraction, EndInteraction
      <4>2. CASE \E t \in TestsOf(j) : PickTest(j, t)
        BY <4>2, Zenon DEF PickTest
      <4>3. CASE \E b \in busy[j] : \/ DropTest(j, b) \/ SkipTest(j, b) \/ BeginTest(j, b)
                                    \/ \E ok \in BOOLEAN : FinishTest(j, b, ok)
        BY <4>3, Zenon DEF DropTest, SkipTest, BeginTest, FinishTest
      <4>4. QED
        BY <3>2, <4>1, <4>2, <4>3, Zenon DEF InteractionStep
    <3>3. QED
      BY <1>1, <2>1, <3>1, <3>2
  <2>2. CASE \/ StartSuite \/ EnterPass \/ LeavePass \/ BetweenPasses \/ EndSuite
             \/ LoseSlot \/ TimeOut \/ Interrupt
             \/ UNCHANGED vars
    BY <2>2 DEF TypedInv, StartSuite, EnterPass, LeavePass, BetweenPasses, EndSuite, LoseSlot, TimeOut, Interrupt, vars
  <2>3. QED
    BY <2>1, <2>2 DEF Next, Step
<1>5. QED
  BY <1>1, <1>2, <1>3, <1>4 DEF TypedInv, TestsTyped

(* The suite is done when its loop is, or at once without its fleet.       *)
LEMMA PlaceKept ==
  ASSUME TypedInv, PlaceInv, [Next]_vars
  PROVE  PlaceInv'
<1> USE DEF suiteVars, passVars, countVars
<1>1. suite' = suite
  BY StepOfLoop
<1>2. CASE StartSuite
  BY <1>1, <1>2 DEF StartSuite, PlaceInv
<1>3. CASE EndSuite
  <2>1. pc = "loop" /\ pc' = "done" /\ starts' = starts /\ loop = "done" /\ loop' = loop
    BY <1>3 DEF EndSuite, loopVars
  <2>2. QED
    BY <1>1, <2>1 DEF PlaceInv
<1>4. CASE ~(StartSuite \/ EndSuite)
  <2>1. UNCHANGED <<pc, starts>>
    BY <1>4, InteractionOwns DEF Next, Step, EnterPass, LeavePass, BetweenPasses, LoseSlot, TimeOut, Interrupt, vars
  <2>2. pc = "done" /\ loop = "done" => loop' = "done"
    <3>1. [LoopNext]_loopVars
      BY StepOfLoop
    <3>2. QED
      BY <3>1 DEF LoopNext, LoopStep, loopVars, BeginPass, StopAtTop, EndPass, IntervalOver, IntervalCut, Expire, Cancel
  <2>3. QED
    BY <1>1, <2>1, <2>2 DEF PlaceInv
<1>5. QED
  BY <1>2, <1>3, <1>4

\* the tests of each interaction that were begun
Begun == [j \in Interactions |-> Total(ran[j])]

(* A test more that was begun is one more in the total, and only that.     *)
LEMMA BegunCounted ==
  ASSUME TypedInv, NEW j \in Interactions, NEW t \in TestsOf(j), Interactions' = Interactions
  PROVE  /\ TestsBegun \in Nat
         /\ ran' = [ran EXCEPT ![j][t] = @ + 1] => TestsBegun' = TestsBegun + 1
<1>1. Interactions = 1 .. Len(suite.interactions) /\ Len(suite.interactions) \in Nat
  BY SuiteShape
<1>2. ran \in [Interactions -> Seq(Nat)] /\ \A i \in Interactions : DOMAIN ran[i] = TestsOf(i)
  BY DEF TypedInv
<1>3. \A i \in Interactions : Total(ran[i]) \in Nat
  BY <1>2, TotalTyped
<1>4. Begun \in Seq(Nat) /\ Len(Begun) = Len(suite.interactions)
  BY <1>1, <1>3 DEF Begun
<1>5. TestsBegun = Total(Begun)
  BY Zenon DEF TestsBegun, Begun
<1>6. TestsBegun \in Nat
  BY <1>4, <1>5, TotalTyped
<1>7. ASSUME ran' = [ran EXCEPT ![j][t] = @ + 1] PROVE TestsBegun' = TestsBegun + 1
  <2>1. ran[j] \in Seq(Nat) /\ t \in 1 .. Len(ran[j])
    BY <1>2
  <2>2. /\ ran'[j] \in Seq(Nat) /\ Len(ran'[j]) = Len(ran[j]) /\ ran'[j][t] = ran[j][t] + 1
        /\ \A u \in 1 .. Len(ran[j]) : u # t => ran'[j][u] = ran[j][u]
    BY <1>2, <1>7, <2>1
  <2>3. Total(ran'[j]) = Total(ran[j]) + 1
    BY <2>1, <2>2, TotalUp
  <2>4. \A i \in Interactions : i # j => ran'[i] = ran[i]
    BY <1>2, <1>7
  <2>5. \A i \in Interactions : Begun[i] = Total(ran[i]) /\ Begun'[i] = Total(ran'[i])
    BY DEF Begun
  <2>6. Begun'[j] = Begun[j] + 1 /\ \A i \in Interactions : i # j => Begun'[i] = Begun[i]
    BY <2>3, <2>4, <2>5
  <2>7. \A i \in Interactions : Begun'[i] \in Nat
    <3>1. \A i \in Interactions : Begun[i] \in Nat
      BY <1>3, <2>5
    <3>2. QED
      BY <2>6, <3>1
  <2>8. Begun' \in Seq(Nat) /\ Len(Begun') = Len(Begun)
    <3>1. Begun' = [i \in 1 .. Len(suite.interactions) |-> Begun'[i]]
      BY <1>1 DEF Begun
    <3>2. Begun' \in [1 .. Len(suite.interactions) -> Nat]
      BY <1>1, <2>7, <3>1
    <3>3. \A n \in Nat : \A f \in [1 .. n -> Nat] : f \in Seq(Nat) /\ Len(f) = n
      OBVIOUS
    <3>4. QED
      BY <1>1, <1>4, <3>2, <3>3, Zenon
  <2>9. Total(Begun') = Total(Begun) + 1
    <3>1. j \in 1 .. Len(Begun) /\ \A k \in 1 .. Len(Begun) : k # j => Begun'[k] = Begun[k]
      BY <1>1, <1>4, <2>6
    <3>2. QED
      BY <1>4, <2>6, <2>8, <3>1, TotalUp
  <2>10. TestsBegun' = Total(Begun')
    BY Zenon DEF TestsBegun, Begun
  <2>11. QED
    BY <1>5, <2>9, <2>10
<1>8. QED
  BY <1>6, <1>7

(* Where no test begins or ends, nothing is added up.                      *)
LEMMA SumFrame ==
  ASSUME SumInv, sr'.passed = sr.passed, sr'.failed = sr.failed, starts' # 2 => starts # 2,
         ran' = ran, Interactions' = Interactions, Working' = Working
  PROVE  SumInv'
<1>1. TestsBegun' = TestsBegun
  BY Zenon DEF TestsBegun
<1>2. QED
  BY <1>1 DEF SumInv

(* What was begun is in the result or still running.                       *)
LEMMA SumKept ==
  ASSUME IInv, [Next]_vars
  PROVE  SumInv'
<1> USE DEF suiteVars, passVars, countVars
<1>1. TypedInv /\ PlaceInv /\ SumInv /\ \A j \in Interactions : AtWork(j)
  BY DEF IInv
<1>2. suite' = suite /\ Interactions' = Interactions
  BY StepOfLoop DEF Interactions
<1>3. sr.passed \in Nat /\ sr.failed \in Nat /\ DOMAIN busy = Interactions
      /\ sr \in [passed : Nat, failed : Nat, skipped : Nat]
  BY <1>1 DEF TypedInv
<1>4. IsFiniteSet(Working) /\ Cardinality(Working) \in Nat
  BY <1>1, SuiteShape, FS_Subset, FS_CardinalityType DEF Working
<1>5. CASE StartSuite
  <2>1. starts = 0 /\ UNCHANGED <<busy, ran>>
    BY <1>1, <1>5 DEF StartSuite, PlaceInv
  <2>2. starts' = 2 \/ sr' = sr
    BY <1>5, <2>1 DEF StartSuite
  <2>3. Working' = Working
    BY <1>2, <2>1 DEF Working
  <2>4. CASE starts' = 2
    BY <2>4 DEF SumInv
  <2>5. CASE sr' = sr
    BY <1>1, <1>2, <2>1, <2>3, <2>5, SumFrame
  <2>6. QED
    BY <2>2, <2>4, <2>5
<1>6. CASE \/ EnterPass \/ LeavePass \/ BetweenPasses \/ EndSuite
           \/ LoseSlot \/ TimeOut \/ Interrupt
           \/ UNCHANGED vars
  <2>1. UNCHANGED <<busy, ran, sr, starts>>
    BY <1>6 DEF EnterPass, LeavePass, BetweenPasses, EndSuite, LoseSlot, TimeOut, Interrupt, vars
  <2>2. Working' = Working
    BY <1>2, <2>1 DEF Working
  <2>3. QED
    BY <1>1, <1>2, <2>1, <2>2, SumFrame
<1>7. ASSUME NEW j \in Interactions, BeginInteraction(j) \/ EndInteraction(j)
      PROVE  SumInv'
  <2>1. UNCHANGED <<busy, ran, sr, starts>>
    BY <1>7 DEF BeginInteraction, EndInteraction
  <2>2. Working' = Working
    BY <1>2, <2>1 DEF Working
  <2>3. QED
    BY <1>1, <1>2, <2>1, <2>2, SumFrame
<1>8. ASSUME NEW j \in Interactions, NEW t \in TestsOf(j), PickTest(j, t)
      PROVE  SumInv'
  <2> DEFINE new == [test |-> t, at |-> "picked", late |-> FALSE]
  <2>1. busy' = [busy EXCEPT ![j] = @ \cup {new}] /\ UNCHANGED <<ran, sr, starts>>
    BY <1>8 DEF PickTest
  <2>2. new.at # "running"
    OBVIOUS
  <2> HIDE DEF new
  <2>3. Working' = Working
    BY <1>2, <1>3, <2>1, <2>2 DEF Working
  <2>4. QED
    BY <1>1, <1>2, <2>1, <2>3, SumFrame
<1>9. ASSUME NEW j \in Interactions, NEW b \in busy[j], DropTest(j, b) \/ SkipTest(j, b)
      PROVE  SumInv'
  <2>1. busy' = [busy EXCEPT ![j] = @ \ {b}] /\ UNCHANGED <<ran, starts>> /\ b.at = "picked"
    BY <1>9 DEF DropTest, SkipTest
  <2>2. sr'.passed = sr.passed /\ sr'.failed = sr.failed
    BY <1>3, <1>9 DEF DropTest, SkipTest
  <2>3. Working' = Working
    BY <1>2, <1>3, <2>1 DEF Working
  <2>4. QED
    BY <1>1, <1>2, <2>1, <2>2, <2>3, SumFrame
<1>10. ASSUME NEW j \in Interactions, NEW b \in busy[j], BeginTest(j, b)
       PROVE  SumInv'
  <2> DEFINE running == [test |-> b.test, at |-> "running", late |-> RunDone]
  <2>1. /\ busy' = [busy EXCEPT ![j] = (@ \ {b}) \cup {running}] /\ UNCHANGED <<sr, starts>> /\ b.at = "picked"
        /\ ran' = [ran EXCEPT ![j][b.test] = @ + 1]
    BY <1>10 DEF BeginTest
  <2>2. running.at = "running"
    OBVIOUS
  <2> HIDE DEF running
  <2>3. busy[j] = {b} /\ b.test \in TestsOf(j)
    <3>1. busy[j] = {b}
      BY <1>1 DEF AtWork
    <3>2. b.test \in TestsOf(j)
      BY <1>1 DEF TypedInv
    <3>3. QED
      BY <3>1, <3>2
  <2>4. Working' = Working \cup {j} /\ j \notin Working
    BY <1>2, <1>3, <2>1, <2>2, <2>3 DEF Working
  <2>5. Cardinality(Working') = Cardinality(Working) + 1
    BY <1>4, <2>4, FS_AddElement
  <2>6. TestsBegun' = TestsBegun + 1 /\ TestsBegun \in Nat
    BY <1>1, <1>2, <2>1, <2>3, BegunCounted
  <2>7. QED
    BY <1>1, <1>3, <1>4, <2>1, <2>5, <2>6 DEF SumInv
<1>11. ASSUME NEW j \in Interactions, NEW b \in busy[j], NEW ok \in BOOLEAN, FinishTest(j, b, ok)
       PROVE  SumInv'
  <2>1. /\ busy' = [busy EXCEPT ![j] = @ \ {b}] /\ UNCHANGED <<ran, starts>> /\ b.at = "running"
        /\ sr' = IF ok THEN [sr EXCEPT !.passed = @ + 1] ELSE [sr EXCEPT !.failed = @ + 1]
    BY <1>11 DEF FinishTest
  <2>2. busy[j] = {b}
    BY <1>1, <1>11 DEF AtWork
  <2>3. Working' = Working \ {j} /\ j \in Working
    BY <1>2, <1>3, <2>1, <2>2 DEF Working
  <2>4. Cardinality(Working') = Cardinality(Working) - 1
    BY <1>4, <2>3, FS_RemoveElement
  <2>5. sr'.passed + sr'.failed = sr.passed + sr.failed + 1
    BY <1>3, <2>1
  <2>6. TestsBegun' = TestsBegun
    BY <1>2, <2>1, Zenon DEF TestsBegun
  <2>7. CASE starts = 2
    BY <2>1, <2>7 DEF SumInv
  <2>8. CASE starts # 2
    <3>1. sr.passed + sr.failed + Cardinality(Working) = TestsBegun
      BY <1>1, <2>8 DEF SumInv
    <3>2. sr'.passed + sr'.failed + Cardinality(Working') = TestsBegun
      BY <1>3, <1>4, <2>4, <2>5, <3>1
    <3>3. QED
      BY <2>6, <3>2 DEF SumInv
  <2>9. QED
    BY <2>7, <2>8
<1>12. CASE \E j \in Interactions : InteractionStep(j)
  BY <1>7, <1>8, <1>9, <1>10, <1>11, <1>12 DEF InteractionStep
<1>13. QED
  BY <1>5, <1>6, <1>12 DEF Next, Step

(* The suite begins well.                                                  *)
LEMMA InitSound == Init => IInv
<1> SUFFICES ASSUME Init PROVE IInv
  OBVIOUS
<1>1. LoopInv /\ passNum = 0 /\ loop = "top"
  BY InitLoopInv DEF Init, LoopInit
<1>2. TypedInv
  <2>1. suite \in SuiteRecord
    BY SuitesAssumption DEF Init
  <2>2. \A j \in Interactions : ran[j] \in Seq(Nat) /\ DOMAIN ran[j] = TestsOf(j)
    <3> SUFFICES ASSUME NEW j \in Interactions PROVE ran[j] \in Seq(Nat) /\ DOMAIN ran[j] = TestsOf(j)
      OBVIOUS
    <3>1. suite.interactions \in Seq(InteractionRecord)
      BY <2>1 DEF SuiteRecord, InteractionRecord, TestRecord
    <3>2. suite.interactions[j] \in InteractionRecord
      BY <3>1 DEF Interactions
    <3>3. suite.interactions[j].tests \in Seq(TestRecord)
      BY <3>2 DEF InteractionRecord
    <3>4. PICK n \in Nat : TestsOf(j) = 1 .. n
      BY <3>3 DEF TestsOf
    <3>5. ran[j] = [t \in 1 .. n |-> 0]
      BY <3>4 DEF Init
    <3>6. QED
      BY <3>4, <3>5
  <2>3. ran \in [Interactions -> Seq(Nat)]
    BY <2>2 DEF Init
  <2>4. picks \in [Interactions -> Seq(Nat)] /\ \A j \in Interactions : DOMAIN picks[j] = {}
    BY DEF Init
  <2>5. DOMAIN busy = Interactions /\ \A j \in Interactions : busy[j] = {}
    BY DEF Init
  <2>6. inter \in [Interactions -> {"idle", "running", "over"}]
    BY DEF Init
  <2>7. QED
    BY <2>1, <2>2, <2>3, <2>4, <2>5, <2>6 DEF Init, TypedInv
<1>3. ASSUME NEW j \in Interactions PROVE AtWork(j) /\ RanInv(j)
  <2>1. inter[j] = "idle" /\ picks[j] = <<>> /\ busy[j] = {} /\ \A t \in TestsOf(j) : ran[j][t] = 0
    BY DEF Init
  <2>2. QED
    BY <1>1, <2>1 DEF AtWork, RanInv
<1>4. PlaceInv
  BY DEF Init, PlaceInv
<1>5. SumInv
  <2>1. Working = {} /\ Cardinality(Working) = 0
    BY FS_EmptySet DEF Init, Working
  <2>2. TestsBegun = 0
    <3>1. ASSUME NEW j \in Interactions PROVE Total(ran[j]) = 0
      <4>1. ran[j] \in Seq(Nat) /\ \A k \in 1 .. Len(ran[j]) : ran[j][k] = 0
        BY <1>2 DEF Init, TypedInv
      <4>2. QED
        BY <4>1, TotalTyped
    <3>2. Interactions = 1 .. Len(suite.interactions) /\ Len(suite.interactions) \in Nat
      BY <1>2, SuiteShape
    <3>3. Begun \in Seq(Nat) /\ \A k \in 1 .. Len(Begun) : Begun[k] = 0
      BY <3>1, <3>2 DEF Begun
    <3>4. TestsBegun = Total(Begun)
      BY Zenon DEF TestsBegun, Begun
    <3>5. QED
      BY <3>3, <3>4, TotalTyped
  <2>3. sr.passed = 0 /\ sr.failed = 0
    BY DEF Init
  <2>4. QED
    BY <2>1, <2>2, <2>3 DEF SumInv
<1>6. QED
  BY <1>1, <1>2, <1>3, <1>4, <1>5 DEF IInv

(* Loop, dispatchers and tests together keep the invariant, timed out or   *)
(* interrupted at any point.                                               *)
THEOREM Invariance == Spec => []IInv
<1>1. IInv /\ [Next]_vars => IInv'
  <2> SUFFICES ASSUME IInv, [Next]_vars PROVE IInv'
    OBVIOUS
  <2>1. LoopInv'
    BY StepOfLoop, StepKeepsLoopInv DEF IInv
  <2>2. QED
    BY <2>1, TypesKept, WorkKept, PlaceKept, SumKept DEF IInv
<1>2. QED
  BY InitSound, <1>1, PTL DEF Spec

(* Between passes and after the last one nothing of a pass is at work: the *)
(* outer Dispatch returns only when every runInteraction has.              *)
THEOREM PassesAreSeparate == Spec => []PassBarrier
<1>1. IInv => PassBarrier
  BY DEF IInv, AtWork, PassBarrier
<1>2. QED
  BY Invariance, <1>1, PTL

(* The result of a finished suite counts every test that was begun, once;  *)
(* and unless the run is cut short or tests are drawn by weight, each test *)
(* that is not skipped was begun once in every pass asked for.             *)
THEOREM EachTestInEachPass == Spec => []EachTestEachPass
<1>1. IInv => EachTestEachPass
  <2> SUFFICES ASSUME IInv, pc = "done", starts = 1
               PROVE  /\ sr.passed + sr.failed = TestsBegun
                      /\ ~RunDone /\ suite.mode # "weighted" =>
                           \A j \in Interactions : ModeOf(j) # "weighted" => \A t \in TestsOf(j) :
                             ran[j][t] = IF Skip(j, t) THEN 0 ELSE PassesAsked
    BY DEF EachTestEachPass
  <2>1. loop = "done"
    BY DEF IInv, PlaceInv
  <2>2. Working = {} /\ Cardinality(Working) = 0
    <3>1. \A j \in Interactions : busy[j] = {}
      BY <2>1 DEF IInv, AtWork
    <3>2. QED
      BY <3>1, FS_EmptySet DEF Working
  <2>3. sr.passed + sr.failed = TestsBegun
    <3>1. sr.passed + sr.failed + Cardinality(Working) = TestsBegun /\ sr.passed \in Nat /\ sr.failed \in Nat
      BY DEF IInv, SumInv, TypedInv
    <3>2. QED
      BY <2>2, <3>1
  <2>4. ~RunDone => passNum = PassesAsked
    BY <2>1 DEF IInv, LoopInv, RepeatHonoured
  <2>5. QED
    BY <2>1, <2>3, <2>4 DEF IInv, RanInv
<1>2. QED
  BY Invariance, <1>1, PTL

(* In a suite, too, the passes are as many as asked for, and none begins   *)
(* once the run is to stop.                                                *)
THEOREM SuiteHonoursRepeat == Spec => []RepeatHonoured /\ NoPassAfterStop
  BY SuiteRunsLoop, RepeatIsHonoured, NothingAfterStop, PTL
-----------------------------------------------------------------------------
(* core/telemetry: sequences of cells.                                     *)

Stretch == Seq(Nat)

(* What FlattenSeq takes in turn, from the first piece to the last.        *)
Joins(f, p) ==
  /\ f \in [1 .. Len(p) -> Stretch]
  /\ f[1] = p[1]
  /\ \A i \in 2 .. Len(p) : f[i] = f[i - 1] \o p[i]

(* The recursion by which FlattenSeq is defined has a solution.            *)
LEMMA FlattenJoins ==
  ASSUME NEW p \in Seq(Stretch), Len(p) > 0
  PROVE  \E f : Joins(f, p) /\ FlattenSeq(p) = f[Len(p)]
<1> DEFINE n == Len(p)
           F(f) == f = [i \in 1 .. n |-> IF i = 1 THEN p[i] ELSE f[i - 1] \o p[i]]
           step == [q \in (1 .. n - 1) \X Stretch |-> q[2] \o p[q[1] + 1]]
<1>1. n \in Nat /\ n > 0 /\ \A i \in 1 .. n : p[i] \in Stretch
  OBVIOUS
<1>2. step \in [(1 .. n - 1) \X Stretch -> Stretch]
  <2>1. ASSUME NEW k \in 1 .. n - 1, NEW s \in Stretch PROVE s \o p[k + 1] \in Stretch
    <3>1. p[k + 1] \in Stretch
      BY <1>1
    <3>2. QED
      BY <3>1 DEF Stretch
  <2>2. QED
    BY <2>1
<1> HIDE DEF n
<1>3. PICK g \in [0 .. n - 1 -> Stretch] : Follows(g, n - 1, p[1], step)
  <2> HIDE DEF step
  <2>1. n - 1 \in Nat /\ p[1] \in Stretch
    BY <1>1
  <2>2. QED
    BY <1>2, <2>1, RecursionExists
<1>4. ASSUME NEW k \in 1 .. n - 1 PROVE g[k] = g[k - 1] \o p[k + 1]
  <2>1. g[k - 1] \in Stretch
    BY <1>3, <1>1
  <2>2. step[<<k, g[k - 1]>>] = g[k - 1] \o p[k + 1]
    BY <2>1
  <2>3. QED
    BY <1>3, <2>2 DEF Follows
<1> DEFINE h == [i \in 1 .. n |-> g[i - 1]]
<1>5. h \in [1 .. n -> Stretch] /\ h[1] = p[1] /\ \A i \in 2 .. n : h[i] = h[i - 1] \o p[i]
  <2>1. h \in [1 .. n -> Stretch]
    BY <1>1, <1>3
  <2>2. h[1] = p[1]
    BY <1>1, <1>3 DEF Follows
  <2>3. ASSUME NEW i \in 2 .. n PROVE h[i] = h[i - 1] \o p[i]
    <3>1. i - 1 \in 1 .. n - 1 /\ (i - 1) + 1 = i /\ i \in 1 .. n /\ i - 1 \in 1 .. n
      BY <1>1
    <3>2. g[i - 1] = g[(i - 1) - 1] \o p[(i - 1) + 1]
      BY <1>4, <3>1
    <3>3. h[i] = g[i - 1] /\ h[i - 1] = g[(i - 1) - 1]
      BY <3>1
    <3>4. QED
      BY <3>1, <3>2, <3>3
  <2>4. QED
    BY <2>1, <2>2, <2>3
<1>6. F(h)
  <2>1. ASSUME NEW i \in 1 .. n PROVE h[i] = IF i = 1 THEN p[i] ELSE h[i - 1] \o p[i]
    <3> HIDE DEF h
    <3>1. CASE i = 1
      BY <1>5, <3>1
    <3>2. CASE i # 1
      <4>1. i \in 2 .. n
        BY <1>1, <3>2
      <4>2. QED
        BY <1>5, <3>2, <4>1
    <3>3. QED
      BY <3>1, <3>2
  <2>2. h = [i \in 1 .. n |-> h[i]]
    OBVIOUS
  <2> HIDE DEF h
  <2>3. QED
    BY <2>1, <2>2
<1> DEFINE f == CHOOSE z : F(z)
<1>7. F(f)
  <2> HIDE DEF h, F
  <2>1. QED
    BY <1>6
<1>8. FlattenSeq(p) = f[n]
  BY <1>1 DEF FlattenSeq, n
<1> HIDE DEF f, h
<1>9. \A i \in 1 .. n : f[i] = IF i = 1 THEN p[i] ELSE f[i - 1] \o p[i]
  BY <1>7, Zenon
<1>10. f[1] = p[1] /\ \A i \in 2 .. n : f[i] = f[i - 1] \o p[i]
  <2>1. f[1] = p[1]
    BY <1>1, <1>9
  <2>2. ASSUME NEW i \in 2 .. n PROVE f[i] = f[i - 1] \o p[i]
    <3>1. i \in 1 .. n /\ i # 1
      BY <1>1
    <3>2. QED
      BY <1>9, <3>1, Zenon
  <2>3. QED
    BY <2>1, <2>2
<1>11. f \in [1 .. n -> Stretch]
  <2> DEFINE T == {k \in 0 .. n : k > 0 => f[k] \in Stretch}
  <2>1. 0 \in T
    BY <1>1
  <2>2. ASSUME NEW k \in 0 .. n - 1, k \in T PROVE k + 1 \in T
    <3>1. p[k + 1] \in Stretch /\ k + 1 \in 0 .. n
      BY <1>1
    <3>2. CASE k = 0
      BY <1>1, <1>10, <3>2
    <3>3. CASE k > 0
      <4>1. k + 1 \in 2 .. n /\ (k + 1) - 1 = k /\ f[k] \in Stretch
        BY <1>1, <2>2, <3>3
      <4>2. f[k + 1] = f[k] \o p[k + 1]
        BY <1>10, <4>1
      <4>3. f[k + 1] \in Stretch
        BY <3>1, <4>1, <4>2 DEF Stretch
      <4>4. QED
        BY <3>1, <4>3
    <3>4. QED
      BY <3>2, <3>3
  <2> HIDE DEF T
  <2>3. 0 .. n \subseteq T
    BY <1>1, <2>1, <2>2, IntervalInduction
  <2>4. \A i \in 1 .. n : f[i] \in Stretch
    BY <1>1, <2>3 DEF T
  <2>5. f = [i \in 1 .. n |-> f[i]]
    <3>1. DOMAIN f = 1 .. n /\ f = [i \in DOMAIN f |-> f[i]]
      BY <1>7, Zenon
    <3>2. QED
      BY <3>1
  <2>6. QED
    BY <2>4, <2>5
<1>12. QED
  BY <1>8, <1>10, <1>11 DEF Joins, n

\* the same of the first n pieces of p
JoinsUpto(f, p, n) ==
  /\ f[1] = p[1]
  /\ \A i \in 2 .. n : f[i] = f[i - 1] \o p[i]
  /\ \A i \in 1 .. n : f[i] \in Stretch

(* The pieces that are joined may be named in a longer sequence.           *)
LEMMA JoinsIn ==
  ASSUME NEW p, NEW q, NEW n \in Nat, n > 0, Len(q) = n, \A i \in 1 .. n : q[i] = p[i],
         NEW f, Joins(f, q)
  PROVE  JoinsUpto(f, p, n)
<1>1. f[1] = q[1] /\ q[1] = p[1]
  BY DEF Joins
<1>2. ASSUME NEW i \in 2 .. n PROVE f[i] = f[i - 1] \o p[i]
  <2>1. q[i] = p[i]
    OBVIOUS
  <2>2. f[i] = f[i - 1] \o q[i]
    BY Zenon DEF Joins
  <2>3. QED
    BY <2>1, <2>2
<1>3. \A i \in 1 .. n : f[i] \in Stretch
  BY DEF Joins
<1>4. QED
  BY <1>1, <1>2, <1>3 DEF JoinsUpto

\* the first n pieces, one after the other
Upto(p, n) == FlattenSeq(SubSeq(p, 1, n))

(* One piece after the other.                                              *)
LEMMA UptoJoins ==
  ASSUME NEW p \in Seq(Stretch)
  PROVE  /\ Upto(p, 0) = <<>>
         /\ \A n \in 1 .. Len(p) : Upto(p, n) = Upto(p, n - 1) \o p[n]
         /\ \A n \in 0 .. Len(p) : Upto(p, n) \in Stretch
<1>1. Upto(p, 0) = <<>>
  <2>1. SubSeq(p, 1, 0) = <<>>
    OBVIOUS
  <2>2. FlattenSeq(<<>>) = <<>>
    BY DEF FlattenSeq
  <2>3. QED
    BY <2>1, <2>2 DEF Upto
<1>2. ASSUME NEW n \in 1 .. Len(p)
      PROVE  /\ SubSeq(p, 1, n) \in Seq(Stretch) /\ Len(SubSeq(p, 1, n)) = n
             /\ \A i \in 1 .. n : SubSeq(p, 1, n)[i] = p[i] /\ p[i] \in Stretch
  OBVIOUS
<1>3. ASSUME NEW n \in 1 .. Len(p) PROVE Upto(p, n) \in Stretch
  <2>1. PICK f : Joins(f, SubSeq(p, 1, n)) /\ Upto(p, n) = f[n]
    <3>1. Len(SubSeq(p, 1, n)) > 0
      BY <1>2
    <3>2. QED
      BY <1>2, <3>1, FlattenJoins DEF Upto
  <2>2. QED
    BY <1>2, <2>1 DEF Joins
<1>4. ASSUME NEW n \in 1 .. Len(p) PROVE Upto(p, n) = Upto(p, n - 1) \o p[n]
  <2>1. PICK f : Joins(f, SubSeq(p, 1, n)) /\ Upto(p, n) = f[n]
    <3>1. Len(SubSeq(p, 1, n)) > 0
      BY <1>2
    <3>2. QED
      BY <1>2, <3>1, FlattenJoins DEF Upto
  <2>2. f[1] = p[1] /\ \A i \in 2 .. n : f[i] = f[i - 1] \o p[i]
    <3>1. n \in Nat /\ n > 0
      OBVIOUS
    <3>2. JoinsUpto(f, p, n)
      BY <1>2, <2>1, <3>1, JoinsIn
    <3>3. QED
      BY <3>2, Zenon DEF JoinsUpto
  <2>3. CASE n = 1
    <3>1. Upto(p, n) = p[1] /\ Upto(p, n - 1) = <<>> /\ p[1] \in Stretch
      BY <1>1, <1>2, <2>1, <2>2, <2>3
    <3>2. QED
      BY <2>3, <3>1 DEF Stretch
  <2>4. CASE n > 1
    <3> DEFINE m == n - 1
    <3>1. m \in 1 .. Len(p) /\ m \in Nat /\ n = m + 1
      BY <2>4
    <3> HIDE DEF m
    <3>2. PICK g : Joins(g, SubSeq(p, 1, m)) /\ Upto(p, m) = g[m]
      <4>1. SubSeq(p, 1, m) \in Seq(Stretch) /\ Len(SubSeq(p, 1, m)) = m
        BY <1>2, <3>1
      <4>2. Len(SubSeq(p, 1, m)) > 0
        BY <3>1, <4>1
      <4>3. QED
        BY <4>1, <4>2, FlattenJoins DEF Upto
    <3>3. g[1] = p[1] /\ \A i \in 2 .. m : g[i] = g[i - 1] \o p[i]
      <4>1. Len(SubSeq(p, 1, m)) = m /\ m > 0 /\ \A i \in 1 .. m : SubSeq(p, 1, m)[i] = p[i]
        BY <1>2, <3>1
      <4>2. JoinsUpto(g, p, m)
        BY <3>1, <3>2, <4>1, JoinsIn
      <4>3. QED
        BY <4>2, Zenon DEF JoinsUpto
    <3> DEFINE T == {k \in 0 .. m : k > 0 => g[k] = f[k]}
    <3>4. 0 .. m \subseteq T
      <4>1. 0 \in T
        BY <3>1
      <4>2. ASSUME NEW k \in 0 .. m - 1, k \in T PROVE k + 1 \in T
        <5>1. CASE k = 0
          BY <2>2, <3>1, <3>3, <5>1
        <5>2. CASE k > 0
          <6>1. k + 1 \in 2 .. m /\ k + 1 \in 2 .. n /\ (k + 1) - 1 = k /\ g[k] = f[k]
            BY <3>1, <4>2, <5>2
          <6>2. g[k + 1] = g[k] \o p[k + 1] /\ f[k + 1] = f[k] \o p[k + 1]
            <7>1. f[k + 1] = f[(k + 1) - 1] \o p[k + 1]
              BY <2>2, <6>1, Zenon
            <7>2. g[k + 1] = g[(k + 1) - 1] \o p[k + 1]
              BY <3>3, <6>1, Zenon
            <7>3. QED
              BY <6>1, <7>1, <7>2
          <6>3. g[k + 1] = f[k + 1]
            BY <6>1, <6>2, Zenon
          <6>4. QED
            BY <3>1, <6>1, <6>3
        <5>3. QED
          BY <5>1, <5>2
      <4> HIDE DEF T
      <4>3. QED
        BY <3>1, <4>1, <4>2, IntervalInduction
    <3>5. g[m] = f[m]
      BY <3>1, <3>4
    <3>6. f[n] = f[m] \o p[n] /\ n - 1 = m
      <4>1. n \in 2 .. n /\ n - 1 = m
        BY <2>4, <3>1
      <4>2. f[n] = f[n - 1] \o p[n]
        BY <2>2, <4>1, Zenon
      <4>3. QED
        BY <4>1, <4>2
    <3>7. QED
      BY <2>1, <3>2, <3>5, <3>6
  <2>5. n = 1 \/ n > 1
    OBVIOUS
  <2>6. QED
    BY <2>3, <2>4, <2>5, Zenon
<1>5. QED
  <2>1. Upto(p, 0) \in Stretch
    <3>1. <<>> \in Stretch
      BY DEF Stretch
    <3>2. QED
      BY <1>1, <3>1, Zenon
  <2>2. \A n \in 0 .. Len(p) : Upto(p, n) \in Stretch
    BY <1>3, <2>1
  <2>3. QED
    BY <1>1, <1>4, <2>2

\* the first n pieces are those before the n-th, and the n-th
UptoAt(p, n) ==
  /\ Upto(p, n) \in Stretch
  /\ n > 0 => /\ Upto(p, n) = Upto(p, n - 1) \o p[n]
              /\ Upto(p, n - 1) \in Stretch /\ p[n] \in Stretch

(* One piece more.                                                         *)
LEMMA UptoStep ==
  ASSUME NEW p \in Seq(Stretch), NEW n \in 0 .. Len(p)
  PROVE  UptoAt(p, n)
<1>1. Upto(p, n) \in Stretch
  BY UptoJoins
<1>2. ASSUME n > 0
      PROVE  Upto(p, n) = Upto(p, n - 1) \o p[n] /\ Upto(p, n - 1) \in Stretch /\ p[n] \in Stretch
  <2>1. n \in 1 .. Len(p) /\ n - 1 \in 0 .. Len(p)
    BY <1>2
  <2>2. p[n] \in Stretch
    BY <2>1
  <2>3. QED
    BY <2>1, <2>2, UptoJoins
<1>3. QED
  BY <1>1, <1>2 DEF UptoAt

\* t begins with s
Starts(s, t) == Len(s) <= Len(t) /\ \A i \in 1 .. Len(s) : t[i] = s[i]

(* What is added at the end leaves the beginning alone.                    *)
LEMMA StartsConcat ==
  ASSUME NEW s \in Stretch, NEW t \in Stretch
  PROVE  Starts(s, s \o t)
BY DEF Starts, Stretch

(* A beginning of a beginning is a beginning.                              *)
LEMMA StartsTrans ==
  ASSUME NEW a \in Stretch, NEW b \in Stretch, NEW c \in Stretch, Starts(a, b), Starts(b, c)
  PROVE  Starts(a, c)
BY DEF Starts, Stretch

(* What is left of a stretch of cells.                                     *)
LEMMA FromFacts ==
  ASSUME NEW s \in Stretch, NEW i \in 1 .. Len(s) + 1
  PROVE  /\ From(s, i) \in Stretch
         /\ Len(From(s, i)) = Len(s) + 1 - i
         /\ \A j \in 1 .. Len(s) + 1 - i : From(s, i)[j] = s[i + j - 1]
BY DEF From, Stretch

(* Going on from a place, and from there again.                            *)
LEMMA FromFrom ==
  ASSUME NEW s \in Stretch, NEW i \in 1 .. Len(s) + 1, NEW j \in 1 .. Len(s) + 2 - i
  PROVE  From(From(s, i), j) = From(s, i + j - 1)
<1> DEFINE a == From(s, i)
           b == From(a, j)
           c == From(s, i + j - 1)
<1>1. Len(s) \in Nat
  BY DEF Stretch
<1>2. a \in Stretch /\ Len(a) = Len(s) + 1 - i /\ \A k \in 1 .. Len(s) + 1 - i : a[k] = s[i + k - 1]
  BY FromFacts
<1>3. i + j - 1 \in 1 .. Len(s) + 1
  BY <1>1
<1>4. c \in Stretch /\ Len(c) = Len(s) + 2 - (i + j)
      /\ \A k \in 1 .. Len(s) + 2 - (i + j) : c[k] = s[(i + j - 1) + k - 1]
  <2>1. Len(c) = Len(s) + 1 - (i + j - 1) /\ c \in Stretch
        /\ \A k \in 1 .. Len(s) + 1 - (i + j - 1) : c[k] = s[(i + j - 1) + k - 1]
    BY <1>3, FromFacts
  <2>2. Len(s) + 1 - (i + j - 1) = Len(s) + 2 - (i + j)
    BY <1>1
  <2>3. QED
    BY <2>1, <2>2
<1> HIDE DEF a, c
<1>5. j \in 1 .. Len(a) + 1 /\ Len(a) + 1 - j = Len(s) + 2 - (i + j)
  BY <1>1, <1>2
<1>6. b \in Stretch /\ Len(b) = Len(a) + 1 - j /\ \A k \in 1 .. Len(a) + 1 - j : b[k] = a[j + k - 1]
  BY <1>2, <1>5, FromFacts
<1> HIDE DEF b
<1>7. Len(b) = Len(c)
  BY <1>4, <1>5, <1>6
<1>8. ASSUME NEW k \in 1 .. Len(c) PROVE b[k] = c[k]
  <2>1. b[k] = a[j + k - 1] /\ c[k] = s[(i + j - 1) + k - 1]
    BY <1>4, <1>5, <1>6
  <2>2. j + k - 1 \in 1 .. Len(s) + 1 - i /\ i + (j + k - 1) - 1 = (i + j - 1) + k - 1
    BY <1>1, <1>4
  <2>3. a[j + k - 1] = s[i + (j + k - 1) - 1]
    BY <1>2, <2>2
  <2>4. QED
    BY <2>1, <2>2, <2>3
<1>9. b = c
  BY <1>4, <1>6, <1>7, <1>8, SeqEqual DEF Stretch
<1>10. QED
  BY <1>9 DEF a, b, c

(* What follows the first of two parts is the second.                      *)
LEMMA StartsRest ==
  ASSUME NEW a \in Stretch, NEW b \in Stretch, NEW s \in Stretch, Starts(a \o b, s)
  PROVE  Len(a) + 1 \in 1 .. Len(s) + 1 /\ Starts(b, From(s, Len(a) + 1))
<1>1. Len(a) \in Nat /\ Len(b) \in Nat /\ Len(s) \in Nat /\ Len(a \o b) = Len(a) + Len(b)
      /\ \A i \in 1 .. Len(b) : (a \o b)[Len(a) + i] = b[i]
  BY DEF Stretch
<1>2. Len(a) + Len(b) <= Len(s) /\ \A i \in 1 .. Len(b) : s[Len(a) + i] = b[i]
  <2>1. Len(a) + Len(b) <= Len(s)
    BY <1>1 DEF Starts
  <2>2. ASSUME NEW i \in 1 .. Len(b) PROVE s[Len(a) + i] = b[i]
    <3>1. Len(a) + i \in 1 .. Len(a \o b)
      BY <1>1
    <3>2. QED
      BY <1>1, <3>1 DEF Starts
  <2>3. QED
    BY <2>1, <2>2
<1>3. Len(a) + 1 \in 1 .. Len(s) + 1
  BY <1>1, <1>2
<1> DEFINE r == From(s, Len(a) + 1)
<1>4. Len(r) = Len(s) + 1 - (Len(a) + 1)
      /\ \A j \in 1 .. Len(s) + 1 - (Len(a) + 1) : r[j] = s[Len(a) + 1 + j - 1]
  BY <1>3, FromFacts
<1> HIDE DEF r
<1>5. Len(b) <= Len(r)
  BY <1>1, <1>2, <1>4
<1>6. ASSUME NEW i \in 1 .. Len(b) PROVE r[i] = b[i]
  <2>1. i \in 1 .. Len(s) + 1 - (Len(a) + 1) /\ Len(a) + 1 + i - 1 = Len(a) + i
    BY <1>1, <1>2
  <2>2. r[i] = s[Len(a) + i]
    BY <1>4, <2>1
  <2>3. QED
    BY <1>2, <2>2
<1>7. QED
  BY <1>3, <1>5, <1>6 DEF Starts, r

\* c behind a and b, and behind b in what follows a
InTurn(a, b, c) == (a \o b) \o c = a \o (b \o c)

\* s is a with b behind it
IsBoth(s, a, b) ==
  /\ s \in Stretch /\ Len(s) = Len(a) + Len(b)
  /\ \A n \in 1 .. Len(a) + Len(b) : s[n] = IF n <= Len(a) THEN a[n] ELSE b[n - Len(a)]

(* What is put together has the cells of both.                             *)
LEMMA BothThere ==
  ASSUME NEW a \in Stretch, NEW b \in Stretch
  PROVE  IsBoth(a \o b, a, b)
BY ConcatProperties DEF IsBoth, Stretch

(* Three stretches of cells can be put together from either end.           *)
LEMMA EitherEnd ==
  ASSUME NEW a \in Stretch, NEW b \in Stretch, NEW c \in Stretch
  PROVE  InTurn(a, b, c)
<1> DEFINE d == a \o b
           e == b \o c
           s == d \o c
           t == a \o e
           i == Len(a)
           j == Len(b)
           k == Len(c)
<1>1. IsBoth(d, a, b) /\ IsBoth(e, b, c)
  BY BothThere
<1> HIDE DEF d, e
<1>2. d \in Stretch /\ e \in Stretch
  BY <1>1 DEF IsBoth
<1>3. IsBoth(s, d, c) /\ IsBoth(t, a, e)
  BY <1>2, BothThere
<1> HIDE DEF s, t
<1>4. i \in Nat /\ j \in Nat /\ k \in Nat
  BY LenProperties DEF Stretch
<1>5. Len(d) = i + j /\ Len(e) = j + k
  BY <1>1 DEF IsBoth
<1>6. /\ \A n \in 1 .. i + j : d[n] = IF n <= i THEN a[n] ELSE b[n - i]
      /\ \A n \in 1 .. j + k : e[n] = IF n <= j THEN b[n] ELSE c[n - j]
  BY <1>1 DEF IsBoth
<1>7. /\ s \in Stretch /\ Len(s) = (i + j) + k
      /\ \A n \in 1 .. (i + j) + k : s[n] = IF n <= i + j THEN d[n] ELSE c[n - (i + j)]
  BY <1>3, <1>5 DEF IsBoth
<1>8. /\ t \in Stretch /\ Len(t) = i + (j + k)
      /\ \A n \in 1 .. i + (j + k) : t[n] = IF n <= i THEN a[n] ELSE e[n - i]
  BY <1>3, <1>5 DEF IsBoth
<1> HIDE DEF i, j, k
<1>9. (i + j) + k = i + (j + k)
  BY <1>4
<1>10. ASSUME NEW n \in 1 .. i + (j + k) PROVE s[n] = t[n]
  <2>1. CASE n <= i
    <3>1. n \in 1 .. i + j /\ n \in 1 .. (i + j) + k /\ n <= i + j
      BY <1>4, <2>1
    <3>2. s[n] = d[n] /\ d[n] = a[n] /\ t[n] = a[n]
      BY <1>6, <1>7, <1>8, <2>1, <3>1
    <3>3. QED
      BY <3>2
  <2>2. CASE ~(n <= i) /\ n <= i + j
    <3>1. n \in 1 .. i + j /\ n \in 1 .. (i + j) + k /\ n - i \in 1 .. j + k /\ n - i <= j
      BY <1>4, <2>2
    <3>2. s[n] = d[n] /\ d[n] = b[n - i]
      BY <1>6, <1>7, <2>2, <3>1
    <3>3. t[n] = e[n - i] /\ e[n - i] = b[n - i]
      BY <1>6, <1>8, <2>2, <3>1
    <3>4. QED
      BY <3>2, <3>3
  <2>3. CASE ~(n <= i) /\ ~(n <= i + j)
    <3>1. n \in 1 .. (i + j) + k /\ n - i \in 1 .. j + k /\ ~(n - i <= j) /\ (n - i) - j = n - (i + j)
      BY <1>4, <2>3
    <3>2. s[n] = c[n - (i + j)]
      BY <1>7, <2>3, <3>1
    <3>3. t[n] = e[n - i] /\ e[n - i] = c[(n - i) - j]
      BY <1>6, <1>8, <2>3, <3>1
    <3>4. QED
      BY <3>1, <3>2, <3>3
  <2>4. QED
    BY <1>4, <2>1, <2>2, <2>3
<1>11. s = t
  <2>1. Len(s) = Len(t) /\ \A n \in 1 .. Len(s) : s[n] = t[n]
    BY <1>7, <1>8, <1>9, <1>10
  <2>2. s \in Seq(Nat) /\ t \in Seq(Nat)
    BY <1>7, <1>8 DEF Stretch
  <2>3. QED
    BY <2>1, <2>2, SeqEqual
<1>12. QED
  BY <1>11, Zenon DEF InTurn, s, t, d, e

(* Three stretches of cells in a row, in whichever order they are put      *)
(* together.                                                               *)
LEMMA ConcatAssociates ==
  ASSUME NEW a \in Stretch, NEW b \in Stretch, NEW c \in Stretch
  PROVE  (a \o b) \o c = a \o (b \o c) /\ a \o b \in Stretch /\ Len(a \o b) = Len(a) + Len(b)
<1>1. InTurn(a, b, c)
  BY EitherEnd
<1>2. a \o b \in Stretch /\ Len(a \o b) = Len(a) + Len(b)
  BY BothThere DEF IsBoth
<1>3. QED
  BY <1>1, <1>2, Zenon DEF InTurn

(* What is after a is b, when a \o b is all there is.                      *)
LEMMA FromConcat ==
  ASSUME NEW a \in Stretch, NEW b \in Stretch
  PROVE  From(a \o b, Len(a) + 1) = b
<1>1. Len(a) \in Nat /\ Len(b) \in Nat /\ a \o b \in Stretch /\ Len(a \o b) = Len(a) + Len(b)
      /\ \A i \in 1 .. Len(b) : (a \o b)[Len(a) + i] = b[i]
  BY DEF Stretch
<1> DEFINE r == From(a \o b, Len(a) + 1)
<1>2. Len(a) + 1 \in 1 .. Len(a \o b) + 1
  BY <1>1
<1>3. r \in Stretch /\ Len(r) = Len(a \o b) + 1 - (Len(a) + 1)
      /\ \A j \in 1 .. Len(a \o b) + 1 - (Len(a) + 1) : r[j] = (a \o b)[Len(a) + 1 + j - 1]
  BY <1>1, <1>2, FromFacts
<1> HIDE DEF r
<1>4. Len(r) = Len(b)
  BY <1>1, <1>3
<1>5. ASSUME NEW i \in 1 .. Len(b) PROVE r[i] = b[i]
  <2>1. i \in 1 .. Len(a \o b) + 1 - (Len(a) + 1) /\ Len(a) + 1 + i - 1 = Len(a) + i
    BY <1>1
  <2>2. r[i] = (a \o b)[Len(a) + i]
    BY <1>3, <2>1
  <2>3. QED
    BY <1>1, <2>2
<1>6. r = b
  BY <1>3, <1>4, <1>5, SeqEqual DEF Stretch
<1>7. QED
  BY <1>6 DEF r
-----------------------------------------------------------------------------
(* Sorted keys.                                                            *)

(* Of some numbers there is a smallest.                                    *)
LEMMA Smallest ==
  ASSUME NEW S, S \subseteq Nat, S # {}
  PROVE  \E m \in S : \A k \in S : m <= k
<1> SUFFICES ASSUME \A m \in S : \E k \in S : k < m PROVE FALSE
  OBVIOUS
<1> DEFINE T == {n \in Nat : \A k \in S : n <= k}
<1>1. 0 \in T
  OBVIOUS
<1>2. ASSUME NEW n \in Nat, n \in T PROVE n + 1 \in T
  <2>1. ASSUME NEW k \in S PROVE n + 1 <= k
    <3>1. PICK j \in S : j < k
      OBVIOUS
    <3>2. QED
      BY <1>2, <3>1
  <2>2. QED
    BY <2>1
<1>3. Nat \subseteq T
  <2> HIDE DEF T
  <2>1. QED
    BY <1>1, <1>2, SetInduction
<1>4. PICK k \in S : TRUE
  OBVIOUS
<1>5. k + 1 \in T
  BY <1>3, <1>4
<1>6. QED
  BY <1>4, <1>5

\* s has each of the keys, in order
InOrder(s, keys) ==
  /\ s \in [1 .. Cardinality(keys) -> keys]
  /\ \A k \in keys : \E i \in DOMAIN s : s[i] = k
  /\ \A i, j \in DOMAIN s : i < j => s[i] < s[j]

(* Finitely many keys can be sorted: the smallest, and then the others.    *)
LEMMA SortedInOrder ==
  ASSUME NEW keys, keys \subseteq Nat, IsFiniteSet(keys)
  PROVE  Cardinality(keys) \in Nat /\ InOrder(Sorted(keys), keys)
<1> DEFINE T == {n \in Nat : \A K \in SUBSET Nat :
                   IsFiniteSet(K) /\ Cardinality(K) = n => \E s : InOrder(s, K)}
<1>1. 0 \in T
  <2> SUFFICES ASSUME NEW K \in SUBSET Nat, IsFiniteSet(K), Cardinality(K) = 0
               PROVE  \E s : InOrder(s, K)
    OBVIOUS
  <2>1. K = {}
    BY FS_EmptySet
  <2>2. [i \in 1 .. 0 |-> 0] \in [1 .. Cardinality(K) -> K]
    BY <2>1
  <2>3. QED
    BY <2>1, <2>2 DEF InOrder
<1>2. ASSUME NEW n \in Nat, n \in T PROVE n + 1 \in T
  <2> SUFFICES ASSUME NEW K \in SUBSET Nat, IsFiniteSet(K), Cardinality(K) = n + 1
               PROVE  \E s : InOrder(s, K)
    OBVIOUS
  <2>1. K # {}
    BY FS_EmptySet
  <2>2. PICK m \in K : \A k \in K : m <= k
    BY <2>1, Smallest
  <2> DEFINE L == K \ {m}
  <2>3. IsFiniteSet(L) /\ Cardinality(L) = n /\ L \in SUBSET Nat
    <3>1. IsFiniteSet(L) /\ Cardinality(L) = Cardinality(K) - 1
      BY FS_RemoveElement
    <3>2. QED
      BY <3>1
  <2>4. PICK t : InOrder(t, L)
    <3> HIDE DEF L
    <3>1. QED
      BY <1>2, <2>3
  <2> DEFINE s == [i \in 1 .. n + 1 |-> IF i = 1 THEN m ELSE t[i - 1]]
  <2>5. t \in [1 .. n -> L] /\ (\A k \in L : \E i \in 1 .. n : t[i] = k)
        /\ \A i, j \in 1 .. n : i < j => t[i] < t[j]
    BY <2>3, <2>4 DEF InOrder
  <2>6. s \in [1 .. n + 1 -> K]
    BY <2>5
  <2>7. ASSUME NEW k \in K PROVE \E i \in 1 .. n + 1 : s[i] = k
    <3>1. CASE k = m
      BY <3>1
    <3>2. CASE k # m
      <4>1. PICK i \in 1 .. n : t[i] = k
        BY <2>5, <3>2
      <4>2. i + 1 \in 1 .. n + 1 /\ i + 1 # 1 /\ (i + 1) - 1 = i
        OBVIOUS
      <4>3. s[i + 1] = k
        BY <4>1, <4>2
      <4>4. QED
        BY <4>2, <4>3
    <3>3. QED
      BY <3>1, <3>2
  <2>8. ASSUME NEW i \in 1 .. n + 1, NEW j \in 1 .. n + 1, i < j PROVE s[i] < s[j]
    <3>1. j - 1 \in 1 .. n /\ s[j] = t[j - 1]
      BY <2>8
    <3>2. CASE i = 1
      <4>1. t[j - 1] \in K /\ t[j - 1] # m
        BY <2>5, <3>1
      <4>2. m <= t[j - 1] /\ m \in Nat /\ t[j - 1] \in Nat
        BY <2>2, <4>1
      <4>3. s[i] = m
        BY <3>2
      <4>4. QED
        BY <3>1, <4>1, <4>2, <4>3
    <3>3. CASE i # 1
      <4>1. i - 1 \in 1 .. n /\ s[i] = t[i - 1] /\ i - 1 < j - 1
        BY <2>8, <3>3
      <4>2. QED
        BY <2>5, <3>1, <4>1
    <3>4. QED
      BY <3>2, <3>3
  <2> HIDE DEF s
  <2>9. QED
    BY <2>6, <2>7, <2>8 DEF InOrder
<1>3. Nat \subseteq T
  <2> HIDE DEF T
  <2>1. QED
    BY <1>1, <1>2, SetInduction
<1>4. Cardinality(keys) \in Nat
  BY FS_CardinalityType
<1>5. \E s : InOrder(s, keys)
  BY <1>3, <1>4
<1> DEFINE F(s) == s \in [1 .. Cardinality(keys) -> keys]
                   /\ (\A k \in keys : \E i \in DOMAIN s : s[i] = k)
                   /\ \A i, j \in DOMAIN s : i < j => s[i] < s[j]
<1>6. QED
  <2>1. PICK s \in [1 .. Cardinality(keys) -> keys] :
          /\ \A k \in keys : \E i \in DOMAIN s : s[i] = k
          /\ \A i, j \in DOMAIN s : i < j => s[i] < s[j]
    BY <1>5, Zenon DEF InOrder
  <2>2. InOrder(Sorted(keys), keys)
    BY <2>1, Zenon DEF InOrder, Sorted
  <2>3. QED
    BY <1>4, <2>2
-----------------------------------------------------------------------------
(* The tags.                                                               *)

(* The width of a length and the bound on the records.                     *)
LEMMA WidthPositive == Width \in Nat /\ Width > 0 /\ RecordCap \in Nat
BY TelemetryAssumption

(* A text has as many cells as it is long.                                 *)
LEMMA CellsFacts ==
  ASSUME NEW n \in Nat
  PROVE  Cells(n) \in Stretch /\ Len(Cells(n)) = n
BY DEF Cells, Stretch

\* a text of length n as it is written
IsText(s, n) == s \in Stretch /\ Len(s) = n + 1 /\ (n < Width => s[1] = n)

(* A text that fits is found after its own length.                         *)
LEMMA CodedFacts ==
  ASSUME NEW n \in Nat
  PROVE  IsText(Coded(n), n)
<1>1. n % Width \in Nat /\ (n < Width => n % Width = n)
  BY WidthPositive
<1> DEFINE r == n % Width
<1>2. Coded(n) = <<r>> \o Cells(n)
  BY DEF Coded
<1> HIDE DEF r
<1>3. r \in Nat /\ (n < Width => r = n)
  BY <1>1 DEF r
<1>4. <<r>> \in Stretch /\ Len(<<r>>) = 1 /\ <<r>>[1] = r
  BY <1>3 DEF Stretch
<1>5. Cells(n) \in Stretch /\ Len(Cells(n)) = n
  BY CellsFacts
<1>6. Coded(n) \in Stretch /\ Len(Coded(n)) = n + 1 /\ Coded(n)[1] = r
  BY <1>2, <1>4, <1>5 DEF Stretch
<1>7. QED
  BY <1>3, <1>6 DEF IsText

\* a table of tags that a record can have
IsTags(tags, keys) == keys \subseteq Nat /\ IsFiniteSet(keys) /\ tags \in [keys -> Nat]

\* what is written for each key
TagPieces(tags, keys) ==
  [i \in 1 .. Cardinality(keys) |-> Coded(Sorted(keys)[i]) \o Coded(tags[Sorted(keys)[i]])]

(* A table of tags is written key by key, as sort.Strings has ordered them *)
(* (tlv.go:187-223).                                                       *)
LEMMA TagPiecesFacts ==
  ASSUME NEW tags, NEW keys, IsTags(tags, keys)
  PROVE  LET p == TagPieces(tags, keys) k == Sorted(keys) IN
         /\ Cardinality(keys) \in Nat
         /\ p \in Seq(Stretch) /\ Len(p) = Cardinality(keys)
         /\ \A i \in 1 .. Cardinality(keys) :
              k[i] \in keys /\ k[i] \in Nat /\ tags[k[i]] \in Nat /\ p[i] = Coded(k[i]) \o Coded(tags[k[i]])
<1> DEFINE n == Cardinality(keys)
           k == Sorted(keys)
<1>1. keys \subseteq Nat /\ IsFiniteSet(keys) /\ tags \in [keys -> Nat]
  BY DEF IsTags
<1>2. n \in Nat /\ InOrder(k, keys)
  BY <1>1, SortedInOrder
<1>3. ASSUME NEW i \in 1 .. n
      PROVE  k[i] \in keys /\ k[i] \in Nat /\ tags[k[i]] \in Nat
             /\ Coded(k[i]) \o Coded(tags[k[i]]) \in Stretch
  <2>1. k[i] \in keys /\ k[i] \in Nat /\ tags[k[i]] \in Nat
    <3> HIDE DEF k, n
    <3>1. k \in [1 .. n -> keys]
      BY <1>2 DEF InOrder, n
    <3>2. QED
      BY <1>1, <3>1
  <2>2. Coded(k[i]) \in Stretch /\ Coded(tags[k[i]]) \in Stretch
    <3> HIDE DEF k
    <3>1. IsText(Coded(k[i]), k[i]) /\ IsText(Coded(tags[k[i]]), tags[k[i]])
      BY <2>1, CodedFacts
    <3>2. QED
      BY <3>1 DEF IsText
  <2>3. QED
    BY <2>1, <2>2, ConcatAssociates
<1> HIDE DEF k, n
<1>4. TagPieces(tags, keys) = [i \in 1 .. n |-> Coded(k[i]) \o Coded(tags[k[i]])]
  BY DEF TagPieces, k, n
<1>5. TagPieces(tags, keys) \in Seq(Stretch) /\ Len(TagPieces(tags, keys)) = n
  BY <1>2, <1>3, <1>4
<1>6. QED
  BY <1>2, <1>3, <1>4, <1>5 DEF k, n

(* encodeTags writes nothing exactly when there are no tags.               *)
LEMMA TagsEncoded ==
  ASSUME NEW tags, NEW keys, IsTags(tags, keys)
  PROVE  /\ EncodeTags(tags) = Upto(TagPieces(tags, keys), Cardinality(keys))
         /\ EncodeTags(tags) \in Stretch
         /\ EncodeTags(tags) = <<>> <=> Cardinality(keys) = 0
<1> DEFINE n == Cardinality(keys)
           k == Sorted(keys)
           p == TagPieces(tags, keys)
<1>1. /\ n \in Nat /\ p \in Seq(Stretch) /\ Len(p) = n
      /\ \A i \in 1 .. n : k[i] \in Nat /\ tags[k[i]] \in Nat /\ p[i] = Coded(k[i]) \o Coded(tags[k[i]])
  BY TagPiecesFacts
<1>2. DOMAIN tags = keys /\ InOrder(k, keys)
  BY SortedInOrder DEF IsTags
<1>3. DOMAIN k = 1 .. n
  <2> HIDE DEF k, n
  <2>1. QED
    BY <1>2 DEF InOrder, n
<1>4. EncodeTags(tags) = FlattenSeq(p)
  BY <1>2, <1>3, Zenon DEF EncodeTags, TagPieces
<1> HIDE DEF k, n, p
<1>5. SubSeq(p, 1, n) = p
  BY <1>1, SubSeqFull
<1>6. EncodeTags(tags) = Upto(p, n)
  BY <1>4, <1>5 DEF Upto
<1>7. Upto(p, n) \in Stretch
  <2>1. n \in 0 .. Len(p)
    BY <1>1
  <2>2. QED
    BY <1>1, <2>1, UptoJoins
<1>8. Upto(p, n) = <<>> <=> n = 0
  <2>1. CASE n = 0
    BY <1>1, <2>1, UptoJoins
  <2>2. CASE n > 0
    <3>1. n \in 1 .. Len(p) /\ n - 1 \in 0 .. Len(p)
      BY <1>1, <2>2
    <3>2. Upto(p, n) = Upto(p, n - 1) \o p[n] /\ Upto(p, n - 1) \in Stretch
      BY <1>1, <3>1, UptoJoins
    <3>3. Coded(k[n]) \in Stretch /\ Coded(tags[k[n]]) \in Stretch /\ Len(Coded(k[n])) > 0
      <4>1. k[n] \in Nat /\ tags[k[n]] \in Nat
        BY <1>1, <3>1
      <4>2. IsText(Coded(k[n]), k[n]) /\ IsText(Coded(tags[k[n]]), tags[k[n]])
        BY <4>1, CodedFacts
      <4>3. QED
        BY <4>1, <4>2 DEF IsText
    <3>4. p[n] \in Stretch /\ Len(p[n]) > 0
      <4>1. p[n] = Coded(k[n]) \o Coded(tags[k[n]])
        BY <1>1, <3>1
      <4>2. p[n] \in Stretch /\ Len(p[n]) = Len(Coded(k[n])) + Len(Coded(tags[k[n]]))
        BY <3>3, <4>1, ConcatAssociates
      <4>3. Len(Coded(tags[k[n]])) \in Nat /\ Len(Coded(k[n])) \in Nat
        BY <3>3 DEF Stretch
      <4>4. QED
        BY <3>3, <4>2, <4>3
    <3>5. Len(Upto(p, n)) > 0
      <4>1. Len(Upto(p, n)) = Len(Upto(p, n - 1)) + Len(p[n])
        BY <3>2, <3>4, ConcatAssociates
      <4> DEFINE a == Len(Upto(p, n - 1))
                 b == Len(p[n])
                 c == Len(Upto(p, n))
      <4>2. a \in Nat /\ b \in Nat
        BY <3>2, <3>4, LenProperties DEF Stretch
      <4>3. c = a + b /\ b > 0
        BY <3>4, <4>1
      <4> HIDE DEF a, b, c
      <4>4. c > 0
        BY <4>2, <4>3
      <4>5. QED
        BY <4>4 DEF c
    <3>6. QED
      BY <2>2, <3>5
  <2>3. QED
    BY <1>1, <2>1, <2>2
<1>9. QED
  BY <1>6, <1>7, <1>8 DEF n, p

(* Each number of pieces begins with any smaller number of them.           *)
LEMMA UptoStarts ==
  ASSUME NEW p \in Seq(Stretch), NEW n \in 0 .. Len(p), NEW i \in 0 .. n
  PROVE  Starts(Upto(p, i), Upto(p, n))
<1> DEFINE T == {m \in 0 .. n : i <= m => Starts(Upto(p, i), Upto(p, m))}
<1>1. n \in Nat /\ i \in Nat
  OBVIOUS
<1>2. ASSUME NEW m \in 0 .. n PROVE UptoAt(p, m) /\ Upto(p, m) \in Stretch
  <2>1. m \in 0 .. Len(p)
    OBVIOUS
  <2>2. UptoAt(p, m)
    BY <2>1, UptoStep
  <2>3. QED
    BY <2>2 DEF UptoAt
<1>3. Starts(Upto(p, i), Upto(p, i))
  BY DEF Starts
<1>4. 0 \in T
  <2>1. i <= 0 => i = 0
    BY <1>1
  <2>2. QED
    BY <1>1, <1>3, <2>1
<1>5. ASSUME NEW m \in 0 .. n - 1, m \in T PROVE m + 1 \in T
  <2>1. m + 1 \in 0 .. n /\ m + 1 \in 1 .. Len(p) /\ (m + 1) - 1 = m /\ m \in 0 .. n
    BY <1>1
  <2>2. CASE i <= m
    <3>1. Starts(Upto(p, i), Upto(p, m))
      BY <1>5, <2>2
    <3>2. Upto(p, m + 1) = Upto(p, m) \o p[m + 1] /\ p[m + 1] \in Stretch
      <4>1. UptoAt(p, m + 1) /\ m + 1 > 0
        BY <1>1, <1>2, <2>1
      <4>2. QED
        BY <2>1, <4>1 DEF UptoAt
    <3>3. Starts(Upto(p, m), Upto(p, m + 1))
      BY <1>2, <2>1, <3>2, StartsConcat
    <3>4. Upto(p, i) \in Stretch /\ Upto(p, m) \in Stretch /\ Upto(p, m + 1) \in Stretch
      BY <1>2, <2>1
    <3>5. Starts(Upto(p, i), Upto(p, m + 1))
      BY <3>1, <3>3, <3>4, StartsTrans
    <3>6. QED
      BY <2>1, <3>5
  <2>3. CASE i > m
    <3>1. i <= m + 1 => i = m + 1
      BY <1>1, <2>1, <2>3
    <3>2. QED
      BY <1>3, <2>1, <3>1
  <2>4. QED
    BY <1>1, <2>1, <2>2, <2>3
<1> HIDE DEF T
<1>6. 0 .. n \subseteq T
  BY <1>1, <1>4, <1>5, IntervalInduction
<1>7. n \in T /\ i <= n
  BY <1>1, <1>6
<1>8. QED
  BY <1>7 DEF T

\* what a turn of the loop makes of a key of length k and a value of length v
Took(r, s, t, k, v) ==
  /\ r = [ok |-> TRUE, tags |-> SetTag(t, k, v), rest |-> From(s, k + v + 3)]
  /\ k + v + 3 \in 1 .. Len(s) + 1

(* A key and a value that fit are taken from the data in front of which    *)
(* they are.                                                               *)
LEMMA TagTurn ==
  ASSUME NEW s \in Stretch, NEW t, NEW k \in Nat, NEW v \in Nat, k < Width, v < Width,
         Starts(Coded(k) \o Coded(v), s)
  PROVE  Took(NextTag([ok |-> TRUE, tags |-> t, rest |-> s]), s, t, k, v)
<1> DEFINE a == Coded(k)
           b == Coded(v)
           u == From(s, k + 2)
<1>1. /\ a \in Stretch /\ Len(a) = k + 1 /\ a[1] = k
      /\ b \in Stretch /\ Len(b) = v + 1 /\ b[1] = v
  <2>1. IsText(a, k) /\ IsText(b, v)
    BY CodedFacts
  <2>2. QED
    BY <2>1 DEF IsText
<1>2. Starts(a \o b, s)
  OBVIOUS
<1> HIDE DEF a, b
<1>3. Len(s) \in Nat /\ Len(a \o b) = k + v + 2 /\ (a \o b)[1] = k
  <2>1. Len(a \o b) = Len(a) + Len(b)
        /\ \A i \in 1 .. Len(a) + Len(b) : (a \o b)[i] = IF i <= Len(a) THEN a[i] ELSE b[i - Len(a)]
    BY <1>1, ConcatProperties DEF Stretch
  <2>2. Len(s) \in Nat
    BY DEF Stretch
  <2>3. QED
    BY <1>1, <2>1, <2>2
<1>4. Len(s) >= k + v + 2 /\ s[1] = k
  BY <1>2, <1>3 DEF Starts
<1>5. s # <<>> /\ Head(s) = k /\ Head(s) < Len(s)
  BY <1>3, <1>4 DEF Stretch
<1>6. k + 2 \in 1 .. Len(s) + 1 /\ Starts(b, u)
  <2>1. Len(a) + 1 \in 1 .. Len(s) + 1 /\ Starts(b, From(s, Len(a) + 1))
    BY <1>1, <1>2, StartsRest
  <2>2. Len(a) + 1 = k + 2
    BY <1>1
  <2>3. QED
    BY <2>1, <2>2
<1>7. u \in Stretch /\ Len(u) = Len(s) - k - 1
  <2>1. u \in Stretch /\ Len(u) = Len(s) + 1 - (k + 2)
    BY <1>6, FromFacts
  <2>2. QED
    BY <1>3, <2>1
<1> HIDE DEF u
<1>8. u # <<>> /\ Head(u) = v /\ Head(u) < Len(u)
  <2>1. u[1] = v /\ Len(u) >= v + 1
    BY <1>1, <1>6 DEF Starts
  <2>2. u \in Seq(Nat) /\ Len(u) \in Nat /\ Len(u) # 0
    BY <1>7, <2>1, LenProperties DEF Stretch
  <2>3. u # <<>>
    BY <2>2
  <2>4. Head(u) = u[1]
    BY <2>2, <2>3
  <2>5. v < Len(u)
    BY <2>1, <2>2
  <2>6. QED
    BY <2>1, <2>3, <2>4, <2>5
<1>9. From(u, v + 2) = From(s, k + v + 3)
  <2>1. v + 2 \in 1 .. Len(s) + 2 - (k + 2)
    BY <1>3, <1>4
  <2>2. From(From(s, k + 2), v + 2) = From(s, (k + 2) + (v + 2) - 1)
    BY <1>6, <2>1, FromFrom
  <2>3. (k + 2) + (v + 2) - 1 = k + v + 3
    OBVIOUS
  <2>4. QED
    BY <2>2, <2>3 DEF u
<1> DEFINE last == [ok |-> TRUE, tags |-> t, rest |-> s]
<1>10. last.ok /\ last.rest = s /\ last.tags = t
  OBVIOUS
<1> HIDE DEF last
<1>11. From(s, Head(s) + 2) = u
  BY <1>5 DEF u
<1>12. LengthFits(s) /\ LengthFits(u)
  BY <1>5, <1>8 DEF LengthFits
<1>13. NextTag(last) = [ok |-> TRUE, tags |-> SetTag(t, k, v), rest |-> From(u, v + 2)]
  BY <1>5, <1>8, <1>10, <1>11, <1>12, Zenon DEF NextTag
<1>14. k + v + 3 \in 1 .. Len(s) + 1
  BY <1>3, <1>4
<1>15. QED
  BY <1>9, <1>13, <1>14, Zenon DEF Took, last

\* the tags with the first i of the keys
FirstTags(tags, k, i) == [x \in {k[j] : j \in 1 .. i} |-> tags[x]]

(* The next key and its value join those before them.                      *)
LEMMA FirstTagsGrow ==
  ASSUME NEW tags, NEW k, NEW i \in Nat, i > 0
  PROVE  SetTag(FirstTags(tags, k, i - 1), k[i], tags[k[i]]) = FirstTags(tags, k, i)
<1> DEFINE D == {k[j] : j \in 1 .. i - 1}
           E == {k[j] : j \in 1 .. i}
<1>1. E = D \cup {k[i]}
  <2>1. \A j \in 1 .. i : j = i \/ j \in 1 .. i - 1
    OBVIOUS
  <2>2. i \in 1 .. i /\ \A j \in 1 .. i - 1 : j \in 1 .. i
    OBVIOUS
  <2>3. QED
    BY <2>1, <2>2
<1>2. FirstTags(tags, k, i - 1) = [x \in D |-> tags[x]] /\ FirstTags(tags, k, i) = [x \in E |-> tags[x]]
  BY DEF FirstTags
<1> HIDE DEF D, E
<1>3. SetTag([x \in D |-> tags[x]], k[i], tags[k[i]]) = [x \in E |-> tags[x]]
  BY <1>1 DEF SetTag
<1>4. QED
  BY <1>2, <1>3

\* all lengths of the tags can be written in 16 bits
TagsFit(tags, keys) == \A k \in keys : k < Width /\ tags[k] < Width

\* where decodeTags is after i turns over the data of the tags
TagsAfter(tags, keys, i) ==
  [ok |-> TRUE, tags |-> FirstTags(tags, Sorted(keys), i),
   rest |-> From(EncodeTags(tags), Len(Upto(TagPieces(tags, keys), i)) + 1)]

(* Each turn takes the next of the sorted keys.                            *)
LEMMA TagTaken ==
  ASSUME NEW tags, NEW keys, IsTags(tags, keys), TagsFit(tags, keys),
         NEW i \in 1 .. Cardinality(keys)
  PROVE  NextTag(TagsAfter(tags, keys, i - 1)) = TagsAfter(tags, keys, i)
<1> DEFINE n == Cardinality(keys)
           k == Sorted(keys)
           p == TagPieces(tags, keys)
           s == EncodeTags(tags)
           m == Len(Upto(p, i - 1))
<1>1. /\ n \in Nat /\ p \in Seq(Stretch) /\ Len(p) = n
      /\ k[i] \in keys /\ k[i] \in Nat /\ tags[k[i]] \in Nat /\ p[i] = Coded(k[i]) \o Coded(tags[k[i]])
  BY TagPiecesFacts
<1>2. s = Upto(p, n) /\ s \in Stretch
  BY TagsEncoded
<1> DEFINE a == k[i]
           v == tags[k[i]]
<1>3. a < Width /\ v < Width
  BY <1>1 DEF TagsFit
<1> HIDE DEF n, k, p, s
<1>4. i \in 1 .. n
  BY DEF n
<1>5. UptoAt(p, i) /\ Starts(Upto(p, i), s)
  <2>1. i \in 0 .. Len(p) /\ i \in 0 .. n /\ n \in 0 .. Len(p)
    BY <1>1, <1>4
  <2>2. QED
    BY <1>1, <1>2, <2>1, UptoStep, UptoStarts
<1>6. /\ Upto(p, i) = Upto(p, i - 1) \o p[i]
      /\ Upto(p, i - 1) \in Stretch /\ p[i] \in Stretch
  <2>1. i > 0
    BY <1>1, <1>4
  <2>2. QED
    BY <1>5, <2>1, Zenon DEF UptoAt
<1>7. m + 1 \in 1 .. Len(s) + 1 /\ Starts(p[i], From(s, m + 1))
  BY <1>2, <1>5, <1>6, StartsRest
<1> DEFINE r == From(s, m + 1)
<1>8. r \in Stretch /\ Len(r) = Len(s) + 1 - (m + 1)
  BY <1>2, <1>7, FromFacts
<1>9. Starts(Coded(a) \o Coded(v), r) /\ a \in Nat /\ v \in Nat
  BY <1>1, <1>7
<1>10. Len(Upto(p, i)) = m + a + v + 2
  <2>1. IsText(Coded(a), a) /\ IsText(Coded(v), v)
    BY <1>9, CodedFacts
  <2> HIDE DEF a, v
  <2>2. Len(p[i]) = (a + 1) + (v + 1)
    <3>1. p[i] = Coded(a) \o Coded(v)
      BY <1>1 DEF a, v
    <3>2. Coded(a) \in Stretch /\ Coded(v) \in Stretch /\ Len(Coded(a)) = a + 1 /\ Len(Coded(v)) = v + 1
      BY <2>1 DEF IsText
    <3>3. Len(p[i]) = Len(Coded(a)) + Len(Coded(v))
      BY <3>1, <3>2, ConcatAssociates
    <3>4. QED
      BY <3>2, <3>3
  <2>3. Len(Upto(p, i)) = m + Len(p[i]) /\ m \in Nat
    BY <1>6, ConcatAssociates, LenProperties DEF Stretch
  <2> HIDE DEF m
  <2>4. QED
    BY <1>9, <2>2, <2>3
<1> HIDE DEF a, v, r, m
<1>11. Took(NextTag([ok |-> TRUE, tags |-> FirstTags(tags, k, i - 1), rest |-> r]), r,
            FirstTags(tags, k, i - 1), a, v)
  BY <1>3, <1>8, <1>9, TagTurn
<1>12. From(r, a + v + 3) = From(s, Len(Upto(p, i)) + 1)
  <2>1. m \in Nat /\ Len(s) \in Nat
    BY <1>2, <1>6, LenProperties DEF Stretch, m
  <2>2. a + v + 3 \in 1 .. Len(s) + 2 - (m + 1)
    BY <1>8, <1>9, <1>11, <2>1 DEF Took
  <2>3. From(From(s, m + 1), a + v + 3) = From(s, (m + 1) + (a + v + 3) - 1)
    BY <1>2, <1>7, <2>2, FromFrom
  <2>4. (m + 1) + (a + v + 3) - 1 = Len(Upto(p, i)) + 1
    BY <1>9, <1>10, <2>1
  <2>5. QED
    BY <2>3, <2>4 DEF r
<1>13. SetTag(FirstTags(tags, k, i - 1), a, v) = FirstTags(tags, k, i)
  BY <1>4, FirstTagsGrow DEF a, v
<1>14. TagsAfter(tags, keys, i - 1) = [ok |-> TRUE, tags |-> FirstTags(tags, k, i - 1), rest |-> r]
  BY DEF TagsAfter, r, m, s, p, k
<1>15. TagsAfter(tags, keys, i) =
         [ok |-> TRUE, tags |-> FirstTags(tags, k, i), rest |-> From(s, Len(Upto(p, i)) + 1)]
  BY DEF TagsAfter, s, p, k
<1>16. QED
  BY <1>11, <1>12, <1>13, <1>14, <1>15, Zenon DEF Took

(* decodeTags gets back what encodeTags has written.                       *)
LEMMA TagsComeBack ==
  ASSUME NEW tags, NEW keys, IsTags(tags, keys), TagsFit(tags, keys)
  PROVE  /\ DecodeTags(EncodeTags(tags), Cardinality(keys)).ok
         /\ DecodeTags(EncodeTags(tags), Cardinality(keys)).tags = tags
<1> DEFINE n == Cardinality(keys)
           base == [ok |-> TRUE, tags |-> NoTags, rest |-> EncodeTags(tags)]
           F(f) == f = [i \in 0 .. n |-> IF i = 0 THEN base ELSE NextTag(f[i - 1])]
           g == [i \in 0 .. n |-> TagsAfter(tags, keys, i)]
<1>1. n \in Nat /\ TagPieces(tags, keys) \in Seq(Stretch)
  BY TagPiecesFacts
<1>2. TagsAfter(tags, keys, 0) = base
  <2>1. FirstTags(tags, Sorted(keys), 0) = NoTags
    BY DEF FirstTags, NoTags
  <2>2. Upto(TagPieces(tags, keys), 0) = <<>>
    BY <1>1, UptoJoins
  <2>3. From(EncodeTags(tags), 1) = EncodeTags(tags)
    <3>1. EncodeTags(tags) \in Seq(Nat)
      BY TagsEncoded DEF Stretch
    <3>2. QED
      BY <3>1, SubSeqFull DEF From
  <2>4. Len(Upto(TagPieces(tags, keys), 0)) + 1 = 1
    BY <2>2
  <2>5. QED
    BY <2>1, <2>3, <2>4, Zenon DEF TagsAfter
<1>3. F(g)
  <2>1. ASSUME NEW i \in 0 .. n PROVE g[i] = IF i = 0 THEN base ELSE NextTag(g[i - 1])
    <3>1. CASE i = 0
      BY <1>2, <3>1
    <3>2. CASE i # 0
      <4>1. i \in 1 .. n /\ i - 1 \in 0 .. n
        BY <1>1, <3>2
      <4>2. NextTag(TagsAfter(tags, keys, i - 1)) = TagsAfter(tags, keys, i)
        BY <4>1, TagTaken
      <4>3. g[i] = TagsAfter(tags, keys, i) /\ g[i - 1] = TagsAfter(tags, keys, i - 1)
        BY <4>1
      <4> HIDE DEF g, base
      <4>4. QED
        BY <3>2, <4>2, <4>3, Zenon
    <3>3. QED
      BY <3>1, <3>2
  <2>2. g = [i \in 0 .. n |-> g[i]]
    OBVIOUS
  <2> HIDE DEF g, base
  <2>3. QED
    BY <2>1, <2>2
<1> DEFINE f == CHOOSE z : F(z)
<1>4. F(f)
  <2> HIDE DEF g, F
  <2>1. QED
    BY <1>3
<1>5. DecodeTags(EncodeTags(tags), n) = f[n]
  BY DEF DecodeTags
<1> HIDE DEF f, base
<1>6. ASSUME NEW i \in 0 .. n PROVE f[i] = IF i = 0 THEN base ELSE NextTag(f[i - 1])
  BY <1>4, Zenon
<1> DEFINE T == {i \in 0 .. n : f[i] = TagsAfter(tags, keys, i)}
<1>7. 0 .. n \subseteq T
  <2> HIDE DEF n
  <2>1. 0 \in T
    BY <1>1, <1>2, <1>6
  <2>2. ASSUME NEW i \in 0 .. n - 1, i \in T PROVE i + 1 \in T
    <3>1. i + 1 \in 0 .. n /\ i + 1 # 0 /\ (i + 1) - 1 = i /\ i + 1 \in 1 .. n
      BY <1>1
    <3>2. f[i + 1] = NextTag(f[i])
      BY <1>6, <3>1, Zenon
    <3>3. NextTag(TagsAfter(tags, keys, (i + 1) - 1)) = TagsAfter(tags, keys, i + 1)
      BY <3>1, TagTaken DEF n
    <3>4. f[i + 1] = TagsAfter(tags, keys, i + 1)
      BY <2>2, <3>1, <3>2, <3>3, Zenon
    <3>5. QED
      BY <3>1, <3>4
  <2> HIDE DEF T
  <2>3. QED
    BY <1>1, <2>1, <2>2, IntervalInduction
<1>8. f[n] = TagsAfter(tags, keys, n)
  BY <1>1, <1>7
<1>9. FirstTags(tags, Sorted(keys), n) = tags
  <2> DEFINE k == Sorted(keys)
  <2>1. tags \in [keys -> Nat] /\ InOrder(k, keys)
    BY SortedInOrder DEF IsTags
  <2> HIDE DEF k, n
  <2>2. k \in [1 .. n -> keys] /\ \A x \in keys : \E i \in 1 .. n : k[i] = x
    BY <2>1 DEF InOrder, n
  <2>3. {k[j] : j \in 1 .. n} = keys
    BY <2>2
  <2>4. FirstTags(tags, k, n) = [x \in keys |-> tags[x]]
    BY <2>3 DEF FirstTags
  <2>5. QED
    BY <2>1, <2>4 DEF k
<1>10. QED
  BY <1>5, <1>8, <1>9 DEF TagsAfter, n
-----------------------------------------------------------------------------
(* A record.                                                               *)

Code(rec) == FlattenSeq(Pieces(rec))

(* What a record is, for the reader's purposes.                            *)
LEMMA RecordFacts ==
  ASSUME NEW rec \in Records
  PROVE  /\ rec.time \in Nat /\ rec.type \in Nat /\ rec.detail \in Nat
         /\ IsTags(rec.tags, DOMAIN rec.tags)
         /\ rec = [time |-> rec.time, type |-> rec.type, detail |-> rec.detail, tags |-> rec.tags]
<1>1. /\ rec \in [time : Nat, type : Nat, detail : Nat, tags : [DOMAIN rec.tags -> Nat]]
      /\ DOMAIN rec.tags \subseteq Nat /\ IsFiniteSet(DOMAIN rec.tags)
  BY RecordsAssumption
<1>2. QED
  BY <1>1 DEF IsTags

\* the five fields of fixed size
Fields(rec) ==
  << <<rec.time, rec.time>>, <<rec.type>>, <<Cardinality(DOMAIN rec.tags) % Width>>,
     <<Len(EncodeTags(rec.tags))>>, <<rec.detail>> >>

(* EncodeRecord (tlv.go:68-107) writes five fields, then the tags and the  *)
(* detail when there are any: no piece of a record is empty.               *)
LEMMA PiecesFacts ==
  ASSUME NEW rec \in Records
  PROVE  /\ Pieces(rec) = Fields(rec) \o IfAny(EncodeTags(rec.tags)) \o IfAny(Cells(rec.detail))
         /\ EncodeTags(rec.tags) \in Stretch /\ Cells(rec.detail) \in Stretch
         /\ Fields(rec) \in Seq(Stretch) /\ Len(Fields(rec)) = 5
         /\ Pieces(rec) \in Seq(Stretch) /\ Len(Pieces(rec)) \in 5 .. 7
         /\ \A i \in 1 .. Len(Pieces(rec)) : Pieces(rec)[i] # <<>>
         /\ \A i \in 1 .. 5 : Pieces(rec)[i] = Fields(rec)[i]
<1> DEFINE tags == EncodeTags(rec.tags)
           detail == Cells(rec.detail)
           count == Cardinality(DOMAIN rec.tags)
<1>1. rec.time \in Nat /\ rec.type \in Nat /\ rec.detail \in Nat /\ IsTags(rec.tags, DOMAIN rec.tags)
  BY RecordFacts
<1>2. tags \in Stretch /\ detail \in Stretch /\ count \in Nat
  BY <1>1, TagsEncoded, CellsFacts, TagPiecesFacts
<1>3. Len(tags) \in Nat /\ count % Width \in Nat
  BY <1>2, WidthPositive DEF Stretch
<1>4. Pieces(rec) = Fields(rec) \o IfAny(tags) \o IfAny(detail)
  BY DEF Pieces, Fields
<1> DEFINE fields == Fields(rec)
<1>5. fields \in Seq(Stretch) /\ Len(fields) = 5 /\ \A i \in 1 .. 5 : fields[i] # <<>>
  <2>1. fields = << <<rec.time, rec.time>>, <<rec.type>>, <<count % Width>>, <<Len(tags)>>, <<rec.detail>> >>
    BY DEF Fields
  <2> HIDE DEF fields, tags, count
  <2>2. /\ <<rec.time, rec.time>> \in Stretch /\ <<rec.type>> \in Stretch /\ <<count % Width>> \in Stretch
        /\ <<Len(tags)>> \in Stretch /\ <<rec.detail>> \in Stretch
    BY <1>1, <1>3 DEF Stretch
  <2>3. QED
    BY <2>1, <2>2
<1> HIDE DEF tags, detail, fields
<1>6. /\ IfAny(tags) \in Seq(Stretch) /\ Len(IfAny(tags)) \in 0 .. 1
      /\ \A i \in 1 .. Len(IfAny(tags)) : IfAny(tags)[i] # <<>>
  BY <1>2 DEF IfAny
<1>7. /\ IfAny(detail) \in Seq(Stretch) /\ Len(IfAny(detail)) \in 0 .. 1
      /\ \A i \in 1 .. Len(IfAny(detail)) : IfAny(detail)[i] # <<>>
  BY <1>2 DEF IfAny
<1> DEFINE a == IfAny(tags)
           b == IfAny(detail)
           c == fields \o a
<1>8. /\ c \in Seq(Stretch) /\ Len(c) = 5 + Len(a) /\ Len(c) \in 5 .. 6
      /\ \A i \in 1 .. Len(c) : c[i] # <<>>
      /\ \A i \in 1 .. 5 : c[i] = fields[i]
  <2> HIDE DEF a
  <2>1. c \in Seq(Stretch) /\ Len(c) = Len(fields) + Len(a)
        /\ \A i \in 1 .. Len(fields) + Len(a) : c[i] = IF i <= Len(fields) THEN fields[i] ELSE a[i - Len(fields)]
    BY <1>5, <1>6, ConcatProperties DEF a
  <2> HIDE DEF c
  <2>2. QED
    BY <1>5, <1>6, <2>1 DEF a
<1> DEFINE d == c \o b
<1>9. /\ d \in Seq(Stretch) /\ Len(d) \in 5 .. 7
      /\ \A i \in 1 .. Len(d) : d[i] # <<>>
      /\ \A i \in 1 .. 5 : d[i] = fields[i]
  <2> HIDE DEF b, c
  <2>1. d \in Seq(Stretch) /\ Len(d) = Len(c) + Len(b)
        /\ \A i \in 1 .. Len(c) + Len(b) : d[i] = IF i <= Len(c) THEN c[i] ELSE b[i - Len(c)]
    BY <1>7, <1>8, ConcatProperties DEF b
  <2> HIDE DEF d
  <2>2. Len(d) \in 5 .. 7
    <3> DEFINE k == Len(b)
               m == Len(c)
    <3>1. k \in 0 .. 1 /\ m \in 5 .. 6 /\ Len(d) = m + k
      BY <1>7, <1>8, <2>1 DEF b
    <3> HIDE DEF k, m
    <3>2. QED
      BY <3>1
  <2>3. ASSUME NEW i \in 1 .. Len(d) PROVE d[i] # <<>>
    <3>1. CASE i <= Len(c)
      <4>1. d[i] = c[i] /\ i \in 1 .. Len(c)
        BY <1>8, <2>1, <3>1
      <4>2. QED
        BY <1>8, <4>1
    <3>2. CASE i > Len(c)
      <4>1. d[i] = b[i - Len(c)] /\ i - Len(c) \in 1 .. Len(b)
        BY <1>7, <1>8, <2>1, <3>2 DEF b
      <4>2. QED
        BY <1>7, <4>1 DEF b
    <3>3. QED
      BY <1>8, <3>1, <3>2
  <2>4. ASSUME NEW i \in 1 .. 5 PROVE d[i] = fields[i]
    <3>1. i \in 1 .. Len(c) + Len(b) /\ i <= Len(c)
      BY <1>7, <1>8 DEF b
    <3>2. d[i] = c[i]
      BY <2>1, <3>1
    <3>3. QED
      BY <1>8, <3>2
  <2>5. QED
    BY <2>1, <2>2, <2>3, <2>4
<1>10. Pieces(rec) = d
  BY <1>4 DEF fields
<1>11. QED
  BY <1>2, <1>4, <1>5, <1>9, <1>10 DEF tags, detail, fields

\* the cells of a record: its fields, its tags, its detail
IsCode(s, rec) ==
  LET tags == EncodeTags(rec.tags) IN
  /\ s \in Stretch
  /\ Len(s) = 6 + Len(tags) + rec.detail
  /\ s[1] = rec.time /\ s[3] = rec.type /\ s[4] = Cardinality(DOMAIN rec.tags) % Width
  /\ s[5] = Len(tags) /\ s[6] = rec.detail
  /\ \A i \in 1 .. Len(tags) : s[6 + i] = tags[i]

(* A piece that is written only when it is not empty adds its cells.       *)
LEMMA OneMore ==
  ASSUME NEW c \in Seq(Stretch), NEW x \in Stretch
  PROVE  /\ FlattenSeq(c \o IfAny(x)) = FlattenSeq(c) \o x
         /\ FlattenSeq(Append(c, x)) = FlattenSeq(c) \o x
         /\ FlattenSeq(c) \in Stretch
<1> DEFINE n == Len(c)
           e == Append(c, x)
<1>1. n \in Nat /\ SubSeq(c, 1, n) = c
  BY SubSeqFull
<1>2. e \in Seq(Stretch) /\ Len(e) = n + 1 /\ e[n + 1] = x /\ \A i \in 1 .. n : e[i] = c[i]
  OBVIOUS
<1> HIDE DEF n, e
<1>3. SubSeq(e, 1, n) = c /\ SubSeq(e, 1, n + 1) = e
  <2>1. SubSeq(e, 1, n + 1) = e
    BY <1>1, <1>2, SubSeqFull
  <2> DEFINE u == SubSeq(e, 1, n)
  <2>2. u \in Seq(Stretch) /\ Len(u) = n /\ \A i \in 1 .. n : u[i] = e[i]
    BY <1>1, <1>2
  <2> HIDE DEF u
  <2>3. u = c
    BY <1>1, <1>2, <2>2, SeqEqual DEF n
  <2>4. QED
    BY <2>1, <2>3 DEF u
<1>4. FlattenSeq(e) = FlattenSeq(c) \o x
  <2>1. n + 1 \in 0 .. Len(e) /\ n + 1 > 0 /\ (n + 1) - 1 = n
    BY <1>1, <1>2
  <2>2. UptoAt(e, n + 1)
    BY <1>2, <2>1, UptoStep
  <2>3. Upto(e, n + 1) = Upto(e, n) \o e[n + 1]
    BY <2>1, <2>2 DEF UptoAt
  <2>4. QED
    BY <1>2, <1>3, <2>3, Zenon DEF Upto
<1>5. FlattenSeq(c) \in Stretch
  <2>1. n \in 0 .. Len(c)
    BY <1>1 DEF n
  <2>2. UptoAt(c, n)
    BY <2>1, UptoStep
  <2>3. QED
    BY <1>1, <2>2 DEF UptoAt, Upto
<1>6. FlattenSeq(c \o IfAny(x)) = FlattenSeq(c) \o x
  <2>1. CASE x = <<>>
    <3>1. c \o IfAny(x) = c
      BY <2>1 DEF IfAny
    <3>2. FlattenSeq(c) \o x = FlattenSeq(c)
      BY <1>5, <2>1 DEF Stretch
    <3>3. QED
      BY <3>1, <3>2
  <2>2. CASE x # <<>>
    <3>1. c \o IfAny(x) = e
      <4>1. IfAny(x) = <<x>>
        BY <2>2 DEF IfAny
      <4>2. c \o <<x>> = Append(c, x)
        OBVIOUS
      <4>3. QED
        BY <4>1, <4>2 DEF e
    <3>2. QED
      BY <1>4, <3>1
  <2>3. QED
    BY <2>1, <2>2
<1>7. QED
  BY <1>4, <1>5, <1>6 DEF e

\* t is s and one cell more
OneCell(t, s, x) ==
  t \in Stretch /\ Len(t) = Len(s) + 1 /\ t[Len(s) + 1] = x /\ \A i \in 1 .. Len(s) : t[i] = s[i]

(* A field of one cell follows those before it.                            *)
LEMMA CellAdded ==
  ASSUME NEW s \in Stretch, NEW x \in Nat
  PROVE  OneCell(s \o <<x>>, s, x)
<1>1. <<x>> \in Seq(Nat) /\ Len(<<x>>) = 1 /\ <<x>>[1] = x
  OBVIOUS
<1> DEFINE y == <<x>>
<1> HIDE DEF y
<1>2. /\ s \o y \in Seq(Nat) /\ Len(s \o y) = Len(s) + Len(y)
      /\ \A i \in 1 .. Len(s) + Len(y) : (s \o y)[i] = IF i <= Len(s) THEN s[i] ELSE y[i - Len(s)]
  BY <1>1, ConcatProperties DEF Stretch, y
<1>3. Len(s) \in Nat /\ Len(y) = 1 /\ y[1] = x
  BY <1>1 DEF Stretch, y
<1>4. (s \o y)[Len(s) + 1] = x
  <2>1. Len(s) + 1 \in 1 .. Len(s) + Len(y) /\ ~(Len(s) + 1 <= Len(s)) /\ (Len(s) + 1) - Len(s) = 1
    BY <1>3
  <2>2. QED
    BY <1>2, <1>3, <2>1
<1>5. ASSUME NEW i \in 1 .. Len(s) PROVE (s \o y)[i] = s[i]
  BY <1>2, <1>3
<1>6. QED
  BY <1>2, <1>3, <1>4, <1>5 DEF OneCell, Stretch, y

\* the cells of the fields
AreFields(s, rec) ==
  /\ s \in Stretch /\ Len(s) = 6
  /\ s[1] = rec.time /\ s[3] = rec.type /\ s[4] = Cardinality(DOMAIN rec.tags) % Width
  /\ s[5] = Len(EncodeTags(rec.tags)) /\ s[6] = rec.detail

(* The five fields take six cells, the timestamp two of them.              *)
LEMMA FieldsFlat ==
  ASSUME NEW rec \in Records
  PROVE  AreFields(FlattenSeq(Fields(rec)), rec)
<1> DEFINE p == Fields(rec)
           a == rec.time
           b == rec.type
           c == Cardinality(DOMAIN rec.tags) % Width
           d == Len(EncodeTags(rec.tags))
           e == rec.detail
<1>1. p \in Seq(Stretch) /\ Len(p) = 5
  BY PiecesFacts
<1>2. p = << <<a, a>>, <<b>>, <<c>>, <<d>>, <<e>> >>
  BY DEF Fields
<1>3. a \in Nat /\ b \in Nat /\ c \in Nat /\ d \in Nat /\ e \in Nat
  <2>1. a \in Nat /\ b \in Nat /\ e \in Nat /\ IsTags(rec.tags, DOMAIN rec.tags)
    BY RecordFacts
  <2>2. Cardinality(DOMAIN rec.tags) \in Nat /\ EncodeTags(rec.tags) \in Stretch
    BY <2>1, TagPiecesFacts, TagsEncoded
  <2>3. c \in Nat /\ d \in Nat
    BY <2>2, WidthPositive DEF Stretch
  <2>4. QED
    BY <2>1, <2>3
<1> HIDE DEF p, a, b, c, d, e
<1>4. p[1] = <<a, a>> /\ p[2] = <<b>> /\ p[3] = <<c>> /\ p[4] = <<d>> /\ p[5] = <<e>>
  BY <1>2
<1>5. /\ Upto(p, 0) = <<>>
      /\ Upto(p, 1) = Upto(p, 0) \o p[1] /\ Upto(p, 2) = Upto(p, 1) \o p[2]
      /\ Upto(p, 3) = Upto(p, 2) \o p[3] /\ Upto(p, 4) = Upto(p, 3) \o p[4]
      /\ Upto(p, 5) = Upto(p, 4) \o p[5]
  <2>1. Upto(p, 1) = Upto(p, 0) \o p[1]
    <3>1. 1 \in 0 .. Len(p) /\ 1 > 0 /\ 1 - 1 = 0
      BY <1>1
    <3>2. UptoAt(p, 1)
      BY <1>1, <3>1, UptoStep
    <3>3. QED
      BY <3>1, <3>2, Zenon DEF UptoAt
  <2>2. Upto(p, 2) = Upto(p, 1) \o p[2]
    <3>1. 2 \in 0 .. Len(p) /\ 2 > 0 /\ 2 - 1 = 1
      BY <1>1
    <3>2. UptoAt(p, 2)
      BY <1>1, <3>1, UptoStep
    <3>3. QED
      BY <3>1, <3>2, Zenon DEF UptoAt
  <2>3. Upto(p, 3) = Upto(p, 2) \o p[3]
    <3>1. 3 \in 0 .. Len(p) /\ 3 > 0 /\ 3 - 1 = 2
      BY <1>1
    <3>2. UptoAt(p, 3)
      BY <1>1, <3>1, UptoStep
    <3>3. QED
      BY <3>1, <3>2, Zenon DEF UptoAt
  <2>4. Upto(p, 4) = Upto(p, 3) \o p[4]
    <3>1. 4 \in 0 .. Len(p) /\ 4 > 0 /\ 4 - 1 = 3
      BY <1>1
    <3>2. UptoAt(p, 4)
      BY <1>1, <3>1, UptoStep
    <3>3. QED
      BY <3>1, <3>2, Zenon DEF UptoAt
  <2>5. Upto(p, 5) = Upto(p, 4) \o p[5]
    <3>1. 5 \in 0 .. Len(p) /\ 5 > 0 /\ 5 - 1 = 4
      BY <1>1
    <3>2. UptoAt(p, 5)
      BY <1>1, <3>1, UptoStep
    <3>3. QED
      BY <3>1, <3>2, Zenon DEF UptoAt
  <2>6. Upto(p, 0) = <<>>
    BY <1>1, UptoJoins
  <2>7. QED
    BY <2>1, <2>2, <2>3, <2>4, <2>5, <2>6
<1> DEFINE u == Upto(p, 1)
           v == Upto(p, 2)
           w == Upto(p, 3)
           x == Upto(p, 4)
           y == Upto(p, 5)
<1>6. v = u \o <<b>> /\ w = v \o <<c>> /\ x = w \o <<d>> /\ y = x \o <<e>>
  BY <1>4, <1>5
<1>7. u = <<a, a>>
  <2>1. <<a, a>> \in Seq(Nat)
    BY <1>3
  <2>2. <<>> \o <<a, a>> = <<a, a>>
    BY <2>1, ConcatEmptySeq
  <2>3. QED
    BY <1>4, <1>5, <2>2
<1>8. SubSeq(p, 1, 5) = p
  BY <1>1, SubSeqFull
<1>9. FlattenSeq(p) = y
  BY <1>8 DEF Upto
<1> HIDE DEF u, v, w, x, y
<1>10. u \in Stretch /\ Len(u) = 2 /\ u[1] = a
  BY <1>3, <1>7 DEF Stretch
<1>11. v \in Stretch /\ Len(v) = 3 /\ v[1] = a /\ v[3] = b
  <2>1. OneCell(v, u, b)
    BY <1>3, <1>6, <1>10, CellAdded
  <2>2. QED
    BY <1>10, <2>1 DEF OneCell
<1>12. w \in Stretch /\ Len(w) = 4 /\ w[1] = a /\ w[3] = b /\ w[4] = c
  <2>1. OneCell(w, v, c)
    BY <1>3, <1>6, <1>11, CellAdded
  <2>2. QED
    BY <1>11, <2>1 DEF OneCell
<1>13. x \in Stretch /\ Len(x) = 5 /\ x[1] = a /\ x[3] = b /\ x[4] = c /\ x[5] = d
  <2>1. OneCell(x, w, d)
    BY <1>3, <1>6, <1>12, CellAdded
  <2>2. QED
    BY <1>12, <2>1 DEF OneCell
<1>14. y \in Stretch /\ Len(y) = 6 /\ y[1] = a /\ y[3] = b /\ y[4] = c /\ y[5] = d /\ y[6] = e
  <2>1. OneCell(y, x, e)
    BY <1>3, <1>6, <1>13, CellAdded
  <2>2. QED
    BY <1>13, <2>1 DEF OneCell
<1>15. QED
  BY <1>9, <1>14 DEF AreFields, p, a, b, c, d, e

(* The cells of a record are where the reader looks for them.              *)
LEMMA CodeFacts ==
  ASSUME NEW rec \in Records
  PROVE  IsCode(Code(rec), rec)
<1> DEFINE tags == EncodeTags(rec.tags)
           detail == Cells(rec.detail)
           fields == Fields(rec)
           six == FlattenSeq(fields)
           c == Cardinality(DOMAIN rec.tags) % Width
<1>1. /\ Pieces(rec) = fields \o IfAny(tags) \o IfAny(detail)
      /\ tags \in Stretch /\ detail \in Stretch /\ fields \in Seq(Stretch)
  BY PiecesFacts
<1>2. Len(detail) = rec.detail /\ rec.detail \in Nat
  BY RecordFacts, CellsFacts
<1>3. AreFields(six, rec)
  BY FieldsFlat
<1> HIDE DEF tags, detail, fields, c
<1>4. six \in Stretch
  BY <1>1, OneMore
<1>5. Code(rec) = (six \o tags) \o detail
  <2> DEFINE d == fields \o IfAny(tags)
  <2>1. d \in Seq(Stretch)
    BY <1>1 DEF IfAny
  <2>2. FlattenSeq(d) = six \o tags
    BY <1>1, OneMore
  <2> HIDE DEF d, six
  <2>3. FlattenSeq(d \o IfAny(detail)) = FlattenSeq(d) \o detail
    BY <1>1, <2>1, OneMore
  <2>4. QED
    BY <1>1, <2>2, <2>3 DEF Code, d
<1> HIDE DEF six
<1>6. /\ Len(six) = 6 /\ six[1] = rec.time /\ six[3] = rec.type /\ six[4] = c
      /\ six[5] = Len(tags) /\ six[6] = rec.detail
  BY <1>3 DEF AreFields, c, tags
<1> DEFINE s == six \o tags
<1>7. /\ s \in Stretch /\ Len(s) = 6 + Len(tags)
      /\ \A i \in 1 .. 6 : s[i] = six[i]
      /\ \A i \in 1 .. Len(tags) : s[6 + i] = tags[i]
  <2>1. /\ s \in Seq(Nat) /\ Len(s) = Len(six) + Len(tags)
        /\ \A i \in 1 .. Len(six) + Len(tags) : s[i] = IF i <= Len(six) THEN six[i] ELSE tags[i - Len(six)]
    BY <1>1, <1>4, ConcatProperties DEF Stretch
  <2>2. Len(tags) \in Nat
    BY <1>1 DEF Stretch
  <2> HIDE DEF s
  <2>3. ASSUME NEW i \in 1 .. 6 PROVE s[i] = six[i]
    <3>1. i \in 1 .. Len(six) + Len(tags) /\ i <= Len(six)
      BY <1>6, <2>2
    <3>2. QED
      BY <2>1, <3>1
  <2>4. ASSUME NEW i \in 1 .. Len(tags) PROVE s[6 + i] = tags[i]
    <3>1. 6 + i \in 1 .. Len(six) + Len(tags) /\ ~(6 + i <= Len(six)) /\ (6 + i) - Len(six) = i
      BY <1>6, <2>2
    <3>2. QED
      BY <2>1, <3>1
  <2>5. QED
    BY <1>6, <2>1, <2>3, <2>4 DEF Stretch
<1> HIDE DEF s
<1> DEFINE t == s \o detail
<1>8. /\ t \in Stretch /\ Len(t) = Len(s) + rec.detail
      /\ \A i \in 1 .. Len(s) : t[i] = s[i]
  <2>1. s \in Seq(Nat) /\ detail \in Seq(Nat) /\ Len(s) \in Nat /\ Len(detail) \in Nat
    BY <1>1, <1>7, LenProperties DEF Stretch
  <2>2. /\ t \in Seq(Nat) /\ Len(t) = Len(s) + Len(detail)
        /\ \A i \in 1 .. Len(s) + Len(detail) : t[i] = IF i <= Len(s) THEN s[i] ELSE detail[i - Len(s)]
    BY <2>1, ConcatProperties
  <2> HIDE DEF t
  <2>3. ASSUME NEW i \in 1 .. Len(s) PROVE t[i] = s[i]
    <3>1. i \in 1 .. Len(s) + Len(detail) /\ i <= Len(s)
      BY <2>1
    <3>2. QED
      BY <2>2, <3>1
  <2>4. QED
    BY <1>2, <2>2, <2>3 DEF Stretch
<1> HIDE DEF t
<1>9. Len(tags) \in Nat
  BY <1>1 DEF Stretch
<1>10. \A i \in 1 .. 6 : t[i] = six[i]
  BY <1>7, <1>8, <1>9
<1>11. ASSUME NEW i \in 1 .. Len(tags) PROVE t[6 + i] = tags[i]
  BY <1>7, <1>8, <1>9
<1>12. Code(rec) = t
  BY <1>5 DEF t, s
<1>13. QED
  BY <1>6, <1>7, <1>8, <1>10, <1>11, <1>12 DEF IsCode, tags, c

\* the reader has read the record, and left what follows it
Returned(d, s, rec) ==
  /\ d.status = "ok" /\ d.rec = rec /\ d.rest = From(s, Len(Code(rec)) + 1)
  /\ Len(Code(rec)) + 1 \in 7 .. Len(s) + 1

(* DecodeRecord gets back a record whose lengths fit from the data that    *)
(* begins with it.                                                         *)
LEMMA RecordComesBack ==
  ASSUME NEW rec \in Records, FitsWidth(rec), NEW s \in Stretch, Starts(Code(rec), s)
  PROVE  Returned(DecodeRecord(s), s, rec)
<1> DEFINE tags == EncodeTags(rec.tags)
           keys == DOMAIN rec.tags
           count == Cardinality(keys)
           c == Code(rec)
           back == DecodeTags(SubSeq(s, 7, 6 + s[5]), s[4])
<1>1. rec.detail \in Nat /\ IsTags(rec.tags, keys)
      /\ rec = [time |-> rec.time, type |-> rec.type, detail |-> rec.detail, tags |-> rec.tags]
  BY RecordFacts
<1>2. tags \in Stretch /\ (tags = <<>> <=> count = 0) /\ count \in Nat
  BY <1>1, TagsEncoded, TagPiecesFacts
<1>3. count < Width /\ TagsFit(rec.tags, keys)
  BY DEF FitsWidth, TagsFit
<1>4. IsCode(c, rec)
  BY CodeFacts
<1>5. DecodeTags(tags, count).ok /\ DecodeTags(tags, count).tags = rec.tags
  BY <1>1, <1>3, TagsComeBack
<1>6. Starts(c, s)
  OBVIOUS
<1> HIDE DEF tags, keys, count, c
<1>7. /\ Len(c) = 6 + Len(tags) + rec.detail /\ Len(tags) \in Nat
      /\ c[1] = rec.time /\ c[3] = rec.type /\ c[4] = count % Width
      /\ c[5] = Len(tags) /\ c[6] = rec.detail
      /\ \A i \in 1 .. Len(tags) : c[6 + i] = tags[i]
  BY <1>2, <1>4, LenProperties DEF IsCode, Stretch, tags, count, keys
<1>8. Len(s) \in Nat /\ Len(s) >= 6 + Len(tags) + rec.detail
  BY <1>6, <1>7 DEF Starts, Stretch
<1>9. \A i \in 1 .. 6 + Len(tags) : s[i] = c[i]
  BY <1>1, <1>6, <1>7 DEF Starts
<1>10. s[1] = rec.time /\ s[3] = rec.type /\ s[5] = Len(tags) /\ s[6] = rec.detail
  BY <1>7, <1>9
<1>11. s[4] = count
  <2>1. s[4] = count % Width
    BY <1>7, <1>9
  <2>2. QED
    BY <1>2, <1>3, <2>1, WidthPositive
<1>12. SubSeq(s, 7, 6 + s[5]) = tags
  <2> DEFINE u == SubSeq(s, 7, 6 + Len(tags))
  <2>1. u \in Seq(Nat) /\ Len(u) = Len(tags) /\ \A i \in 1 .. Len(tags) : u[i] = s[6 + i]
    <3>1. 7 \in Int /\ 6 + Len(tags) \in Int
      BY <1>7
    <3>2. ASSUME NEW i \in 7 .. 6 + Len(tags) PROVE s[i] \in Nat
      <4>1. i \in 1 .. Len(s)
        BY <1>1, <1>7, <1>8
      <4>2. QED
        BY <4>1, ElementOfSeq DEF Stretch
    <3>3. /\ u \in Seq(Nat) /\ Len(u) = IF 7 <= 6 + Len(tags) THEN (6 + Len(tags)) - 7 + 1 ELSE 0
          /\ \A i \in 1 .. (6 + Len(tags)) - 7 + 1 : u[i] = s[7 + i - 1]
      BY <3>1, <3>2, SubSeqProperties
    <3> HIDE DEF u
    <3>4. Len(u) = Len(tags)
      BY <1>7, <3>3
    <3>5. ASSUME NEW i \in 1 .. Len(tags) PROVE u[i] = s[6 + i]
      <4>1. i \in 1 .. (6 + Len(tags)) - 7 + 1 /\ 7 + i - 1 = 6 + i
        BY <1>7
      <4>2. u[i] = s[7 + i - 1]
        BY <3>3, <4>1
      <4>3. QED
        BY <4>1, <4>2
    <3>6. QED
      BY <3>3, <3>4, <3>5
  <2> HIDE DEF u
  <2>2. ASSUME NEW i \in 1 .. Len(u) PROVE u[i] = tags[i]
    <3>1. i \in 1 .. Len(tags) /\ 6 + i \in 1 .. 6 + Len(tags)
      BY <1>7, <2>1
    <3>2. QED
      BY <1>7, <1>9, <2>1, <3>1
  <2>3. u = tags
    BY <1>2, <2>1, <2>2, SeqEqual DEF Stretch
  <2>4. QED
    BY <1>10, <2>3 DEF u
<1>13. back.ok /\ back.tags = rec.tags
  BY <1>5, <1>11, <1>12
<1> HIDE DEF back
<1>14. s # <<>> /\ ~(Len(s) < 6 \/ Len(s) < 6 + s[5])
  <2>1. Len(s) > 0
    BY <1>7, <1>8, <1>1
  <2>2. s # <<>>
    BY <2>1
  <2>3. QED
    BY <1>1, <1>7, <1>8, <1>10, <2>2
<1>15. ~((s[5] > 0 /\ ~back.ok) \/ Len(s) < 6 + s[5] + s[6])
  BY <1>1, <1>7, <1>8, <1>10, <1>13
<1>16. (IF s[5] > 0 THEN back.tags ELSE NoTags) = rec.tags
  <2>1. CASE s[5] > 0
    BY <1>13, <2>1
  <2>2. CASE ~(s[5] > 0)
    <3>1. Len(tags) = 0
      BY <1>7, <1>10, <2>2
    <3>2. tags = <<>>
      BY <1>2, <3>1 DEF Stretch
    <3>3. IsFiniteSet(keys) /\ Cardinality(keys) = 0
      BY <1>1, <1>2, <3>2 DEF IsTags, count
    <3>4. keys = {}
      BY <3>3, FS_EmptySet
    <3>5. rec.tags = NoTags
      <4>1. rec.tags \in [keys -> Nat]
        BY <1>1 DEF IsTags
      <4>2. QED
        BY <3>4, <4>1 DEF NoTags
    <3>6. QED
      BY <2>2, <3>5
  <2>3. QED
    BY <2>1, <2>2
<1>17. DecodeRecord(s) =
         [status |-> "ok", rest |-> From(s, 7 + s[5] + s[6]),
          rec |-> [time |-> s[1], type |-> s[3], detail |-> s[6],
                   tags |-> IF s[5] > 0 THEN back.tags ELSE NoTags]]
  BY <1>14, <1>15, Zenon DEF DecodeRecord, back
<1>18. [time |-> s[1], type |-> s[3], detail |-> s[6],
        tags |-> IF s[5] > 0 THEN back.tags ELSE NoTags] = rec
  BY <1>1, <1>10, <1>16, Zenon
<1>19. 7 + s[5] + s[6] = Len(c) + 1 /\ Len(c) + 1 \in 7 .. Len(s) + 1
  <2> DEFINE m == Len(tags)
             l == Len(s)
             q == rec.detail
  <2>1. m \in Nat /\ l \in Nat /\ q \in Nat /\ l >= 6 + m + q
    BY <1>1, <1>7, <1>8
  <2>2. Len(c) = 6 + m + q /\ s[5] = m /\ s[6] = q
    BY <1>7, <1>10
  <2> HIDE DEF m, l, q
  <2>3. 7 + m + q = (6 + m + q) + 1 /\ (6 + m + q) + 1 \in 7 .. l + 1
    BY <2>1
  <2>4. QED
    BY <2>2, <2>3 DEF l
<1>20. From(s, 7 + s[5] + s[6]) = From(s, Len(c) + 1)
  BY <1>19
<1>21. DecodeRecord(s) = [status |-> "ok", rest |-> From(s, Len(c) + 1), rec |-> rec]
  BY <1>17, <1>18, <1>20, Zenon
<1>22. QED
  BY <1>19, <1>21 DEF Returned, c

(* Where a record has been cut, DecodeRecord reports it.                   *)
LEMMA CutRecord ==
  ASSUME NEW rec \in Records, NEW s \in Stretch, s # <<>>, Starts(s, Code(rec)), Len(s) < Len(Code(rec))
  PROVE  DecodeRecord(s).status = "truncated"
<1> DEFINE c == Code(rec)
           n == Len(EncodeTags(rec.tags))
           back == DecodeTags(SubSeq(s, 7, 6 + s[5]), s[4])
<1>1. rec.detail \in Nat /\ n \in Nat
  BY RecordFacts, PiecesFacts, LenProperties DEF Stretch
<1>2. Len(c) = 6 + n + rec.detail /\ c[5] = n /\ c[6] = rec.detail
  BY CodeFacts DEF IsCode
<1>3. Len(s) \in Nat /\ Len(s) < Len(c) /\ \A i \in 1 .. Len(s) : c[i] = s[i]
  BY DEF Starts, Stretch
<1> HIDE DEF c, n, back
<1>4. CASE Len(s) < 6
  <2>1. DecodeRecord(s) = Truncated
    BY <1>4, Zenon DEF DecodeRecord
  <2>2. QED
    BY <2>1 DEF Truncated
<1>5. CASE Len(s) >= 6
  <2>1. s[5] = n /\ s[6] = rec.detail
    BY <1>2, <1>3, <1>5
  <2>2. Len(s) < 6 + s[5] + s[6]
    BY <1>1, <1>2, <1>3, <2>1
  <2>3. DecodeRecord(s) = Truncated
    BY <2>2, Zenon DEF DecodeRecord
  <2>4. QED
    BY <2>3 DEF Truncated
<1>6. QED
  BY <1>3, <1>4, <1>5

Outcomes == {"ok", "eof", "truncated"}

(* Whatever the data, DecodeRecord returns or fails in one of these ways.  *)
LEMMA AnyData ==
  ASSUME NEW s \in Stretch
  PROVE  /\ DecodeRecord(s).status \in Outcomes
         /\ DecodeRecord(s).status = "ok" => DecodeRecord(s).rest \in Stretch
         /\ s = <<>> => DecodeRecord(s).status = "eof"
<1> DEFINE back == DecodeTags(SubSeq(s, 7, 6 + s[5]), s[4])
<1>1. CASE s = <<>>
  BY <1>1 DEF DecodeRecord, Outcomes
<1>2. CASE s # <<>> /\ DecodeRecord(s) = Truncated
  BY <1>2 DEF Truncated, Outcomes
<1>3. CASE s # <<>> /\ DecodeRecord(s) # Truncated
  <2> HIDE DEF back
  <2>1. ~(Len(s) < 6 \/ Len(s) < 6 + s[5])
    BY <1>3, Zenon DEF DecodeRecord
  <2>2. ~((s[5] > 0 /\ ~back.ok) \/ Len(s) < 6 + s[5] + s[6])
    BY <1>3, <2>1, Zenon DEF DecodeRecord, back
  <2>3. DecodeRecord(s) =
          [status |-> "ok", rest |-> From(s, 7 + s[5] + s[6]),
           rec |-> [time |-> s[1], type |-> s[3], detail |-> s[6],
                    tags |-> IF s[5] > 0 THEN back.tags ELSE NoTags]]
    BY <1>3, <2>1, <2>2, Zenon DEF DecodeRecord, back
  <2>4. Len(s) \in Nat
    BY DEF Stretch
  <2>5. s[5] \in Nat /\ s[6] \in Nat
    <3>1. 5 \in 1 .. Len(s) /\ 6 \in 1 .. Len(s)
      BY <2>1, <2>4
    <3>2. QED
      BY <3>1, ElementOfSeq DEF Stretch
  <2>6. 7 + s[5] + s[6] \in 1 .. Len(s) + 1
    BY <2>2, <2>4, <2>5
  <2>7. From(s, 7 + s[5] + s[6]) \in Stretch
    BY <2>6, FromFacts
  <2>8. QED
    BY <1>3, <2>3, <2>7 DEF Outcomes
<1>4. QED
  BY <1>1, <1>2, <1>3
-----------------------------------------------------------------------------
(* The reader.                                                             *)

Results == {DecodeRecord(s).rec : s \in Stretch}
ReadState == [status : Outcomes, rest : Stretch, recs : Seq(Results)]

ReadStart(s) == [status |-> "ok", rest |-> s, recs |-> <<>>]

(* Whatever the data, a call of Reader.Next leads from one state of the    *)
(* reader to another.                                                      *)
LEMMA NextTyped ==
  ASSUME NEW last \in ReadState
  PROVE  ReadNext(last) \in ReadState
<1> DEFINE r == DecodeRecord(last.rest)
<1>1. last.status \in Outcomes /\ last.rest \in Stretch /\ last.recs \in Seq(Results)
  BY DEF ReadState
<1>2. r.status \in Outcomes /\ (r.status = "ok" => r.rest \in Stretch)
  BY <1>1, AnyData
<1>3. r.rec \in Results
  BY <1>1 DEF Results
<1> HIDE DEF r
<1>4. CASE last.status # "ok"
  BY <1>4 DEF ReadNext
<1>5. CASE last.status = "ok" /\ r.status # "ok"
  <2>1. ReadNext(last) = [last EXCEPT !.status = r.status]
    BY <1>5 DEF ReadNext, r
  <2>2. QED
    BY <1>2, <2>1 DEF ReadState
<1>6. CASE last.status = "ok" /\ r.status = "ok"
  <2>1. ReadNext(last) = [status |-> "ok", rest |-> r.rest, recs |-> Append(last.recs, r.rec)]
    BY <1>6 DEF ReadNext, r
  <2>2. Append(last.recs, r.rec) \in Seq(Results)
    BY <1>1, <1>3, AppendProperties
  <2>3. QED
    BY <1>2, <1>6, <2>1, <2>2 DEF ReadState, Outcomes
<1>7. QED
  BY <1>4, <1>5, <1>6

\* f is what the reader of s goes through
Reads(f, s) ==
  /\ f \in [0 .. Len(s) + 1 -> ReadState]
  /\ f[0] = ReadStart(s)
  /\ \A i \in 1 .. Len(s) + 1 : f[i] = ReadNext(f[i - 1])
  /\ ReadRecords(s) = f[Len(s) + 1]

(* Whatever the data, the reader comes to an end; its recursion has a      *)
(* solution.                                                               *)
LEMMA ReaderRuns ==
  ASSUME NEW s \in Stretch
  PROVE  \E f : Reads(f, s)
<1> DEFINE n == Len(s) + 1
           base == ReadStart(s)
           step == [q \in (1 .. n) \X ReadState |-> ReadNext(q[2])]
           F(f) == f = [i \in 0 .. n |-> IF i = 0 THEN base ELSE ReadNext(f[i - 1])]
<1>1. n \in Nat /\ n > 0
  BY DEF Stretch
<1>2. base \in ReadState
  BY DEF ReadStart, ReadState, Outcomes
<1>3. step \in [(1 .. n) \X ReadState -> ReadState]
  BY NextTyped
<1> HIDE DEF n, base
<1>4. PICK g \in [0 .. n -> ReadState] : Follows(g, n, base, step)
  <2> HIDE DEF step
  <2>1. QED
    BY <1>1, <1>2, <1>3, RecursionExists
<1>5. ASSUME NEW k \in 1 .. n PROVE g[k] = ReadNext(g[k - 1])
  <2>1. k - 1 \in 0 .. n
    BY <1>1
  <2>2. g[k - 1] \in ReadState
    BY <1>4, <2>1
  <2>3. step[<<k, g[k - 1]>>] = ReadNext(g[k - 1])
    BY <2>2
  <2>4. QED
    BY <1>4, <2>3 DEF Follows
<1>6. F(g)
  <2>1. ASSUME NEW i \in 0 .. n PROVE g[i] = IF i = 0 THEN base ELSE ReadNext(g[i - 1])
    <3>1. CASE i = 0
      BY <1>4, <3>1 DEF Follows
    <3>2. CASE i # 0
      <4>1. i \in 1 .. n
        BY <1>1, <3>2
      <4>2. QED
        BY <1>5, <3>2, <4>1, Zenon
    <3>3. QED
      BY <3>1, <3>2
  <2>2. g = [i \in 0 .. n |-> g[i]]
    BY <1>4
  <2>3. QED
    BY <2>1, <2>2
<1> DEFINE f == CHOOSE z : F(z)
<1>7. F(f)
  <2> HIDE DEF F
  <2>1. QED
    BY <1>6
<1>8. ReadRecords(s) = f[n]
  BY DEF ReadRecords, n, base, ReadStart
<1> HIDE DEF f
<1>9. ASSUME NEW i \in 0 .. n PROVE f[i] = IF i = 0 THEN base ELSE ReadNext(f[i - 1])
  BY <1>7, Zenon
<1>10. f[0] = base
  BY <1>1, <1>9
<1>11. ASSUME NEW i \in 1 .. n PROVE f[i] = ReadNext(f[i - 1])
  <2>1. i \in 0 .. n /\ i # 0
    BY <1>1
  <2>2. QED
    BY <1>9, <2>1, Zenon
<1> DEFINE T == {i \in 0 .. n : f[i] \in ReadState}
<1>12. 0 .. n \subseteq T
  <2>1. 0 \in T
    BY <1>1, <1>2, <1>10
  <2>2. ASSUME NEW i \in 0 .. n - 1, i \in T PROVE i + 1 \in T
    <3>1. i + 1 \in 1 .. n /\ i + 1 \in 0 .. n /\ (i + 1) - 1 = i
      BY <1>1
    <3>2. f[i + 1] = ReadNext(f[i])
      BY <1>11, <3>1, Zenon
    <3>3. ReadNext(f[i]) \in ReadState
      BY <2>2, NextTyped
    <3>4. QED
      BY <3>1, <3>2, <3>3
  <2> HIDE DEF T
  <2>3. QED
    BY <1>1, <2>1, <2>2, IntervalInduction
<1>13. f \in [0 .. n -> ReadState]
  <2>1. DOMAIN f = 0 .. n /\ f = [i \in DOMAIN f |-> f[i]]
    BY <1>7, Zenon
  <2>2. QED
    BY <1>12, <2>1
<1>14. QED
  BY <1>8, <1>10, <1>11, <1>13, Zenon DEF Reads, n, base

Codes(w) == [i \in 1 .. Len(w) |-> Code(w[i])]

(* The cells of some records, one record after the other.                  *)
LEMMA CodesFacts ==
  ASSUME NEW w \in Seq(Records)
  PROVE  /\ Codes(w) \in Seq(Stretch) /\ Len(Codes(w)) = Len(w) /\ Len(w) \in Nat
         /\ \A i \in 1 .. Len(w) : Codes(w)[i] = Code(w[i]) /\ Len(Code(w[i])) >= 6 /\ w[i] \in Records
<1>1. ASSUME NEW i \in 1 .. Len(w)
      PROVE  w[i] \in Records /\ Code(w[i]) \in Stretch /\ Len(Code(w[i])) >= 6
  <2>1. w[i] \in Records
    BY ElementOfSeq
  <2>2. IsCode(Code(w[i]), w[i]) /\ w[i].detail \in Nat /\ EncodeTags(w[i].tags) \in Stretch
    BY <2>1, CodeFacts, RecordFacts, PiecesFacts
  <2> DEFINE m == Len(EncodeTags(w[i].tags))
             d == w[i].detail
             n == Len(Code(w[i]))
  <2>3. m \in Nat
    BY <2>2 DEF Stretch
  <2>4. n = 6 + m + d /\ d \in Nat /\ Code(w[i]) \in Stretch
    BY <2>2 DEF IsCode
  <2> HIDE DEF m, d, n
  <2>5. n >= 6
    BY <2>3, <2>4
  <2>6. QED
    BY <2>1, <2>4, <2>5 DEF n
<1>2. Len(w) \in Nat
  OBVIOUS
<1>3. Codes(w) \in Seq(Stretch) /\ Len(Codes(w)) = Len(w)
  BY <1>1, <1>2 DEF Codes
<1>4. QED
  BY <1>1, <1>2, <1>3 DEF Codes

\* the reader has read the first i records of w, and no further
HasRead(r, s, w, i) ==
  /\ r = [status |-> "ok", rest |-> From(s, Len(Upto(Codes(w), i)) + 1), recs |-> SubSeq(w, 1, i)]
  /\ i <= Len(s) /\ Len(Upto(Codes(w), i)) + 1 \in 1 .. Len(s) + 1

(* A record that is in the file where the reader is will be read.          *)
LEMMA OneRead ==
  ASSUME NEW w \in Seq(Records), NEW n \in 0 .. Len(w), \A i \in 1 .. n : FitsWidth(w[i]),
         NEW s \in Stretch, Starts(Upto(Codes(w), n), s),
         NEW i \in 0 .. n - 1, NEW last, HasRead(last, s, w, i), i <= Len(Upto(Codes(w), i))
  PROVE  HasRead(ReadNext(last), s, w, i + 1) /\ i + 1 <= Len(Upto(Codes(w), i + 1))
<1> DEFINE p == Codes(w)
           rec == w[i + 1]
           c == Code(rec)
           m == Len(Upto(p, i))
           r == From(s, m + 1)
           d == DecodeRecord(r)
<1>1. p \in Seq(Stretch) /\ Len(p) = Len(w) /\ Len(w) \in Nat
      /\ \A j \in 1 .. Len(w) : p[j] = Code(w[j]) /\ Len(Code(w[j])) >= 6 /\ w[j] \in Records
  BY CodesFacts
<1>2. i + 1 \in 1 .. Len(w) /\ i + 1 \in 1 .. n /\ i \in Nat /\ i + 1 > 0 /\ (i + 1) - 1 = i
  BY <1>1
<1>3. rec \in Records /\ p[i + 1] = c /\ Len(c) >= 6
  BY <1>1, <1>2
<1>4. FitsWidth(rec)
  BY <1>2
<1> HIDE DEF p, rec, c
<1>5. Upto(p, i + 1) = Upto(p, i) \o c /\ Upto(p, i) \in Stretch /\ c \in Stretch /\ Upto(p, i + 1) \in Stretch
  <2>1. i + 1 \in 0 .. Len(p)
    BY <1>1, <1>2
  <2>2. UptoAt(p, i + 1)
    BY <1>1, <2>1, UptoStep
  <2>3. QED
    BY <1>2, <1>3, <2>2 DEF UptoAt
<1>6. Starts(Upto(p, i + 1), s)
  <2>1. n \in 0 .. Len(p) /\ i + 1 \in 0 .. n
    BY <1>1, <1>2
  <2>2. Starts(Upto(p, i + 1), Upto(p, n)) /\ Upto(p, n) \in Stretch
    BY <1>1, <2>1, UptoStarts, UptoJoins
  <2>3. QED
    BY <1>5, <2>2, StartsTrans DEF p
<1>7. m + 1 \in 1 .. Len(s) + 1 /\ Starts(c, r)
  BY <1>5, <1>6, StartsRest
<1>8. r \in Stretch /\ Len(r) = Len(s) + 1 - (m + 1)
  BY <1>7, FromFacts
<1>9. Returned(d, r, rec)
  BY <1>3, <1>4, <1>7, <1>8, RecordComesBack DEF c
<1>10. Len(s) \in Nat /\ m \in Nat /\ Len(c) \in Nat
  BY <1>5, LenProperties DEF Stretch
<1>11. Len(Upto(p, i + 1)) = m + Len(c)
  BY <1>5, ConcatAssociates
<1>12. last = [status |-> "ok", rest |-> r, recs |-> SubSeq(w, 1, i)] /\ i <= m
  BY DEF HasRead, p
<1> HIDE DEF m, r, d
<1>13. d.rest = From(s, Len(Upto(p, i + 1)) + 1)
  <2>1. Len(c) + 1 \in 1 .. Len(s) + 2 - (m + 1)
    BY <1>8, <1>9, <1>10 DEF Returned, c
  <2>2. From(From(s, m + 1), Len(c) + 1) = From(s, (m + 1) + (Len(c) + 1) - 1)
    BY <1>7, <2>1, FromFrom
  <2>3. (m + 1) + (Len(c) + 1) - 1 = Len(Upto(p, i + 1)) + 1
    BY <1>10, <1>11
  <2>4. d.rest = From(r, Len(c) + 1)
    BY <1>9 DEF Returned, c
  <2>5. QED
    BY <2>2, <2>3, <2>4 DEF r
<1>14. Append(SubSeq(w, 1, i), rec) = SubSeq(w, 1, i + 1)
  <2>1. 1 \in 1 .. Len(w) /\ i + 1 \in 1 .. Len(w)
    BY <1>1, <1>2
  <2>2. SubSeq(w, 1, i + 1) = SubSeq(w, 1, (i + 1) - 1) \o <<w[i + 1]>>
    BY <2>1, SubSeqRecursiveSecond
  <2>3. SubSeq(w, 1, i) \in Seq(Records)
    BY <1>1, <1>2
  <2>4. SubSeq(w, 1, i) \o <<rec>> = Append(SubSeq(w, 1, i), rec)
    BY <1>3, <2>3
  <2>5. QED
    BY <1>2, <2>2, <2>4 DEF rec
<1>15. ReadNext(last) = [status |-> "ok", rest |-> d.rest, recs |-> Append(SubSeq(w, 1, i), d.rec)]
  <2>1. last.status = "ok" /\ last.rest = r /\ last.recs = SubSeq(w, 1, i)
    BY <1>12
  <2>2. d = DecodeRecord(r) /\ d.status = "ok"
    BY <1>9 DEF d, Returned
  <2>3. QED
    BY <2>1, <2>2, Zenon DEF ReadNext
<1>16. d.rec = rec
  BY <1>9 DEF Returned
<1>17. ReadNext(last) =
         [status |-> "ok", rest |-> From(s, Len(Upto(p, i + 1)) + 1), recs |-> SubSeq(w, 1, i + 1)]
  BY <1>13, <1>14, <1>15, <1>16, Zenon
<1>18. i + 1 <= m + Len(c) /\ m + Len(c) <= Len(s)
  <2>1. Len(c) <= Len(r)
    BY <1>7 DEF Starts, r
  <2>2. QED
    BY <1>2, <1>3, <1>8, <1>10, <1>12, <2>1
<1>19. i + 1 <= Len(s) /\ Len(Upto(p, i + 1)) + 1 \in 1 .. Len(s) + 1 /\ i + 1 <= Len(Upto(p, i + 1))
  BY <1>2, <1>10, <1>11, <1>18
<1>20. QED
  BY <1>17, <1>19, Zenon DEF HasRead, p

(* The reader gets as far as the records in the file fit.                  *)
LEMMA WrittenAreRead ==
  ASSUME NEW w \in Seq(Records), NEW n \in 0 .. Len(w), \A i \in 1 .. n : FitsWidth(w[i]),
         NEW s \in Stretch, Starts(Upto(Codes(w), n), s), NEW f, Reads(f, s)
  PROVE  HasRead(f[n], s, w, n)
<1> DEFINE p == Codes(w)
           T == {i \in 0 .. n : HasRead(f[i], s, w, i) /\ i <= Len(Upto(p, i))}
<1>1. n \in Nat /\ Len(s) \in Nat
  BY DEF Stretch
<1>2. 0 \in T
  <2>1. Upto(p, 0) = <<>>
    BY CodesFacts, UptoJoins
  <2>2. From(s, 1) = s /\ SubSeq(w, 1, 0) = <<>>
    BY SubSeqFull DEF From, Stretch
  <2>3. f[0] = [status |-> "ok", rest |-> s, recs |-> <<>>]
    BY DEF Reads, ReadStart
  <2>4. Len(Upto(p, 0)) = 0 /\ Len(Upto(p, 0)) + 1 = 1
    BY <2>1
  <2>5. f[0] = [status |-> "ok", rest |-> From(s, Len(Upto(p, 0)) + 1), recs |-> SubSeq(w, 1, 0)]
    BY <2>2, <2>3, <2>4
  <2>6. HasRead(f[0], s, w, 0)
    BY <1>1, <2>4, <2>5 DEF HasRead
  <2>7. QED
    BY <1>1, <2>4, <2>6
<1>3. ASSUME NEW i \in 0 .. n - 1, i \in T PROVE i + 1 \in T
  <2>1. HasRead(f[i], s, w, i) /\ i <= Len(Upto(p, i))
    BY <1>3
  <2>2. HasRead(ReadNext(f[i]), s, w, i + 1) /\ i + 1 <= Len(Upto(p, i + 1))
    BY <2>1, OneRead
  <2>3. i + 1 \in 1 .. Len(s) + 1 /\ (i + 1) - 1 = i /\ i + 1 \in 0 .. n
    BY <1>1, <2>1 DEF HasRead
  <2>4. f[i + 1] = ReadNext(f[i])
    BY <2>3, Zenon DEF Reads
  <2>5. QED
    BY <2>2, <2>3, <2>4
<1> HIDE DEF T
<1>4. 0 .. n \subseteq T
  BY <1>1, <1>2, <1>3, IntervalInduction
<1>5. QED
  BY <1>1, <1>4 DEF T

(* What has been read stays read, and a reader that has failed is at rest. *)
LEMMA ReaderGoesOn ==
  ASSUME NEW s \in Stretch, NEW f, Reads(f, s), NEW i \in 0 .. Len(s) + 1
  PROVE  Starts(f[i].recs, ReadRecords(s).recs) /\ (f[i].status # "ok" => ReadRecords(s) = f[i])
<1> DEFINE n == Len(s) + 1
           T == {j \in 0 .. n : i <= j => Starts(f[i].recs, f[j].recs)
                                          /\ (f[i].status # "ok" => f[j] = f[i])}
<1>1. n \in Nat /\ i \in Nat /\ i \in 0 .. n
  BY DEF Stretch
<1>2. /\ \A j \in 0 .. n : f[j] \in ReadState
      /\ \A j \in 1 .. n : f[j] = ReadNext(f[j - 1])
      /\ ReadRecords(s) = f[n]
  BY DEF Reads
<1> HIDE DEF n
<1>3. ASSUME NEW j \in 0 .. n PROVE Len(f[j].recs) \in Nat /\ f[j].recs \in Seq(Results)
  <2>1. f[j].recs \in Seq(Results)
    BY <1>2 DEF ReadState
  <2>2. QED
    BY <2>1, LenProperties
<1>4. Starts(f[i].recs, f[i].recs)
  BY <1>1, <1>3 DEF Starts
<1>5. 0 \in T
  <2>1. i <= 0 => i = 0
    BY <1>1
  <2>2. QED
    BY <1>1, <1>4, <2>1
<1>6. ASSUME NEW j \in 0 .. n - 1, j \in T PROVE j + 1 \in T
  <2>1. j + 1 \in 1 .. n /\ j + 1 \in 0 .. n /\ (j + 1) - 1 = j /\ j \in 0 .. n
    BY <1>1
  <2>2. CASE i > j
    <3>1. i <= j + 1 => i = j + 1
      BY <1>1, <2>1, <2>2
    <3>2. QED
      BY <1>4, <2>1, <3>1
  <2>3. CASE i <= j
    <3>1. Starts(f[i].recs, f[j].recs) /\ (f[i].status # "ok" => f[j] = f[i])
      BY <1>6, <2>3
    <3>2. f[j + 1] = ReadNext(f[j])
      BY <1>2, <2>1, Zenon
    <3> DEFINE a == f[i].recs
               b == f[j].recs
               c == f[j + 1].recs
               r == DecodeRecord(f[j].rest)
    <3>3. Len(a) \in Nat /\ Len(b) \in Nat /\ b \in Seq(Results) /\ f[j] \in ReadState
      BY <1>1, <1>2, <1>3, <2>1
    <3>4. Starts(a, b)
      BY <3>1
    <3>5. CASE f[j].status # "ok"
      <4>1. f[j + 1] = f[j]
        BY <3>2, <3>5 DEF ReadNext
      <4>2. QED
        BY <2>1, <3>1, <4>1
    <3>6. CASE f[j].status = "ok" /\ r.status # "ok"
      <4>1. f[j + 1] = [f[j] EXCEPT !.status = r.status]
        BY <3>2, <3>6 DEF ReadNext
      <4>2. c = b
        BY <3>3, <4>1 DEF ReadState
      <4>3. QED
        BY <2>1, <3>1, <3>6, <4>2
    <3>7. CASE f[j].status = "ok" /\ r.status = "ok"
      <4>1. f[j + 1] = [status |-> "ok", rest |-> r.rest, recs |-> Append(f[j].recs, r.rec)]
        BY <3>2, <3>7 DEF ReadNext
      <4>2. c = Append(b, r.rec)
        BY <4>1
      <4>3. r.rec \in Results
        BY <3>3 DEF Results, ReadState
      <4> HIDE DEF a, b, c, r
      <4>4. Len(c) = Len(b) + 1 /\ \A k \in 1 .. Len(b) : c[k] = b[k]
        BY <3>3, <4>2, <4>3, AppendProperties
      <4>5. Starts(a, c)
        BY <3>3, <3>4, <4>4 DEF Starts
      <4>6. QED
        BY <2>1, <3>1, <3>7, <4>5 DEF a, c
    <3>8. QED
      BY <3>5, <3>6, <3>7
  <2>4. QED
    BY <1>1, <2>1, <2>2, <2>3
<1> HIDE DEF T
<1>7. 0 .. n \subseteq T
  BY <1>1, <1>5, <1>6, IntervalInduction
<1>8. n \in T /\ i <= n
  BY <1>1, <1>7
<1>9. QED
  BY <1>2, <1>8 DEF T

(* The header is four cells.                                               *)
LEMMA HeaderFacts ==
  Header \in Stretch /\ Len(Header) = 4 /\ Header[1] = Magic /\ Header[2] = Version
BY DEF Header, Magic, Version, Stretch

(* A file that begins with the header is read from there on.               *)
LEMMA HeaderRead ==
  ASSUME NEW s \in Stretch, NEW y \in Stretch, Starts(Header \o y, s)
  PROVE  /\ ReadLog(s) = ReadRecords(From(s, 5))
         /\ From(s, 5) \in Stretch /\ Starts(y, From(s, 5))
         /\ (s = Header \o y => From(s, 5) = y) /\ Len(s) >= 4
<1>1. Header \in Stretch /\ Len(Header) = 4 /\ Header[1] = Magic /\ Header[2] = Version
  BY HeaderFacts
<1>2. Len(Header) + 1 \in 1 .. Len(s) + 1 /\ Starts(y, From(s, Len(Header) + 1))
  BY <1>1, StartsRest
<1>3. From(s, Len(Header) + 1) \in Stretch
  BY <1>2, FromFacts
<1>4. s = Header \o y => From(s, Len(Header) + 1) = y
  BY <1>1, FromConcat
<1>5. Len(Header) + 1 = 5
  BY <1>1
<1>6. Starts(Header, s)
  <2>1. Starts(Header, Header \o y) /\ Header \o y \in Stretch
    BY <1>1, StartsConcat, ConcatAssociates
  <2>2. QED
    BY <1>1, <2>1, StartsTrans
<1>7. s[1] = Magic /\ s[2] = Version /\ ~(Len(s) < Len(Header)) /\ Len(s) >= 4
  <2>1. Len(s) \in Nat
    BY DEF Stretch
  <2>2. QED
    BY <1>1, <1>6, <2>1 DEF Starts
<1>8. ReadLog(s) = ReadRecords(From(s, Len(Header) + 1))
  BY <1>7, Zenon DEF ReadLog
<1>9. QED
  BY <1>2, <1>3, <1>4, <1>5, <1>7, <1>8

(* Of any file the reader returns some records.                            *)
LEMMA SomeRecords ==
  ASSUME NEW s \in Stretch
  PROVE  Len(ReadLog(s).recs) \in Nat /\ ReadLog(s).recs \in Seq(Results)
<1>1. CASE ReadLog(s) = ReadRecords(From(s, Len(Header) + 1)) /\ Len(s) >= Len(Header)
  <2>1. Len(Header) + 1 \in 1 .. Len(s) + 1
    BY <1>1, HeaderFacts DEF Stretch
  <2>2. From(s, Len(Header) + 1) \in Stretch
    BY <2>1, FromFacts
  <2> DEFINE r == From(s, Len(Header) + 1)
  <2> HIDE DEF r
  <2>3. PICK f : Reads(f, r)
    BY <2>2, ReaderRuns DEF r
  <2>4. Len(r) + 1 \in 0 .. Len(r) + 1
    BY <2>2 DEF Stretch, r
  <2>5. ReadRecords(r) \in ReadState
    BY <2>3, <2>4 DEF Reads
  <2>6. ReadRecords(r).recs \in Seq(Results)
    BY <2>5 DEF ReadState
  <2>7. QED
    BY <1>1, <2>6, LenProperties DEF r
<1>2. CASE ReadLog(s).recs = <<>>
  BY <1>2
<1>3. QED
  <2>1. Len(s) \in Nat /\ Len(Header) \in Nat
    BY HeaderFacts DEF Stretch
  <2>2. ~(Len(s) < Len(Header)) => Len(s) >= Len(Header)
    BY <2>1
  <2>3. \/ ReadLog(s) = ReadRecords(From(s, Len(Header) + 1)) /\ ~(Len(s) < Len(Header))
        \/ ReadLog(s) = [status |-> "truncated", recs |-> <<>>]
        \/ ReadLog(s) = [status |-> "magic", recs |-> <<>>]
        \/ ReadLog(s) = [status |-> "version", recs |-> <<>>]
    BY Zenon DEF ReadLog
  <2>4. QED
    BY <1>1, <1>2, <2>2, <2>3

(* The records in the file that fit are the first that the reader returns. *)
LEMMA PrefixRead ==
  ASSUME NEW w \in Seq(Records), NEW n \in 0 .. Len(w), \A i \in 1 .. n : FitsWidth(w[i]),
         NEW s \in Stretch, Starts(Header \o Upto(Codes(w), n), s)
  PROVE  Starts(SubSeq(w, 1, n), ReadLog(s).recs)
<1> DEFINE y == Upto(Codes(w), n)
           r == From(s, 5)
<1>1. y \in Stretch
  BY CodesFacts, UptoJoins
<1>2. ReadLog(s) = ReadRecords(r) /\ r \in Stretch /\ Starts(y, r)
  BY <1>1, HeaderRead
<1> HIDE DEF r
<1>3. PICK f : Reads(f, r)
  BY <1>2, ReaderRuns
<1>4. HasRead(f[n], r, w, n)
  BY <1>2, <1>3, WrittenAreRead
<1>5. n \in 0 .. Len(r) + 1 /\ f[n].recs = SubSeq(w, 1, n)
  BY <1>2, <1>4 DEF HasRead, Stretch
<1>6. Starts(f[n].recs, ReadRecords(r).recs)
  BY <1>2, <1>3, <1>5, ReaderGoesOn
<1>7. QED
  BY <1>2, <1>5, <1>6

(* After them the reader reports what it finds in the file next.           *)
LEMMA WholeRead ==
  ASSUME NEW w \in Seq(Records), \A i \in 1 .. Len(w) : FitsWidth(w[i]), NEW z \in Stretch,
         DecodeRecord(z).status # "ok"
  PROVE  LET read == ReadLog(Header \o (Upto(Codes(w), Len(w)) \o z)) IN
         read.recs = w /\ read.status = DecodeRecord(z).status
<1> DEFINE n == Len(w)
           x == Upto(Codes(w), n)
           y == x \o z
           s == Header \o y
           d == DecodeRecord(z)
<1>1. x \in Stretch /\ n \in Nat /\ n \in 0 .. Len(w)
  <2>1. Codes(w) \in Seq(Stretch) /\ Len(Codes(w)) = n /\ n \in Nat
    BY CodesFacts
  <2>2. n \in 0 .. Len(Codes(w)) /\ n \in 0 .. Len(w)
    BY <2>1
  <2>3. QED
    BY <2>1, <2>2, UptoJoins
<1>2. y \in Stretch /\ s \in Stretch /\ Starts(s, s) /\ Starts(x, y)
  <2>1. y \in Stretch
    BY <1>1, ConcatAssociates
  <2> HIDE DEF y
  <2>2. s \in Stretch
    BY <2>1, HeaderFacts, ConcatAssociates
  <2>3. Starts(s, s)
    BY <2>2 DEF Starts, Stretch
  <2>4. Starts(x, y)
    BY <1>1, StartsConcat DEF y
  <2>5. QED
    BY <2>1, <2>2, <2>3, <2>4
<1> HIDE DEF y
<1>3. ReadLog(s) = ReadRecords(y)
  <2>1. ReadLog(s) = ReadRecords(From(s, 5)) /\ From(s, 5) = y
    BY <1>2, HeaderRead
  <2>2. QED
    BY <2>1
<1>4. PICK f : Reads(f, y)
  BY <1>2, ReaderRuns
<1>5. HasRead(f[n], y, w, n)
  BY <1>1, <1>2, <1>4, WrittenAreRead
<1>6. From(y, Len(x) + 1) = z
  BY <1>1, FromConcat DEF y
<1>7. /\ f[n] = [status |-> "ok", rest |-> z, recs |-> SubSeq(w, 1, n)]
      /\ n + 1 \in 1 .. Len(y) + 1 /\ n + 1 \in 0 .. Len(y) + 1 /\ (n + 1) - 1 = n
  <2>1. Len(y) \in Nat
    BY <1>2 DEF Stretch
  <2>2. QED
    BY <1>1, <1>5, <1>6, <2>1 DEF HasRead
<1>8. f[n + 1] = ReadNext(f[n])
  BY <1>4, <1>7, Zenon DEF Reads
<1>9. f[n + 1] = [status |-> d.status, rest |-> z, recs |-> SubSeq(w, 1, n)]
  <2> DEFINE u == SubSeq(w, 1, n)
             last == f[n]
  <2>1. last = [status |-> "ok", rest |-> z, recs |-> u]
    BY <1>7
  <2>2. d = DecodeRecord(z) /\ d.status # "ok"
    OBVIOUS
  <2> HIDE DEF d, u, last
  <2>3. last.status = "ok" /\ last.rest = z
    BY <2>1
  <2>4. ReadNext(last) = [last EXCEPT !.status = d.status]
    BY <2>2, <2>3, Zenon DEF ReadNext
  <2>5. [last EXCEPT !.status = d.status] = [status |-> d.status, rest |-> z, recs |-> u]
    BY <2>1
  <2>6. QED
    BY <1>8, <2>4, <2>5, Zenon DEF u, last
<1>10. ReadRecords(y) = f[n + 1]
  BY <1>2, <1>4, <1>7, <1>9, ReaderGoesOn
<1>11. SubSeq(w, 1, n) = w
  BY SubSeqFull
<1>12. QED
  BY <1>3, <1>9, <1>10, <1>11 DEF y
-----------------------------------------------------------------------------
(* The invariant.                                                          *)

Half == [rec : Records, todo : Seq(Stretch)]

\* where the variables of the log range
LogTyped ==
  /\ log \in Stretch
  /\ headerDone \in BOOLEAN /\ logClosed \in BOOLEAN /\ overlapped \in BOOLEAN
  /\ DOMAIN writing = Writers
  /\ \A x \in Writers : writing[x] = Resting \/ writing[x] \in Half
  /\ written \in Seq(Records)
  /\ begun \in 0 .. RecordCap
  /\ failedAt \in 0 .. RecordCap + 1

\* as long as suites take turns, one is inside at most, and its record is one of those begun
TurnInv ==
  ~overlapped =>
    /\ \A x, y \in Inside : x = y
    /\ Len(written) <= begun
    /\ Inside # {} => Len(written) < begun
    /\ failedAt <= Len(written) \/ failedAt = RecordCap + 1

\* all that has been written: the header and the records
Whole == Header \o Upto(Codes(written), Len(written))

\* x has n pieces of its record behind it
PiecesDone(x, n) ==
  LET p == Pieces(writing[x].rec) IN
  /\ writing[x].todo = SubSeq(p, n + 1, Len(p))
  /\ log = Header \o (Upto(Codes(written), Len(written)) \o Upto(p, n))

\* until a write fails the file has the header, the records and a part of the one begun
FileInv ==
  ~overlapped /\ failedAt = RecordCap + 1 =>
    IF headerDone
    THEN /\ Inside = {} => log = Whole
         /\ \A x \in Inside : \E n \in 0 .. Len(Pieces(writing[x].rec)) - 1 : PiecesDone(x, n)
    ELSE /\ log = <<>> /\ written = <<>>
         /\ \A x \in Inside : writing[x].todo = <<Header>> \o Pieces(writing[x].rec)

\* and what it had then is what it still begins with
FailInv ==
  ~overlapped /\ failedAt \in 1 .. RecordCap => Starts(Header \o Upto(Codes(written), failedAt), log)

LogInv == LogTyped /\ TurnInv /\ FileInv /\ FailInv

(* The writer has been opened: there is nothing in the file.               *)
LEMMA InitLog == LogStarts(TRUE) => LogInv
<1> SUFFICES ASSUME LogStarts(TRUE) PROVE LogInv
  OBVIOUS
<1>1. /\ log = <<>> /\ headerDone = FALSE /\ logClosed = FALSE
      /\ writing = [x \in Writers |-> Resting]
      /\ written = <<>> /\ begun = 0 /\ overlapped = FALSE /\ failedAt = RecordCap + 1
  BY DEF LogStarts
<1>2. Inside = {}
  BY <1>1 DEF Inside, Resting
<1>3. LogTyped
  <2>1. log \in Stretch /\ written \in Seq(Records)
    BY <1>1 DEF Stretch
  <2>2. begun \in 0 .. RecordCap /\ failedAt \in 0 .. RecordCap + 1
    BY <1>1, WidthPositive
  <2>3. DOMAIN writing = Writers /\ \A x \in Writers : writing[x] = Resting
    BY <1>1
  <2>4. QED
    BY <1>1, <2>1, <2>2, <2>3 DEF LogTyped
<1>4. TurnInv
  BY <1>1, <1>2, WidthPositive DEF TurnInv
<1>5. FileInv
  BY <1>1, <1>2 DEF FileInv
<1>6. FailInv
  BY <1>1, WidthPositive DEF FailInv
<1>7. QED
  BY <1>3, <1>4, <1>5, <1>6 DEF LogInv

(* A record that is written to the end follows those before it.            *)
LEMMA CodesAppend ==
  ASSUME NEW w \in Seq(Records), NEW rec \in Records
  PROVE  /\ \A n \in 0 .. Len(w) : Upto(Codes(Append(w, rec)), n) = Upto(Codes(w), n)
         /\ Upto(Codes(Append(w, rec)), Len(w) + 1) = Upto(Codes(w), Len(w)) \o Code(rec)
         /\ Append(w, rec) \in Seq(Records) /\ Len(Append(w, rec)) = Len(w) + 1
<1> DEFINE v == Append(w, rec)
<1>1. v \in Seq(Records) /\ Len(v) = Len(w) + 1 /\ v[Len(w) + 1] = rec /\ Len(w) \in Nat
      /\ \A i \in 1 .. Len(w) : v[i] = w[i]
  OBVIOUS
<1> HIDE DEF v
<1>2. /\ Codes(v) \in Seq(Stretch) /\ Len(Codes(v)) = Len(v)
      /\ \A i \in 1 .. Len(v) : Codes(v)[i] = Code(v[i])
  BY <1>1, CodesFacts
<1>3. /\ Codes(w) \in Seq(Stretch) /\ Len(Codes(w)) = Len(w)
      /\ \A i \in 1 .. Len(w) : Codes(w)[i] = Code(w[i])
  BY CodesFacts
<1> DEFINE p == Codes(v)
           q == Codes(w)
<1>4. \A i \in 1 .. Len(w) : p[i] = q[i]
  BY <1>1, <1>2, <1>3
<1>5. p[Len(w) + 1] = Code(rec)
  BY <1>1, <1>2
<1> HIDE DEF p, q
<1>6. p \in Seq(Stretch) /\ Len(p) = Len(w) + 1 /\ q \in Seq(Stretch) /\ Len(q) = Len(w)
  BY <1>1, <1>2, <1>3 DEF p, q
<1>7. ASSUME NEW n \in 0 .. Len(w) PROVE Upto(p, n) = Upto(q, n)
  <2> DEFINE a == SubSeq(p, 1, n)
             b == SubSeq(q, 1, n)
  <2>1. /\ a \in Seq(Stretch) /\ Len(a) = n /\ \A i \in 1 .. n : a[i] = p[i]
        /\ b \in Seq(Stretch) /\ Len(b) = n /\ \A i \in 1 .. n : b[i] = q[i]
    BY <1>1, <1>6
  <2> HIDE DEF a, b
  <2>2. Len(a) = Len(b) /\ \A i \in 1 .. Len(a) : a[i] = b[i]
    <3>1. ASSUME NEW i \in 1 .. n PROVE a[i] = b[i]
      <4>1. i \in 1 .. Len(w)
        BY <1>1
      <4>2. p[i] = q[i]
        BY <1>4, <4>1, Zenon
      <4>3. a[i] = p[i] /\ b[i] = q[i]
        BY <2>1, Zenon
      <4>4. QED
        BY <4>2, <4>3, Zenon
    <3>2. Len(a) = n /\ Len(b) = n
      BY <2>1, Zenon
    <3>3. QED
      BY <3>1, <3>2, Zenon
  <2>3. a = b
    BY <2>1, <2>2, SeqEqual
  <2>4. QED
    BY <2>3 DEF Upto, a, b
<1>8. Upto(p, Len(w) + 1) = Upto(p, Len(w)) \o p[Len(w) + 1]
  <2>1. Len(w) + 1 \in 0 .. Len(p) /\ Len(w) + 1 > 0 /\ (Len(w) + 1) - 1 = Len(w)
    BY <1>1, <1>6
  <2>2. UptoAt(p, Len(w) + 1)
    BY <1>6, <2>1, UptoStep
  <2>3. QED
    BY <2>1, <2>2 DEF UptoAt
<1>9. Upto(p, Len(w)) = Upto(q, Len(w))
  BY <1>1, <1>7
<1>10. QED
  BY <1>1, <1>5, <1>7, <1>8, <1>9 DEF p, q, v

(* The first records of some are a stretch of cells.                       *)
LEMMA StreamFacts ==
  ASSUME NEW w \in Seq(Records), NEW n \in 0 .. Len(w)
  PROVE  Upto(Codes(w), n) \in Stretch
<1>1. Codes(w) \in Seq(Stretch) /\ n \in 0 .. Len(Codes(w))
  BY CodesFacts
<1>2. QED
  BY <1>1, UptoJoins

(* The suite that is inside Write has a record and something to write.     *)
LEMMA InsideHas ==
  ASSUME LogTyped, NEW x \in Inside
  PROVE  /\ x \in Writers /\ writing[x] \in Half /\ writing[x].rec \in Records
         /\ writing[x].todo \in Seq(Stretch) /\ writing[x].todo # <<>>
<1>1. x \in Writers /\ writing[x].todo # <<>>
  BY DEF Inside
<1>2. writing[x] # Resting
  BY <1>1 DEF Resting
<1>3. writing[x] \in Half
  BY <1>1, <1>2 DEF LogTyped
<1>4. QED
  BY <1>1, <1>3 DEF Half

(* Write begins.                                                           *)
LEMMA BeginKeeps ==
  ASSUME LogInv, NEW x \in Writers, NEW rec \in Records, BeginWrite(x, rec)
  PROVE  LogInv'
<1> DEFINE p == Pieces(rec)
           todo == IF headerDone THEN p ELSE <<Header>> \o p
           entry == [rec |-> rec, todo |-> todo]
<1>1. LogTyped /\ TurnInv /\ FileInv /\ FailInv
  BY DEF LogInv
<1>2. /\ x \notin Inside /\ begun < RecordCap /\ ~overlapped
      /\ writing' = [writing EXCEPT ![x] = entry]
      /\ begun' = begun + 1 /\ overlapped' = (overlapped \/ Inside # {})
      /\ UNCHANGED <<log, headerDone, logClosed, written, failedAt>>
  BY DEF BeginWrite
<1>3. p \in Seq(Stretch) /\ Len(p) \in 5 .. 7
  BY PiecesFacts
<1> HIDE DEF p
<1>4. todo \in Seq(Stretch) /\ todo # <<>> /\ p # <<>>
  BY <1>3, HeaderFacts
<1> HIDE DEF todo
<1>5. entry \in Half /\ entry.todo = todo /\ entry.rec = rec
  BY <1>4 DEF Half
<1> HIDE DEF entry
<1>6. /\ DOMAIN writing' = Writers /\ writing'[x] = entry
      /\ \A y \in Writers : y # x => writing'[y] = writing[y]
  BY <1>1, <1>2 DEF LogTyped
<1>7. LogTyped'
  <2>1. \A y \in Writers : writing'[y] = Resting \/ writing'[y] \in Half
    BY <1>1, <1>5, <1>6 DEF LogTyped
  <2>2. begun' \in 0 .. RecordCap
    BY <1>1, <1>2, WidthPositive DEF LogTyped
  <2>3. overlapped' \in BOOLEAN
    BY <1>2
  <2>4. QED
    BY <1>1, <1>2, <1>6, <2>1, <2>2, <2>3 DEF LogTyped
<1>8. ASSUME ~overlapped' PROVE Inside = {} /\ \A y \in Inside' : y = x
  <2>1. Inside = {}
    BY <1>2, <1>8
  <2>2. ASSUME NEW y \in Inside', y # x PROVE FALSE
    <3>1. y \in Writers /\ writing'[y].todo # <<>>
      BY DEF Inside
    <3>2. writing[y].todo # <<>>
      BY <1>6, <2>2, <3>1
    <3>3. QED
      BY <2>1, <3>1, <3>2 DEF Inside
  <2>3. QED
    BY <2>1, <2>2
<1>9. TurnInv'
  <2> SUFFICES ASSUME ~overlapped'
               PROVE  /\ \A y, z \in Inside' : y = z
                      /\ Len(written') < begun'
                      /\ failedAt' <= Len(written') \/ failedAt' = RecordCap + 1
    <3>1. Len(written') \in Nat /\ begun' \in Nat
      BY <1>7, LenProperties DEF LogTyped
    <3>2. QED
      BY <3>1 DEF TurnInv
  <2>1. Len(written) <= begun /\ (failedAt <= Len(written) \/ failedAt = RecordCap + 1)
    BY <1>1, <1>2 DEF TurnInv
  <2>2. Len(written) \in Nat /\ begun \in Nat
    BY <1>1, LenProperties DEF LogTyped
  <2>3. Len(written) < begun + 1
    BY <2>1, <2>2
  <2>4. QED
    BY <1>2, <1>8, <2>1, <2>3
<1>10. FileInv'
  <2> SUFFICES ASSUME ~overlapped', failedAt' = RecordCap + 1
               PROVE  IF headerDone'
                      THEN /\ Inside' = {} => log' = Whole'
                           /\ \A y \in Inside' :
                                \E n \in 0 .. Len(Pieces(writing'[y].rec)) - 1 : PiecesDone(y, n)'
                      ELSE /\ log' = <<>> /\ written' = <<>>
                           /\ \A y \in Inside' : writing'[y].todo = <<Header>> \o Pieces(writing'[y].rec)
    BY DEF FileInv
  <2>1. Inside = {} /\ \A y \in Inside' : y = x
    BY <1>8
  <2>2. writing'[x].todo = todo /\ writing'[x].rec = rec
    BY <1>5, <1>6
  <2>3. CASE headerDone
    <3>1. log = Whole
      BY <1>1, <1>2, <2>1, <2>3 DEF FileInv
    <3>2. log' = log /\ written' = written /\ headerDone' = headerDone
      BY <1>2
    <3>3. PiecesDone(x, 0)'
      <4>1. todo = p /\ SubSeq(p, 1, Len(p)) = p /\ 0 + 1 = 1
        BY <1>3, <2>3, SubSeqFull DEF todo
      <4> DEFINE w == Upto(Codes(written), Len(written))
      <4>2. w \in Stretch
        <5>1. written \in Seq(Records) /\ Len(written) \in 0 .. Len(written)
          BY <1>1 DEF LogTyped
        <5>2. QED
          BY <5>1, StreamFacts
      <4>3. Upto(p, 0) = <<>>
        BY <1>3, UptoJoins
      <4>4. w \o Upto(p, 0) = w
        BY <4>2, <4>3, ConcatEmptySeq DEF Stretch
      <4>5. log' = Header \o (Upto(Codes(written'), Len(written')) \o Upto(p, 0))
        BY <3>1, <3>2, <4>4 DEF Whole
      <4>6. writing'[x].todo = SubSeq(p, 0 + 1, Len(p))
        BY <2>2, <4>1
      <4>7. QED
        BY <2>2, <4>5, <4>6 DEF PiecesDone, p
    <3>4. x \in Inside' /\ 0 \in 0 .. Len(Pieces(writing'[x].rec)) - 1
      <4>1. x \in Inside'
        BY <1>4, <2>2 DEF Inside
      <4>2. 0 \in 0 .. Len(p) - 1
        <5> DEFINE m == Len(p)
        <5>1. m \in 5 .. 7
          BY <1>3
        <5> HIDE DEF m
        <5>2. 0 \in 0 .. m - 1
          BY <5>1
        <5>3. QED
          BY <5>2 DEF m
      <4>3. QED
        BY <2>2, <4>1, <4>2 DEF p
    <3>5. \A y \in Inside' : \E n \in 0 .. Len(Pieces(writing'[y].rec)) - 1 : PiecesDone(y, n)'
      BY <2>1, <3>3, <3>4
    <3>6. QED
      BY <2>3, <3>2, <3>4, <3>5
  <2>4. CASE ~headerDone
    <3>1. log = <<>> /\ written = <<>>
      BY <1>1, <1>2, <2>4 DEF FileInv
    <3>2. writing'[x].todo = <<Header>> \o Pieces(writing'[x].rec)
      BY <2>2, <2>4 DEF todo, p
    <3>3. QED
      BY <1>2, <2>1, <2>4, <3>1, <3>2
  <2>5. QED
    BY <2>3, <2>4
<1>11. FailInv'
  BY <1>1, <1>2 DEF FailInv
<1>12. QED
  BY <1>7, <1>9, <1>10, <1>11 DEF LogInv

(* When the suite that is inside is the only one, and it leaves or goes on,*)
(* no other is inside.                                                     *)
LEMMA OnlyOne ==
  ASSUME LogTyped, NEW x \in Inside, \A y \in Inside : y = x,
         DOMAIN writing' = Writers, \A y \in Writers : y # x => writing'[y] = writing[y]
  PROVE  \A y \in Inside' : y = x
<1> SUFFICES ASSUME NEW y \in Inside', y # x PROVE FALSE
  OBVIOUS
<1>1. y \in Writers /\ writing'[y].todo # <<>>
  BY DEF Inside
<1>2. writing[y].todo # <<>>
  BY <1>1
<1>3. y \in Inside
  BY <1>1, <1>2 DEF Inside
<1>4. QED
  BY <1>3

(* What a file begins with stays when cells are added.                     *)
LEMMA StillStarts ==
  ASSUME NEW w \in Seq(Records), NEW n \in 0 .. Len(w), NEW s \in Stretch, NEW t \in Stretch,
         Starts(Header \o Upto(Codes(w), n), s)
  PROVE  Starts(Header \o Upto(Codes(w), n), s \o t)
<1>1. Upto(Codes(w), n) \in Stretch
  BY StreamFacts
<1>2. Header \o Upto(Codes(w), n) \in Stretch /\ s \o t \in Stretch
  BY <1>1, HeaderFacts, ConcatAssociates
<1>3. Starts(s, s \o t)
  BY StartsConcat
<1>4. QED
  BY <1>2, <1>3, StartsTrans

(* A piece is written: the variables stay in their ranges.                 *)
LEMMA WritePieceTyped ==
  ASSUME LogTyped, NEW x \in Writers, WritePiece(x)
  PROVE  LogTyped'
<1> DEFINE todo == writing[x].todo
           rest == Tail(todo)
           entry == IF rest = <<>> THEN Resting ELSE [writing[x] EXCEPT !.todo = rest]
<1>1. /\ x \in Inside /\ log' = log \o Head(todo)
      /\ headerDone' = (headerDone \/ Head(todo) = Header)
      /\ writing' = [writing EXCEPT ![x] = entry]
      /\ written' = (IF rest = <<>> THEN Append(written, writing[x].rec) ELSE written)
      /\ UNCHANGED <<logClosed, begun, overlapped, failedAt>>
  BY DEF WritePiece
<1>2. writing[x] \in Half /\ writing[x].rec \in Records /\ todo \in Seq(Stretch) /\ todo # <<>>
  BY <1>1, InsideHas
<1> HIDE DEF todo
<1>3. Head(todo) \in Stretch /\ rest \in Seq(Stretch)
  BY <1>2, HeadTailProperties
<1> HIDE DEF rest
<1>4. log' \in Stretch
  <2>1. log \in Stretch
    BY DEF LogTyped
  <2>2. QED
    BY <1>1, <1>3, <2>1, ConcatAssociates
<1>5. entry = Resting \/ entry \in Half
  BY <1>2, <1>3 DEF Half
<1>6. written' \in Seq(Records)
  BY <1>1, <1>2, AppendProperties DEF LogTyped
<1> HIDE DEF entry
<1>7. DOMAIN writing' = Writers /\ \A y \in Writers : writing'[y] = Resting \/ writing'[y] \in Half
  BY <1>1, <1>5 DEF LogTyped
<1>8. QED
  BY <1>1, <1>4, <1>6, <1>7 DEF LogTyped

\* u behind h, s and t, and behind t in what follows h and s
Behind(h, s, t, u) == (h \o (s \o t)) \o u = h \o (s \o (t \o u))

(* What is written last comes behind all that was written before.          *)
LEMMA PieceBehind ==
  ASSUME NEW h \in Stretch, NEW s \in Stretch, NEW t \in Stretch, NEW u \in Stretch
  PROVE  Behind(h, s, t, u)
<1>1. s \o t \in Stretch
  BY ConcatAssociates
<1>2. InTurn(h, s \o t, u) /\ InTurn(s, t, u)
  BY <1>1, EitherEnd
<1>3. QED
  BY <1>2, Zenon DEF InTurn, Behind

(* A piece is written, and perhaps the record with it.                     *)
LEMMA WritePieceKeeps ==
  ASSUME LogInv, NEW x \in Writers, WritePiece(x)
  PROVE  LogInv'
<1> DEFINE todo == writing[x].todo
           rec == writing[x].rec
           rest == Tail(todo)
           entry == IF rest = <<>> THEN Resting ELSE [writing[x] EXCEPT !.todo = rest]
           p == Pieces(rec)
           w == Upto(Codes(written), Len(written))
<1>1. LogTyped /\ TurnInv /\ FileInv /\ FailInv
  BY DEF LogInv
<1>2. /\ x \in Inside /\ log' = log \o Head(todo)
      /\ headerDone' = (headerDone \/ Head(todo) = Header)
      /\ writing' = [writing EXCEPT ![x] = entry]
      /\ written' = (IF rest = <<>> THEN Append(written, rec) ELSE written)
      /\ UNCHANGED <<logClosed, begun, overlapped, failedAt>>
  BY DEF WritePiece
<1>3. writing[x] \in Half /\ rec \in Records /\ todo \in Seq(Stretch) /\ todo # <<>>
  BY <1>1, <1>2, InsideHas
<1>4. LogTyped'
  BY <1>1, WritePieceTyped
<1>5. p \in Seq(Stretch) /\ Len(p) \in 5 .. 7
  BY <1>3, PiecesFacts
<1> HIDE DEF todo, rec, p
<1>6. Head(todo) \in Stretch /\ rest \in Seq(Stretch)
  BY <1>3, HeadTailProperties
<1>7. log \in Stretch /\ written \in Seq(Records) /\ Len(written) \in Nat /\ begun \in Nat
      /\ failedAt \in Nat
  BY <1>1, LenProperties, WidthPositive DEF LogTyped
<1>8. w \in Stretch
  <2>1. Len(written) \in 0 .. Len(written)
    BY <1>7
  <2>2. QED
    BY <1>7, <2>1, StreamFacts
<1> HIDE DEF rest, w
<1>9. /\ DOMAIN writing' = Writers /\ writing'[x] = entry
      /\ \A y \in Writers : y # x => writing'[y] = writing[y]
  BY <1>1, <1>2 DEF LogTyped
<1>10. /\ rest = <<>> => writing'[x].todo = <<>>
       /\ rest # <<>> => writing'[x].todo = rest /\ writing'[x].rec = rec
  BY <1>3, <1>9 DEF Resting, Half, rec
<1> HIDE DEF entry
<1>11. ASSUME ~overlapped PROVE \A y \in Inside' : y = x
  <2>1. \A y \in Inside : y = x
    BY <1>1, <1>2, <1>11 DEF TurnInv
  <2>2. QED
    BY <1>1, <1>2, <1>9, <2>1, OnlyOne
<1>12. \A n \in 0 .. Len(written) : Upto(Codes(written'), n) = Upto(Codes(written), n)
  <2>1. CASE rest = <<>>
    BY <1>2, <1>3, <1>7, <2>1, CodesAppend
  <2>2. CASE rest # <<>>
    BY <1>2, <2>2
  <2>3. QED
    BY <2>1, <2>2
<1>13. /\ rest = <<>> => Len(written') = Len(written) + 1 /\ Inside' \subseteq Writers \ {x}
       /\ rest # <<>> => written' = written
  <2>1. rest = <<>> => Len(written') = Len(written) + 1
    BY <1>2, <1>3, <1>7, AppendProperties
  <2>2. rest = <<>> => Inside' \subseteq Writers \ {x}
    BY <1>10 DEF Inside
  <2>3. QED
    BY <1>2, <2>1, <2>2
<1>14. TurnInv'
  <2> SUFFICES ASSUME ~overlapped
               PROVE  /\ \A y, z \in Inside' : y = z
                      /\ Len(written') <= begun
                      /\ Inside' # {} => Len(written') < begun
                      /\ failedAt <= Len(written') \/ failedAt = RecordCap + 1
    BY <1>2 DEF TurnInv
  <2>1. Len(written) < begun /\ (failedAt <= Len(written) \/ failedAt = RecordCap + 1)
    BY <1>1, <1>2 DEF TurnInv
  <2>2. \A y, z \in Inside' : y = z
    BY <1>11
  <2>3. rest = <<>> => Inside' = {}
    BY <1>11, <1>13
  <2>4. CASE rest = <<>>
    <3>1. Len(written') = Len(written) + 1 /\ Inside' = {}
      BY <1>13, <2>3, <2>4
    <3>2. QED
      BY <1>7, <2>1, <2>2, <3>1
  <2>5. CASE rest # <<>>
    BY <1>7, <1>13, <2>1, <2>2, <2>5
  <2>6. QED
    BY <2>4, <2>5
<1>15. FileInv'
  <2> SUFFICES ASSUME ~overlapped, failedAt = RecordCap + 1
               PROVE  IF headerDone'
                      THEN /\ Inside' = {} => log' = Whole'
                           /\ \A y \in Inside' :
                                \E n \in 0 .. Len(Pieces(writing'[y].rec)) - 1 : PiecesDone(y, n)'
                      ELSE /\ log' = <<>> /\ written' = <<>>
                           /\ \A y \in Inside' : writing'[y].todo = <<Header>> \o Pieces(writing'[y].rec)
    BY <1>2 DEF FileInv
  <2>1. CASE headerDone
    <3>1. PICK n \in 0 .. Len(p) - 1 : PiecesDone(x, n)
      BY <1>1, <1>2, <2>1 DEF FileInv, p, rec
    <3>2. todo = SubSeq(p, n + 1, Len(p)) /\ log = Header \o (w \o Upto(p, n))
      BY <3>1 DEF PiecesDone, p, rec, todo, w
    <3>3. n \in Nat /\ n + 1 \in 1 .. Len(p) /\ Len(p) \in Nat /\ n + 1 > 0 /\ (n + 1) - 1 = n
          /\ n + 1 \in 0 .. Len(p) /\ Len(p) \in n + 1 .. Len(p)
      BY <1>5
    <3>4. Head(todo) = p[n + 1] /\ rest = SubSeq(p, (n + 1) + 1, Len(p))
      BY <1>5, <3>2, <3>3, HeadTailOfSubSeq DEF rest
    <3>5. rest = <<>> <=> n + 1 = Len(p)
      <4>1. Len(rest) = IF (n + 1) + 1 <= Len(p) THEN Len(p) - ((n + 1) + 1) + 1 ELSE 0
        BY <1>5, <3>3, <3>4
      <4>2. rest = <<>> <=> Len(rest) = 0
        BY <1>6
      <4>3. QED
        BY <3>3, <4>1, <4>2
    <3>6. log' = Header \o (w \o Upto(p, n + 1))
      <4>1. UptoAt(p, n + 1)
        BY <1>5, <3>3, UptoStep
      <4> DEFINE a == Upto(p, n)
                 b == p[n + 1]
      <4>2. Upto(p, n + 1) = a \o b /\ a \in Stretch /\ b \in Stretch
        BY <3>3, <4>1 DEF UptoAt
      <4>3. log' = (Header \o (w \o a)) \o b
        BY <1>2, <3>2, <3>4
      <4> HIDE DEF a, b
      <4>4. (Header \o (w \o a)) \o b = Header \o (w \o (a \o b))
        <5>1. Behind(Header, w, a, b)
          BY <1>8, <4>2, HeaderFacts, PieceBehind
        <5>2. QED
          BY <5>1 DEF Behind
      <4>5. QED
        BY <4>2, <4>3, <4>4
    <3>7. headerDone'
      BY <1>2, <2>1
    <3>8. CASE rest = <<>>
      <4>1. Inside' = {}
        BY <1>11, <1>13, <3>8
      <4>2. Upto(p, n + 1) = Code(rec)
        <5>1. SubSeq(p, 1, n + 1) = p
          BY <1>5, <3>5, <3>8, SubSeqFull
        <5>2. QED
          BY <5>1 DEF Upto, Code, p
      <4>3. Upto(Codes(written'), Len(written')) = w \o Code(rec)
        <5>1. written' = Append(written, rec) /\ Len(written') = Len(written) + 1
          BY <1>2, <1>13, <3>8
        <5>2. QED
          BY <1>3, <1>7, <5>1, CodesAppend DEF w
      <4>4. log' = Whole'
        BY <3>6, <4>2, <4>3 DEF Whole
      <4>5. QED
        BY <3>7, <4>1, <4>4
    <3>9. CASE rest # <<>>
      <4>1. writing'[x].todo = rest /\ writing'[x].rec = rec /\ written' = written
        BY <1>10, <1>13, <3>9
      <4>2. PiecesDone(x, n + 1)'
        BY <3>4, <3>6, <4>1 DEF PiecesDone, p, w
      <4>3. n + 1 \in 0 .. Len(Pieces(writing'[x].rec)) - 1
        <5>1. n + 1 \in 0 .. Len(p) - 1
          BY <3>3, <3>5, <3>9
        <5>2. QED
          BY <4>1, <5>1 DEF p
      <4>4. x \in Inside'
        BY <3>9, <4>1 DEF Inside
      <4>5. \A y \in Inside' : y = x
        BY <1>11
      <4>6. QED
        BY <3>7, <4>2, <4>3, <4>4, <4>5
    <3>10. QED
      BY <3>8, <3>9
  <2>2. CASE ~headerDone
    <3>1. log = <<>> /\ written = <<>> /\ todo = <<Header>> \o p
      BY <1>1, <1>2, <2>2 DEF FileInv, p, rec, todo
    <3>2. Head(todo) = Header /\ rest = p /\ rest # <<>>
      <4>1. <<Header>> \in Seq(Stretch)
        BY HeaderFacts
      <4>2. Head(<<Header>> \o p) = Header /\ Tail(<<Header>> \o p) = p
        <5> DEFINE h == Header
        <5>1. h \in Stretch
          BY HeaderFacts
        <5> HIDE DEF h
        <5>2. Head(<<h>> \o p) = h
          BY <1>5, <5>1
        <5>3. Tail(<<h>> \o p) = p
          <6> DEFINE t == Tail(<<h>> \o p)
          <6>1. t \in Seq(Stretch) /\ Len(t) = Len(p) /\ \A i \in 1 .. Len(p) : t[i] = p[i]
            BY <1>5, <5>1
          <6> HIDE DEF t
          <6>2. t = p
            BY <1>5, <6>1, SeqEqual
          <6>3. QED
            BY <6>2 DEF t
        <5>4. QED
          BY <5>2, <5>3 DEF h
      <4>3. p # <<>>
        <5>1. p = <<>> => Len(p) = 0
          OBVIOUS
        <5>2. Len(p) # 0
          <6> DEFINE m == Len(p)
          <6>1. m \in 5 .. 7
            BY <1>5
          <6> HIDE DEF m
          <6>2. m # 0
            BY <6>1
          <6>3. QED
            BY <6>2 DEF m
        <5>3. QED
          BY <5>1, <5>2
      <4>4. QED
        BY <3>1, <4>2, <4>3 DEF rest
    <3>3. headerDone' /\ log' = Header /\ written' = <<>>
      <4>1. <<>> \o Header = Header
        BY HeaderFacts, ConcatEmptySeq DEF Stretch
      <4>2. QED
        BY <1>2, <1>13, <3>1, <3>2, <4>1
    <3>4. writing'[x].todo = p /\ writing'[x].rec = rec
      BY <1>10, <3>2
    <3>5. PiecesDone(x, 0)'
      <4>1. SubSeq(p, 0 + 1, Len(p)) = p
        BY <1>5, SubSeqFull
      <4>2. Upto(p, 0) = <<>> /\ Upto(Codes(written'), Len(written')) = <<>>
        <5>1. Upto(p, 0) = <<>>
          BY <1>5, UptoJoins
        <5>2. written' \in Seq(Records) /\ Len(written') = 0
          BY <3>3
        <5>3. Upto(Codes(written'), 0) = <<>>
          BY <5>2, CodesFacts, UptoJoins
        <5>4. QED
          BY <5>1, <5>2, <5>3
      <4>3. Header \o (<<>> \o <<>>) = Header
        <5>1. <<>> \o <<>> = <<>>
          BY ConcatEmptySeq
        <5>2. Header \o <<>> = Header
          BY HeaderFacts, ConcatEmptySeq DEF Stretch
        <5>3. QED
          BY <5>1, <5>2
      <4>4. log' = Header \o (Upto(Codes(written'), Len(written')) \o Upto(p, 0))
        BY <3>3, <4>2, <4>3
      <4>5. writing'[x].todo = SubSeq(p, 0 + 1, Len(p))
        BY <3>4, <4>1
      <4>6. QED
        BY <3>4, <4>4, <4>5 DEF PiecesDone, p
    <3>6. 0 \in 0 .. Len(Pieces(writing'[x].rec)) - 1
      <4> DEFINE m == Len(p)
      <4>1. m \in 5 .. 7
        BY <1>5
      <4> HIDE DEF m
      <4>2. 0 \in 0 .. m - 1
        BY <4>1
      <4>3. QED
        BY <3>4, <4>2 DEF m, p
    <3>7. x \in Inside' /\ \A y \in Inside' : y = x
      BY <1>11, <3>2, <3>4 DEF Inside
    <3>8. QED
      BY <3>3, <3>5, <3>6, <3>7
  <2>3. QED
    BY <2>1, <2>2
<1>16. FailInv'
  <2> SUFFICES ASSUME ~overlapped, failedAt \in 1 .. RecordCap
               PROVE  Starts(Header \o Upto(Codes(written'), failedAt), log')
    BY <1>2 DEF FailInv
  <2>1. Starts(Header \o Upto(Codes(written), failedAt), log)
    BY <1>1 DEF FailInv
  <2>2. failedAt \in 0 .. Len(written)
    BY <1>1, <1>7, WidthPositive DEF TurnInv
  <2>3. Starts(Header \o Upto(Codes(written), failedAt), log')
    BY <1>2, <1>6, <1>7, <2>1, <2>2, StillStarts
  <2>4. QED
    BY <1>12, <2>2, <2>3
<1>17. QED
  BY <1>4, <1>14, <1>15, <1>16 DEF LogInv

(* A write fails: the suite leaves, and what the file had it keeps.        *)
LEMMA WriteFailsKeeps ==
  ASSUME LogInv, NEW x \in Writers, WriteFails(x)
  PROVE  LogInv'
<1> DEFINE todo == writing[x].todo
           p == Pieces(writing[x].rec)
           w == Upto(Codes(written), Len(written))
<1>1. LogTyped /\ TurnInv /\ FileInv /\ FailInv
  BY DEF LogInv
<1>2. PICK k \in 0 .. Len(Head(todo)) - 1 : log' = log \o SubSeq(Head(todo), 1, k)
  BY DEF WriteFails
<1>3. /\ x \in Inside /\ ~overlapped
      /\ writing' = [writing EXCEPT ![x] = Resting]
      /\ failedAt' = (IF failedAt > RecordCap THEN Len(written) ELSE failedAt)
      /\ UNCHANGED <<headerDone, logClosed, written, begun, overlapped>>
  BY DEF WriteFails
<1>4. writing[x].rec \in Records /\ todo \in Seq(Stretch) /\ todo # <<>>
  BY <1>1, <1>3, InsideHas
<1> HIDE DEF todo
<1> DEFINE t == SubSeq(Head(todo), 1, k)
<1>5. t \in Stretch
  <2>1. Head(todo) \in Stretch
    BY <1>4, HeadTailProperties
  <2> DEFINE h == Head(todo)
  <2>2. h \in Seq(Nat) /\ Len(h) \in Nat
    BY <2>1, LenProperties DEF Stretch
  <2> HIDE DEF h
  <2>3. 1 \in 1 .. Len(h) + 1 /\ k \in 0 .. Len(h)
    BY <1>2, <2>2 DEF h
  <2>4. SubSeq(h, 1, k) \in Seq(Nat)
    BY <2>2, <2>3, SubSeqProperties
  <2>5. QED
    BY <2>4 DEF Stretch, h
<1>6. log' = log \o t
  BY <1>2
<1> HIDE DEF t
<1>7. log \in Stretch /\ written \in Seq(Records) /\ Len(written) \in Nat /\ begun \in 0 .. RecordCap
      /\ failedAt \in 0 .. RecordCap + 1 /\ RecordCap \in Nat
  BY <1>1, LenProperties, WidthPositive DEF LogTyped
<1>8. /\ \A y, z \in Inside : y = z
      /\ Len(written) < begun
      /\ failedAt <= Len(written) \/ failedAt = RecordCap + 1
  BY <1>1, <1>3 DEF TurnInv
<1>9. /\ DOMAIN writing' = Writers /\ writing'[x] = Resting
      /\ \A y \in Writers : y # x => writing'[y] = writing[y]
  BY <1>1, <1>3 DEF LogTyped
<1>10. Inside' = {}
  <2>1. \A y \in Inside' : y = x
    BY <1>1, <1>3, <1>8, <1>9, OnlyOne
  <2>2. x \notin Inside'
    BY <1>9 DEF Inside, Resting
  <2>3. QED
    BY <2>1, <2>2
<1>11. failedAt' \in 0 .. RecordCap /\ failedAt' <= Len(written)
  BY <1>3, <1>7, <1>8
<1>12. LogTyped'
  <2>1. log' \in Stretch
    BY <1>5, <1>6, <1>7, ConcatAssociates
  <2>2. \A y \in Writers : writing'[y] = Resting \/ writing'[y] \in Half
    BY <1>1, <1>9 DEF LogTyped
  <2>3. failedAt' \in 0 .. RecordCap + 1
    BY <1>7, <1>11
  <2>4. QED
    BY <1>1, <1>3, <1>9, <2>1, <2>2, <2>3 DEF LogTyped
<1>13. TurnInv'
  <2>1. Len(written) <= begun
    BY <1>7, <1>8
  <2>2. QED
    BY <1>3, <1>10, <1>11, <2>1 DEF TurnInv
<1>14. FileInv'
  <2>1. failedAt' # RecordCap + 1
    BY <1>7, <1>11
  <2>2. RecordCap' = RecordCap
    OBVIOUS
  <2>3. QED
    BY <2>1, <2>2 DEF FileInv
<1>15. FailInv'
  <2> SUFFICES ASSUME failedAt' \in 1 .. RecordCap
               PROVE  Starts(Header \o Upto(Codes(written), failedAt'), log')
    BY <1>3 DEF FailInv
  <2>1. failedAt' \in 0 .. Len(written)
    BY <1>7, <1>11
  <2>2. Starts(Header \o Upto(Codes(written), failedAt'), log)
    <3>1. CASE failedAt > RecordCap
      <4>1. failedAt = RecordCap + 1 /\ failedAt' = Len(written) /\ Len(written) # 0
        BY <1>3, <1>7, <3>1
      <4>2. written # <<>>
        BY <4>1
      <4>3. headerDone
        BY <1>1, <1>3, <4>1, <4>2 DEF FileInv
      <4>4. PICK n \in 0 .. Len(p) - 1 : PiecesDone(x, n)
        BY <1>1, <1>3, <4>1, <4>3 DEF FileInv
      <4>5. log = Header \o (w \o Upto(p, n))
        BY <4>4 DEF PiecesDone
      <4>6. w \in Stretch
        <5>1. Len(written) \in 0 .. Len(written)
          BY <1>7
        <5>2. QED
          BY <1>7, <5>1, StreamFacts
      <4>7. Upto(p, n) \in Stretch
        <5>1. p \in Seq(Stretch) /\ Len(p) \in 5 .. 7
          BY <1>4, PiecesFacts
        <5> HIDE DEF p
        <5>2. n \in 0 .. Len(p)
          BY <5>1
        <5>3. QED
          BY <5>1, <5>2, UptoJoins
      <4> HIDE DEF p, w
      <4>8. log = (Header \o w) \o Upto(p, n) /\ Header \o w \in Stretch
        BY <4>5, <4>6, <4>7, HeaderFacts, ConcatAssociates
      <4>9. Starts(Header \o w, log)
        BY <4>7, <4>8, StartsConcat
      <4>10. QED
        BY <4>1, <4>9 DEF w
    <3>2. CASE ~(failedAt > RecordCap)
      <4>1. failedAt' = failedAt
        BY <1>3, <3>2
      <4>2. QED
        BY <1>1, <1>3, <4>1 DEF FailInv
    <3>3. QED
      BY <3>1, <3>2
  <2>3. QED
    <3>1. log' \in Stretch
      BY <1>12 DEF LogTyped
    <3> DEFINE n == failedAt'
    <3>2. n \in 0 .. Len(written) /\ Starts(Header \o Upto(Codes(written), n), log)
      BY <2>1, <2>2
    <3> HIDE DEF n
    <3>3. Starts(Header \o Upto(Codes(written), n), log \o t)
      BY <1>5, <1>7, <3>2, StillStarts
    <3>4. QED
      BY <1>6, <3>3 DEF n
<1>16. QED
  BY <1>12, <1>13, <1>14, <1>15 DEF LogInv

(* Closing the log, and a step that leaves it alone, keep all of it.       *)
LEMMA RestKeeps ==
  ASSUME LogInv, UNCHANGED <<log, headerDone, writing, written, begun, overlapped, failedAt>>,
         logClosed' \in BOOLEAN
  PROVE  LogInv'
<1>1. LogTyped /\ TurnInv /\ FileInv /\ FailInv
  BY DEF LogInv
<1>2. LogTyped'
  BY <1>1 DEF LogTyped
<1>3. Inside' = Inside
  BY DEF Inside
<1>4. TurnInv'
  BY <1>1, <1>3 DEF TurnInv
<1>5. \A x, n : PiecesDone(x, n)' <=> PiecesDone(x, n)
  BY DEF PiecesDone
<1>6. FileInv'
  BY <1>1, <1>3, <1>5 DEF FileInv, Whole
<1>7. FailInv'
  BY <1>1 DEF FailInv
<1>8. QED
  BY <1>2, <1>4, <1>6, <1>7 DEF LogInv

(* What the file holds at every moment, for any suites, records, tags and  *)
(* interleaving: the header and the whole records and a part of the one    *)
(* begun (writer.go:20, tlv.go:68), or what was there when a write failed. *)
THEOREM LogInvariant == LogSpec => []LogInv
<1>1. LogStarts(TRUE) => LogInv
  BY InitLog
<1>2. LogInv /\ [LogNext]_fileVars => LogInv'
  <2> SUFFICES ASSUME LogInv, [LogNext]_fileVars PROVE LogInv'
    OBVIOUS
  <2>1. ASSUME NEW x \in Writers, WritePiece(x) PROVE LogInv'
    BY <2>1, WritePieceKeeps
  <2>2. ASSUME NEW x \in Writers, WriteFails(x) PROVE LogInv'
    BY <2>2, WriteFailsKeeps
  <2>3. ASSUME NEW x \in Writers, NEW rec \in Records, BeginWrite(x, rec) PROVE LogInv'
    BY <2>3, BeginKeeps
  <2>4. CASE CloseLog
    <3>1. /\ UNCHANGED <<log, headerDone, writing, written, begun, overlapped, failedAt>>
          /\ logClosed' \in BOOLEAN
      BY <2>4 DEF CloseLog
    <3>2. QED
      BY <3>1, RestKeeps
  <2>5. CASE UNCHANGED fileVars
    <3>1. logClosed \in BOOLEAN
      BY DEF LogInv, LogTyped
    <3>2. /\ UNCHANGED <<log, headerDone, writing, written, begun, overlapped, failedAt>>
          /\ logClosed' \in BOOLEAN
      BY <2>5, <3>1 DEF fileVars
    <3>3. QED
      BY <3>2, RestKeeps
  <2>6. QED
    BY <2>1, <2>2, <2>3, <2>4, <2>5 DEF LogNext
<1>3. QED
  BY <1>1, <1>2, PTL DEF LogSpec
-----------------------------------------------------------------------------
(* What the invariant says of the reader.                                  *)

(* A sequence that another begins with is a prefix of it.                  *)
LEMMA PrefixIs ==
  ASSUME NEW A, NEW B, NEW u \in Seq(A), NEW v \in Seq(B), Starts(u, v)
  PROVE  IsPrefix(u, v)
<1> DEFINE C == A \cup B
           a == SubSeq(u, 1, Len(u))
           b == SubSeq(v, 1, Len(u))
<1>1. u \in Seq(C) /\ v \in Seq(C)
  BY SeqMonotonic
<1>2. Len(u) \in Nat /\ Len(v) \in Nat /\ Len(u) <= Len(v) /\ \A i \in 1 .. Len(u) : v[i] = u[i]
  BY LenProperties DEF Starts
<1>3. a \in Seq(C) /\ b \in Seq(C) /\ Len(a) = Len(u) /\ Len(b) = Len(u)
      /\ \A i \in 1 .. Len(u) : a[i] = u[i] /\ b[i] = v[i]
  <2> HIDE DEF C
  <2>1. \A i \in 1 .. Len(u) : u[i] \in C /\ v[i] \in C
    BY <1>1, <1>2, ElementOfSeq
  <2>2. QED
    BY <1>1, <1>2, <2>1
<1> HIDE DEF C, a, b
<1>4. a = b
  BY <1>2, <1>3, SeqEqual
<1>5. QED
  BY <1>2, <1>4 DEF IsPrefix, a, b

(* Putting the header in front changes nothing about what begins with what.*)
LEMMA StartsAfter ==
  ASSUME NEW h \in Stretch, NEW s \in Stretch, NEW t \in Stretch, Starts(s, t)
  PROVE  Starts(h \o s, h \o t)
<1>1. Len(h) \in Nat /\ Len(s) \in Nat /\ Len(t) \in Nat /\ Len(s) <= Len(t)
      /\ \A i \in 1 .. Len(s) : t[i] = s[i]
  BY LenProperties DEF Starts, Stretch
<1>2. /\ Len(h \o s) = Len(h) + Len(s) /\ Len(h \o t) = Len(h) + Len(t)
      /\ \A i \in 1 .. Len(h) + Len(s) : (h \o s)[i] = IF i <= Len(h) THEN h[i] ELSE s[i - Len(h)]
      /\ \A i \in 1 .. Len(h) + Len(t) : (h \o t)[i] = IF i <= Len(h) THEN h[i] ELSE t[i - Len(h)]
  BY ConcatProperties DEF Stretch
<1>3. ASSUME NEW i \in 1 .. Len(h) + Len(s) PROVE (h \o t)[i] = (h \o s)[i]
  <2>1. i \in 1 .. Len(h) + Len(t)
    BY <1>1
  <2>2. CASE i <= Len(h)
    BY <1>2, <2>1, <2>2
  <2>3. CASE ~(i <= Len(h))
    <3>1. i - Len(h) \in 1 .. Len(s)
      BY <1>1, <2>3
    <3>2. t[i - Len(h)] = s[i - Len(h)]
      BY <1>1, <3>1
    <3>3. QED
      BY <1>2, <2>1, <2>3, <3>2
  <2>4. QED
    BY <2>2, <2>3
<1>4. Len(h \o s) <= Len(h \o t)
  BY <1>1, <1>2
<1>5. QED
  BY <1>2, <1>3, <1>4 DEF Starts

\* the first m of the records written fit, and are there since before a write failed
GoodUpto(m) ==
  /\ m \in 0 .. Len(written) /\ Sound = SubSeq(written, 1, m)
  /\ \A i \in 1 .. m : FitsWidth(written[i]) /\ i <= failedAt

(* Sound is a beginning of what was written, whose records all fit.        *)
LEMMA SoundIs ==
  ASSUME written \in Seq(Records), failedAt \in Nat
  PROVE  \E m \in Nat : GoodUpto(m)
<1> DEFINE isBad(i) == ~FitsWidth(written[i]) \/ i > failedAt
           bad == {i \in DOMAIN written : isBad(i)}
<1>1. Len(written) \in Nat /\ DOMAIN written = 1 .. Len(written)
  BY LenProperties
<1>2. CASE bad = {}
  <2>1. Sound = written
    BY <1>2 DEF Sound
  <2>2. written = SubSeq(written, 1, Len(written))
    BY SubSeqFull
  <2>3. \A i \in 1 .. Len(written) : ~isBad(i)
    BY <1>1, <1>2
  <2>4. Len(written) \in 0 .. Len(written)
    BY <1>1
  <2>5. \A i \in 1 .. Len(written) : FitsWidth(written[i]) /\ i <= failedAt
    <3>1. ASSUME NEW i \in 1 .. Len(written) PROVE FitsWidth(written[i]) /\ i <= failedAt
      <4>1. FitsWidth(written[i]) /\ ~(i > failedAt)
        BY <2>3
      <4>2. QED
        BY <1>1, <4>1
    <3>2. QED
      BY <3>1
  <2>6. QED
    BY <1>1, <2>1, <2>2, <2>4, <2>5 DEF GoodUpto
<1>3. CASE bad # {}
  <2> DEFINE c == CHOOSE i \in bad : \A j \in bad : i <= j
  <2>1. Sound = SubSeq(written, 1, c - 1)
    BY <1>3 DEF Sound
  <2>2. bad \subseteq Nat
    BY <1>1
  <2>3. \E i \in bad : \A j \in bad : i <= j
    <3> HIDE DEF bad
    <3>1. QED
      BY <1>3, <2>2, Smallest
  <2>4. c \in bad /\ \A j \in bad : c <= j
    <3> HIDE DEF bad
    <3>1. QED
      BY <2>3
  <2> HIDE DEF c
  <2>5. c \in 1 .. Len(written)
    BY <1>1, <2>4
  <2>6. ASSUME NEW i \in 1 .. c - 1 PROVE FitsWidth(written[i]) /\ i <= failedAt
    <3>1. i \in DOMAIN written /\ ~(c <= i)
      BY <1>1, <2>5
    <3>2. ~isBad(i)
      BY <2>4, <3>1
    <3>3. FitsWidth(written[i]) /\ ~(i > failedAt)
      BY <3>2
    <3>4. QED
      BY <3>3
  <2>7. c - 1 \in 0 .. Len(written) /\ c - 1 \in Nat
    BY <1>1, <2>5
  <2>8. QED
    BY <2>1, <2>6, <2>7 DEF GoodUpto
<1>4. QED
  BY <1>2, <1>3

\* all that was written is sound, and as much of it as this
AllGood == Sound = written => \A i \in 1 .. Len(written) : FitsWidth(written[i])

(* When all that was written is sound, all of it fits.                     *)
LEMMA AllSound ==
  ASSUME written \in Seq(Records), failedAt \in Nat
  PROVE  AllGood
<1> SUFFICES ASSUME Sound = written PROVE \A i \in 1 .. Len(written) : FitsWidth(written[i])
  BY DEF AllGood
<1>1. PICK m \in Nat : GoodUpto(m)
  BY SoundIs
<1>2. m \in 0 .. Len(written) /\ written = SubSeq(written, 1, m) /\ Len(written) \in Nat
  BY <1>1, LenProperties DEF GoodUpto
<1>3. Len(SubSeq(written, 1, m)) = m
  BY <1>2
<1>4. m = Len(written)
  BY <1>2, <1>3
<1>5. QED
  BY <1>1, <1>4 DEF GoodUpto

(* The file begins with the header and the first m records, whatever was   *)
(* written after them.                                                     *)
LEMMA StartsWithSound ==
  ASSUME NEW w \in Seq(Records), NEW n \in 0 .. Len(w), NEW m \in 0 .. n, NEW s \in Stretch,
         Starts(Header \o Upto(Codes(w), n), s)
  PROVE  Starts(Header \o Upto(Codes(w), m), s)
<1>1. Len(w) \in Nat /\ m \in 0 .. Len(w)
  BY LenProperties
<1>2. Codes(w) \in Seq(Stretch) /\ Len(Codes(w)) = Len(w)
  BY CodesFacts
<1>3. Starts(Upto(Codes(w), m), Upto(Codes(w), n))
  BY <1>2, UptoStarts
<1>4. Upto(Codes(w), m) \in Stretch /\ Upto(Codes(w), n) \in Stretch
  BY <1>1, StreamFacts
<1>5. Starts(Header \o Upto(Codes(w), m), Header \o Upto(Codes(w), n))
  BY <1>3, <1>4, HeaderFacts, StartsAfter
<1>6. Header \o Upto(Codes(w), m) \in Stretch /\ Header \o Upto(Codes(w), n) \in Stretch
  BY <1>4, HeaderFacts, ConcatAssociates
<1>7. QED
  BY <1>5, <1>6, StartsTrans

(* The cells after the records: nothing, or a part of the record begun.    *)
LEMMA LogIs ==
  ASSUME LogInv, ~overlapped, failedAt = RecordCap + 1, headerDone
  PROVE  \/ Inside = {} /\ log = Header \o (Upto(Codes(written), Len(written)) \o <<>>)
         \/ \E x \in Inside : /\ \A y \in Inside : y = x
                              /\ \E n \in 0 .. Len(Pieces(writing[x].rec)) - 1 : PiecesDone(x, n)
<1>1. LogTyped /\ TurnInv /\ FileInv
  BY DEF LogInv
<1>2. CASE Inside = {}
  <2> DEFINE w == Upto(Codes(written), Len(written))
  <2>1. log = Header \o w
    BY <1>1, <1>2 DEF FileInv, Whole
  <2>2. w \in Stretch
    <3>1. written \in Seq(Records) /\ Len(written) \in 0 .. Len(written)
      BY <1>1 DEF LogTyped
    <3>2. QED
      BY <3>1, StreamFacts
  <2> HIDE DEF w
  <2>3. w \o <<>> = w
    BY <2>2, ConcatEmptySeq DEF Stretch
  <2>4. log = Header \o (w \o <<>>)
    BY <2>1, <2>3
  <2>5. QED
    BY <1>2, <2>4 DEF w
<1>3. CASE Inside # {}
  <2>1. PICK x \in Inside : TRUE
    BY <1>3
  <2>2. \A y \in Inside : y = x
    BY <1>1 DEF TurnInv
  <2>3. \E n \in 0 .. Len(Pieces(writing[x].rec)) - 1 : PiecesDone(x, n)
    BY <1>1 DEF FileInv
  <2>4. QED
    BY <2>2, <2>3
<1>4. QED
  BY <1>2, <1>3

(* What the file began with when a write failed, or now if none has: the   *)
(* header and the records written by then.                                 *)
LEMMA LogStartsWith ==
  ASSUME LogInv, ~overlapped, NEW m \in Nat, GoodUpto(m), m > 0
  PROVE  Starts(Header \o Upto(Codes(written), m), log)
<1>1. LogTyped /\ TurnInv /\ FileInv /\ FailInv
  BY DEF LogInv
<1>2. log \in Stretch /\ written \in Seq(Records) /\ Len(written) \in Nat /\ failedAt \in 0 .. RecordCap + 1
      /\ RecordCap \in Nat
  BY <1>1, LenProperties, WidthPositive DEF LogTyped
<1>3. m \in 0 .. Len(written) /\ m <= failedAt
  <2>1. m \in 1 .. m
    OBVIOUS
  <2>2. QED
    BY <2>1 DEF GoodUpto
<1>4. CASE failedAt = RecordCap + 1
  <2> DEFINE n == Len(written)
             w == Upto(Codes(written), n)
  <2>1. written # <<>>
    BY <1>2, <1>3
  <2>2. headerDone
    BY <1>1, <1>4, <2>1 DEF FileInv
  <2>3. n \in 0 .. n /\ m \in 0 .. n /\ w \in Stretch
    <3>1. n \in 0 .. n
      BY <1>2
    <3>2. QED
      BY <1>2, <1>3, <3>1, StreamFacts
  <2>4. \E z \in Stretch : log = Header \o (w \o z)
    <3>1. CASE log = Header \o (w \o <<>>)
      <4>1. <<>> \in Stretch
        BY DEF Stretch
      <4>2. QED
        BY <3>1, <4>1
    <3>2. CASE \E x \in Inside : \E i \in 0 .. Len(Pieces(writing[x].rec)) - 1 : PiecesDone(x, i)
      <4>1. PICK x \in Inside : \E i \in 0 .. Len(Pieces(writing[x].rec)) - 1 : PiecesDone(x, i)
        BY <3>2
      <4> DEFINE p == Pieces(writing[x].rec)
      <4>2. PICK i \in 0 .. Len(p) - 1 : PiecesDone(x, i)
        BY <4>1
      <4>3. log = Header \o (w \o Upto(p, i))
        BY <4>2 DEF PiecesDone
      <4>4. p \in Seq(Stretch) /\ Len(p) \in 5 .. 7
        BY <1>1, InsideHas, PiecesFacts
      <4> HIDE DEF p
      <4>5. Upto(p, i) \in Stretch
        <5>1. i \in 0 .. Len(p)
          BY <4>4
        <5>2. QED
          BY <4>4, <5>1, UptoJoins
      <4>6. QED
        BY <4>3, <4>5
    <3>3. QED
      BY <1>4, <2>2, <3>1, <3>2, LogIs
  <2>5. PICK z \in Stretch : log = Header \o (w \o z)
    BY <2>4
  <2>6. Starts(Header \o w, log)
    <3> HIDE DEF w
    <3>1. log = (Header \o w) \o z /\ Header \o w \in Stretch
      BY <2>3, <2>5, HeaderFacts, ConcatAssociates
    <3>2. QED
      BY <3>1, StartsConcat
  <2>7. QED
    BY <1>2, <2>3, <2>6, StartsWithSound
<1>5. CASE failedAt # RecordCap + 1
  <2>1. failedAt <= Len(written) /\ failedAt \in 1 .. RecordCap /\ failedAt \in 0 .. Len(written)
        /\ m \in 0 .. failedAt
    BY <1>1, <1>2, <1>3, <1>5 DEF TurnInv
  <2>2. Starts(Header \o Upto(Codes(written), failedAt), log)
    BY <1>1, <2>1 DEF FailInv
  <2>3. QED
    BY <1>2, <2>1, <2>2, StartsWithSound
<1>6. QED
  BY <1>4, <1>5

(* The reader returns what is sound.                                       *)
LEMMA SoundIsRead ==
  ASSUME LogInv, ~overlapped
  PROVE  IsPrefix(Sound, ReadLog(log).recs)
<1>1. log \in Stretch /\ written \in Seq(Records) /\ failedAt \in Nat
  BY WidthPositive DEF LogInv, LogTyped
<1>2. PICK m \in Nat : GoodUpto(m)
  BY <1>1, SoundIs
<1>3. m \in 0 .. Len(written) /\ Sound = SubSeq(written, 1, m) /\ \A i \in 1 .. m : FitsWidth(written[i])
  BY <1>2 DEF GoodUpto
<1> DEFINE r == ReadLog(log).recs
<1>4. r \in Seq(Results) /\ Len(r) \in Nat
  BY <1>1, SomeRecords
<1>5. Starts(SubSeq(written, 1, m), r)
  <2>1. CASE m = 0
    <3>1. SubSeq(written, 1, 0) = <<>>
      BY <1>1
    <3> HIDE DEF r
    <3>2. Starts(<<>>, r)
      BY <1>4 DEF Starts
    <3>3. QED
      BY <2>1, <3>1, <3>2
  <2>2. CASE m > 0
    <3>1. Starts(Header \o Upto(Codes(written), m), log)
      BY <1>2, <2>2, LogStartsWith
    <3>2. QED
      BY <1>1, <1>3, <3>1, PrefixRead
  <2>3. QED
    BY <2>1, <2>2
<1>6. SubSeq(written, 1, m) \in Seq(Records)
  BY <1>1, <1>3
<1>7. QED
  BY <1>3, <1>4, <1>5, <1>6, PrefixIs

(* A piece of a record adds to what is there.                              *)
LEMMA PieceAdds ==
  ASSUME NEW p \in Seq(Stretch), NEW n \in 1 .. Len(p), p[n] # <<>>
  PROVE  /\ Upto(p, n) \in Stretch /\ Upto(p, n - 1) \in Stretch
         /\ Len(Upto(p, n - 1)) < Len(Upto(p, n)) /\ Upto(p, n) # <<>>
<1>1. n \in 0 .. Len(p) /\ n > 0
  BY LenProperties
<1>2. UptoAt(p, n)
  BY <1>1, UptoStep
<1> DEFINE a == Upto(p, n - 1)
           b == p[n]
           c == Upto(p, n)
<1>3. c = a \o b /\ a \in Stretch /\ b \in Stretch /\ c \in Stretch /\ b # <<>>
  BY <1>1, <1>2 DEF UptoAt
<1> HIDE DEF a, b, c
<1>4. Len(a) \in Nat /\ Len(b) \in Nat /\ Len(c) = Len(a) + Len(b)
  BY <1>3 DEF Stretch
<1>5. Len(b) # 0
  BY <1>3 DEF Stretch
<1>6. Len(a) < Len(c) /\ Len(c) # 0
  BY <1>4, <1>5
<1>7. c # <<>>
  BY <1>6
<1>8. QED
  BY <1>3, <1>6, <1>7 DEF a, c

(* A part of a record is cut short, and the whole of it is still to write  *)
(* exactly when nothing of it is there.                                    *)
LEMMA PartOfRecord ==
  ASSUME NEW rec \in Records, NEW n \in 0 .. Len(Pieces(rec)) - 1
  PROVE  LET p == Pieces(rec) IN
         /\ Upto(p, n) \in Stretch
         /\ n = 0 => DecodeRecord(Upto(p, n)).status = "eof" /\ SubSeq(p, n + 1, Len(p)) = p
         /\ n > 0 => DecodeRecord(Upto(p, n)).status = "truncated" /\ SubSeq(p, n + 1, Len(p)) # p
<1> DEFINE p == Pieces(rec)
           z == Upto(p, n)
<1>1. p \in Seq(Stretch) /\ Len(p) \in 5 .. 7 /\ \A i \in 1 .. Len(p) : p[i] # <<>>
  BY PiecesFacts
<1>2. Upto(p, Len(p)) = Code(rec)
  <2> HIDE DEF p
  <2>1. SubSeq(p, 1, Len(p)) = p
    BY <1>1, SubSeqFull
  <2>2. QED
    BY <2>1 DEF Upto, Code, p
<1> HIDE DEF p
<1>3. n \in 0 .. Len(p) - 1 /\ n \in 0 .. Len(p) /\ n + 1 \in 1 .. Len(p) /\ n + 1 \in 0 .. Len(p)
      /\ (n + 1) - 1 = n /\ Len(p) \in 0 .. Len(p)
  <2>1. n \in 0 .. Len(p) - 1
    BY DEF p
  <2>2. QED
    BY <1>1, <2>1
<1>4. z \in Stretch
  BY <1>1, <1>3, UptoJoins
<1>5. CASE n = 0
  <2>1. z = <<>>
    BY <1>1, <1>5, UptoJoins
  <2>2. <<>> \in Stretch
    BY DEF Stretch
  <2>3. DecodeRecord(z).status = "eof"
    BY <2>1, <2>2, AnyData
  <2>4. SubSeq(p, n + 1, Len(p)) = p
    BY <1>1, <1>5, SubSeqFull
  <2>5. QED
    BY <1>4, <1>5, <2>3, <2>4 DEF p
<1>6. CASE n > 0
  <2>1. n \in 1 .. Len(p) /\ n \in 0 .. n + 1
    BY <1>3, <1>6
  <2>2. z # <<>>
    BY <1>1, <2>1, PieceAdds
  <2>3. Len(z) < Len(Upto(p, n + 1))
    BY <1>1, <1>3, PieceAdds
  <2>4. Starts(Upto(p, n + 1), Code(rec))
    BY <1>1, <1>2, <1>3, UptoStarts
  <2>5. Starts(z, Code(rec))
    BY <1>1, <1>2, <1>3, UptoStarts
  <2>6. Len(z) < Len(Code(rec))
    <3>1. Upto(p, n + 1) \in Stretch /\ Code(rec) \in Stretch
      BY <1>1, <1>2, <1>3, UptoJoins
    <3> HIDE DEF z
    <3>2. Len(z) \in Nat /\ Len(Upto(p, n + 1)) \in Nat /\ Len(Code(rec)) \in Nat
      BY <1>4, <3>1, LenProperties DEF Stretch
    <3>3. Len(Upto(p, n + 1)) <= Len(Code(rec))
      BY <2>4 DEF Starts
    <3>4. QED
      BY <2>3, <3>2, <3>3 DEF z
  <2>7. DecodeRecord(z).status = "truncated"
    BY <1>4, <2>2, <2>5, <2>6, CutRecord
  <2>8. SubSeq(p, n + 1, Len(p)) # p
    <3> DEFINE m == Len(p)
    <3>1. Len(SubSeq(p, n + 1, m)) = m - n
      <4>1. Len(SubSeq(p, n + 1, m)) = IF n + 1 <= m THEN m - (n + 1) + 1 ELSE 0
        BY <1>1, <1>3
      <4>2. n + 1 <= m /\ m \in Nat
        BY <1>1, <1>3
      <4> HIDE DEF m
      <4>3. QED
        BY <1>3, <4>1, <4>2
    <3>2. m \in Nat
      BY <1>1
    <3> HIDE DEF m
    <3>3. m - n # m
      BY <1>6, <3>2
    <3>4. QED
      BY <3>1, <3>3 DEF m
  <2>9. QED
    BY <1>4, <1>6, <2>7, <2>8 DEF p
<1>7. QED
  <2>1. n = 0 \/ n > 0
    BY <1>3
  <2>2. QED
    BY <1>5, <1>6, <2>1

\* no record is half written
AtBoundary == log # <<>> /\ \A x \in Inside : writing[x].todo = Pieces(writing[x].rec)

(* When nothing failed and all fits, the reader returns exactly what was   *)
(* written, and log-dump sees whether a record is half written.            *)
LEMMA WholeIsRead ==
  ASSUME LogInv, ~overlapped, failedAt > RecordCap, Sound = written
  PROVE  ReadLog(log).recs = written /\ (LogDump(log).code = 0 <=> AtBoundary)
<1>1. LogTyped /\ FileInv
  BY DEF LogInv
<1>2. log \in Stretch /\ written \in Seq(Records) /\ failedAt \in Nat /\ failedAt = RecordCap + 1
  BY <1>1, WidthPositive DEF LogTyped
<1>3. \A i \in 1 .. Len(written) : FitsWidth(written[i])
  BY <1>2, AllSound DEF AllGood
<1>4. LogDump(log).code = 0 <=> ReadLog(log).status = "eof"
  BY DEF LogDump
<1>5. CASE ~headerDone
  <2>1. log = <<>> /\ written = <<>>
    BY <1>1, <1>2, <1>5 DEF FileInv
  <2>2. ReadLog(log) = [status |-> "truncated", recs |-> <<>>]
    <3>1. Len(<<>>) < Len(Header)
      BY HeaderFacts
    <3>2. QED
      BY <2>1, <3>1, Zenon DEF ReadLog
  <2>3. QED
    BY <1>4, <2>1, <2>2 DEF AtBoundary
<1>6. ASSUME headerDone, NEW z \in Stretch, DecodeRecord(z).status # "ok",
             log = Header \o (Upto(Codes(written), Len(written)) \o z)
      PROVE  ReadLog(log).recs = written /\ ReadLog(log).status = DecodeRecord(z).status /\ log # <<>>
  <2>1. ReadLog(log).recs = written /\ ReadLog(log).status = DecodeRecord(z).status
    BY <1>2, <1>3, <1>6, WholeRead
  <2>2. log # <<>>
    <3> DEFINE w == Upto(Codes(written), Len(written))
    <3>1. Len(written) \in 0 .. Len(written)
      BY <1>2, LenProperties
    <3>2. w \in Stretch
      BY <1>2, <3>1, StreamFacts
    <3> HIDE DEF w
    <3>3. w \o z \in Stretch
      BY <3>2, ConcatAssociates
    <3> DEFINE y == w \o z
    <3> HIDE DEF y
    <3>4. y \in Stretch /\ log = Header \o y
      BY <1>6, <3>3 DEF y, w
    <3>5. Len(log) = 4 + Len(y) /\ Len(y) \in Nat
      <4>1. Len(Header \o y) = Len(Header) + Len(y)
        BY <3>4, HeaderFacts, ConcatProperties DEF Stretch
      <4>2. Len(y) \in Nat
        BY <3>4 DEF Stretch
      <4>3. QED
        BY <3>4, <4>1, <4>2, HeaderFacts
    <3>6. Len(log) # 0
      BY <3>5
    <3>7. QED
      BY <3>6
  <2>3. QED
    BY <2>1, <2>2
<1>7. CASE headerDone /\ Inside = {} /\ log = Header \o (Upto(Codes(written), Len(written)) \o <<>>)
  <2>1. <<>> \in Stretch
    BY DEF Stretch
  <2>2. DecodeRecord(<<>>).status = "eof"
    BY <2>1, AnyData
  <2>3. ReadLog(log).recs = written /\ ReadLog(log).status = "eof" /\ log # <<>>
    BY <1>6, <1>7, <2>1, <2>2
  <2>4. QED
    BY <1>4, <1>7, <2>3 DEF AtBoundary
<1>8. ASSUME headerDone, NEW x \in Inside, \A y \in Inside : y = x,
             NEW n \in 0 .. Len(Pieces(writing[x].rec)) - 1, PiecesDone(x, n)
      PROVE  ReadLog(log).recs = written /\ (LogDump(log).code = 0 <=> AtBoundary)
  <2> DEFINE p == Pieces(writing[x].rec)
             z == Upto(p, n)
  <2>1. writing[x].rec \in Records
    BY <1>1, InsideHas
  <2>2. /\ z \in Stretch
        /\ n = 0 => DecodeRecord(z).status = "eof" /\ SubSeq(p, n + 1, Len(p)) = p
        /\ n > 0 => DecodeRecord(z).status = "truncated" /\ SubSeq(p, n + 1, Len(p)) # p
    BY <2>1, PartOfRecord
  <2>3. /\ writing[x].todo = SubSeq(p, n + 1, Len(p))
        /\ log = Header \o (Upto(Codes(written), Len(written)) \o z)
    BY <1>8 DEF PiecesDone
  <2>4. AtBoundary <=> log # <<>> /\ writing[x].todo = p
    BY <1>8 DEF AtBoundary
  <2> HIDE DEF p, z
  <2>5. n \in 0 .. 7
    <3>1. Len(p) \in 5 .. 7
      BY <2>1, PiecesFacts DEF p
    <3> DEFINE m == Len(p)
    <3> HIDE DEF m
    <3>2. n \in 0 .. m - 1 /\ m \in 5 .. 7
      BY <3>1 DEF m, p
    <3>3. QED
      BY <3>2
  <2>6. n = 0 \/ n > 0
    BY <2>5
  <2>7. DecodeRecord(z).status # "ok"
    BY <2>2, <2>6
  <2>8. ReadLog(log).recs = written /\ ReadLog(log).status = DecodeRecord(z).status /\ log # <<>>
    BY <1>6, <1>8, <2>2, <2>3, <2>7
  <2>9. QED
    BY <1>4, <2>2, <2>3, <2>4, <2>6, <2>8
<1>9. QED
  BY <1>1, <1>2, <1>5, <1>7, <1>8, LogIs

(* Whatever suites write, whatever their records hold, and wherever the    *)
(* file is cut, the reader returns what was soundly written (tlv.go:114-   *)
(* 184); with no failure and no text too long it returns exactly that, and *)
(* log-dump exits with OK exactly when no record is half written.          *)
THEOREM LogIsReadable == LogSpec => []LogReadable
<1>1. LogInv => LogReadable
  <2> SUFFICES ASSUME LogInv, ~overlapped
               PROVE  /\ IsPrefix(Sound, ReadLog(log).recs)
                      /\ failedAt > RecordCap /\ Sound = written =>
                           /\ ReadLog(log).recs = written
                           /\ LogDump(log).code = 0 <=> AtBoundary
    BY DEF LogReadable, AtBoundary
  <2>1. QED
    BY SoundIsRead, WholeIsRead
<1>2. QED
  BY <1>1, LogInvariant, PTL
-----------------------------------------------------------------------------
(* Assertions.                                                             *)

(* What the builder refuses of the operators whose verdicts are compared,  *)
(* and what Evaluate then says of each (DefaultBuilder.Build and the       *)
(* Evaluate methods of core/assertion).                                    *)
LEMMA EqualityVerdicts ==
  ASSUME NEW e, NEW x
  PROVE  /\ Verdict("eq", e, x) = IF Panics(e, x) THEN "panic"
                                  ELSE IF Equal(e, x) THEN "pass" ELSE "fail"
         /\ Verdict("neq", e, x) = IF Panics(e, x) THEN "panic"
                                   ELSE IF NotEqual(e, x) THEN "pass" ELSE "fail"
         /\ Verdict("deep_equal", e, x) = IF DeepEqual(e, x) THEN "pass" ELSE "fail"
BY DEF Verdict, Builds, Operators, TextOps, InnerOps

LEMMA OrderVerdicts ==
  ASSUME NEW e, NEW x
  PROVE  /\ Verdict("gt", e, x) = IF GreaterThan(e, x) THEN "pass" ELSE "fail"
         /\ Verdict("gte", e, x) = IF GreaterOrEqual(e, x) THEN "pass" ELSE "fail"
         /\ Verdict("lt", e, x) = IF LessThan(e, x) THEN "pass" ELSE "fail"
         /\ Verdict("lte", e, x) = IF LessOrEqual(e, x) THEN "pass" ELSE "fail"
BY DEF Verdict, Builds, Operators, TextOps, InnerOps

LEMMA TextVerdicts ==
  ASSUME NEW e, NEW x
  PROVE  \A op \in {"contains", "not_contains", "has_prefix", "has_suffix"} :
           Verdict(op, e, x) =
             IF e.type # "string" THEN "refused"
             ELSE IF CASE op = "contains" -> ContainsText(e, x)
                       [] op = "not_contains" -> NotContains(e, x)
                       [] op = "has_prefix" -> HasPrefix(e, x)
                       [] op = "has_suffix" -> HasSuffix(e, x)
                  THEN "pass" ELSE "fail"
<1>. DEFINE V(op, p) == Verdict(op, e, x) = IF e.type # "string" THEN "refused" ELSE IF p THEN "pass" ELSE "fail"
<1>1. V("contains", ContainsText(e, x))
  BY DEF Verdict, Builds, Operators, TextOps, InnerOps
<1>2. V("not_contains", NotContains(e, x))
  BY DEF Verdict, Builds, Operators, TextOps, InnerOps
<1>3. V("has_prefix", HasPrefix(e, x))
  BY DEF Verdict, Builds, Operators, TextOps, InnerOps
<1>4. V("has_suffix", HasSuffix(e, x))
  BY DEF Verdict, Builds, Operators, TextOps, InnerOps
<1>. QED
  BY <1>1, <1>2, <1>3, <1>4

LEMMA SizeVerdicts ==
  ASSUME NEW e, NEW x
  PROVE  /\ Verdict("empty", e, x) = IF Empty(x) THEN "pass" ELSE "fail"
         /\ Verdict("collection_not_empty", e, x) = IF CollectionNotEmpty(x) THEN "pass" ELSE "fail"
         /\ Verdict("not_empty", e, x) = IF NotEmpty(x) THEN "pass" ELSE "fail"
         /\ HasInt(e) => Verdict("length", e, x) = IF LengthIs(e, x) THEN "pass" ELSE "fail"
BY DEF Verdict, Builds, Operators, TextOps, InnerOps

(* A number is a float, however it is stored (toFloat64, numeric.go).      *)
LEMMA FloatIsInt ==
  ASSUME NEW x, x.num \in Int
  PROVE  FloatOf(x) \in Int
BY ValuesAssumption DEF FloatOf

(* A value has a size (the reflect lengths of collection.go).              *)
LEMMA SizeIsNat ==
  ASSUME NEW x, Shaped(x)
  PROVE  Size(x) \in Nat
<1>1. Len(x.text) \in Nat /\ Len(x.items) \in Nat
  BY DEF Shaped
<1>2. Cardinality(DOMAIN x.fields) \in Nat
  BY FS_CardinalityType DEF Shaped
<1>3. \A i, j, k \in Nat : i + j + k \in Nat
  OBVIOUS
<1>4. Len(x.text) + Len(x.items) + Cardinality(DOMAIN x.fields) \in Nat
  BY <1>1, <1>2, <1>3, Zenon
<1>. QED
  BY <1>4 DEF Size

Passes(op, e, x) == Verdict(op, e, x) = "pass"

(* The verdict on one element does not depend on the others: opposite      *)
(* operators never both accept (numeric.go, equality.go, contains.go,      *)
(* collection.go).                                                         *)
LEMMA NeverBoth ==
  ASSUME NEW e, NEW x, e.num \in Int, x.num \in Int, NEW pair \in Opposites
  PROVE  ~(Passes(pair[1], e, x) /\ Passes(pair[2], e, x))
<1>1. FloatOf(e) \in Int /\ FloatOf(x) \in Int
  BY FloatIsInt
<1>2. ~(Passes("eq", e, x) /\ Passes("neq", e, x))
  BY EqualityVerdicts DEF Passes, Equal, NotEqual
<1>3. ~(Passes("contains", e, x) /\ Passes("not_contains", e, x))
  BY TextVerdicts DEF Passes, ContainsText, NotContains
<1>4. ~(Passes("empty", e, x) /\ Passes("collection_not_empty", e, x))
  <2>1. ~Sized(Nil)
    BY DEF Sized, Nil
  <2>. QED
    BY <2>1, SizeVerdicts DEF Passes, Empty, CollectionNotEmpty
<1>5. ~(Passes("gt", e, x) /\ Passes("lte", e, x))
  BY <1>1, OrderVerdicts DEF Passes, GreaterThan, LessOrEqual
<1>6. ~(Passes("lt", e, x) /\ Passes("gte", e, x))
  BY <1>1, OrderVerdicts DEF Passes, LessThan, GreaterOrEqual
<1>. QED
  BY <1>2, <1>3, <1>4, <1>5, <1>6 DEF Opposites

(* Opposite operators panic on the same values (equality.go:20,40).        *)
LEMMA PanicTogether ==
  ASSUME NEW e, NEW x, NEW pair \in Opposites
  PROVE  Verdict(pair[1], e, x) = "panic" <=> Verdict(pair[2], e, x) = "panic"
<1>1. Verdict("eq", e, x) = "panic" <=> Verdict("neq", e, x) = "panic"
  BY EqualityVerdicts
<1>2. \A op \in {"contains", "not_contains", "has_prefix", "has_suffix"} :
        Verdict(op, e, x) # "panic"
  BY TextVerdicts
<1>3. \A op \in {"empty", "collection_not_empty", "gt", "gte", "lt", "lte"} :
        Verdict(op, e, x) # "panic"
  BY SizeVerdicts, OrderVerdicts
<1>. QED
  BY <1>1, <1>2, <1>3 DEF Opposites

(* Of opposite operators one accepts a value of the type they are for.     *)
LEMMA EitherAccepts ==
  ASSUME NEW e, NEW x, Shaped(e), Shaped(x), NEW pair \in Opposites,
         pair[1] \in {"gt", "lt", "gte", "lte"} => BothNumeric(e, x),
         pair[1] = "contains" => x.type = "string" /\ e.type = "string",
         pair[1] = "empty" => Sized(x),
         Verdict(pair[1], e, x) # "panic"
  PROVE  Passes(pair[1], e, x) \/ Passes(pair[2], e, x)
<1>1. FloatOf(e) \in Int /\ FloatOf(x) \in Int
  BY FloatIsInt DEF Shaped
<1>2. CASE pair = <<"eq", "neq">>
  BY <1>2, EqualityVerdicts DEF Passes, Equal, NotEqual
<1>3. CASE pair = <<"contains", "not_contains">>
  BY <1>3, TextVerdicts DEF Passes, ContainsText, NotContains
<1>4. CASE pair = <<"empty", "collection_not_empty">>
  <2>1. Size(x) = 0 \/ Size(x) > 0
    BY SizeIsNat
  <2>. QED
    BY <1>4, <2>1, SizeVerdicts DEF Passes, Empty, CollectionNotEmpty
<1>5. CASE pair = <<"gt", "lte">>
  BY <1>1, <1>5, OrderVerdicts DEF Passes, GreaterThan, LessOrEqual
<1>6. CASE pair = <<"lt", "gte">>
  BY <1>1, <1>6, OrderVerdicts DEF Passes, LessThan, GreaterOrEqual
<1>. QED
  BY <1>2, <1>3, <1>4, <1>5, <1>6 DEF Opposites

(* What all elements satisfy, none satisfies the opposite of               *)
(* (collection.go: EachAssertion, AnyAssertion, AllAssertion).             *)
LEMMA ElementsOpposed ==
  ASSUME NEW e, NEW x, Shaped(e), WellShaped(x), NEW pair \in Opposites
  PROVE  LET Accepted(op) == {i \in DOMAIN x.items : Passes(op, e, x.items[i])} IN
         /\ EachOf(Accepted(pair[1]), x) => ~AnyOf(Accepted(pair[2]), x)
         /\ AllOf(Accepted(pair[1]), x) <=> EachOf(Accepted(pair[1]), x)
<1>1. \A i \in DOMAIN x.items : ~(Passes(pair[1], e, x.items[i]) /\ Passes(pair[2], e, x.items[i]))
  BY NeverBoth DEF WellShaped, Shaped
<1>. QED
  BY <1>1 DEF EachOf, AnyOf, AllOf

(* One number is above, at or below another, rounding included             *)
(* (numeric.go, equality.go).                                              *)
LEMMA OneOrder ==
  ASSUME NEW e, NEW x, e.num \in Int, x.num \in Int, BothNumeric(e, x)
  PROVE  Cardinality({op \in {"gt", "eq", "lt"} : Passes(op, e, x)}) = 1
<1>1. FloatOf(e) \in Int /\ FloatOf(x) \in Int
  BY FloatIsInt
<1>2. ~Panics(e, x)
  BY DEF Panics, BothNumeric, Numeric
<1>3. Passes("gt", e, x) <=> FloatOf(x) > FloatOf(e)
  BY OrderVerdicts DEF Passes, GreaterThan
<1>4. Passes("lt", e, x) <=> FloatOf(x) < FloatOf(e)
  BY OrderVerdicts DEF Passes, LessThan
<1>5. Passes("eq", e, x) <=> FloatOf(x) = FloatOf(e)
  BY <1>2, EqualityVerdicts DEF Passes, Equal, NumericEqual
<1>6. \E one : {op \in {"gt", "eq", "lt"} : Passes(op, e, x)} = {one}
  <2>1. CASE FloatOf(x) > FloatOf(e)
    <3>1. Passes("gt", e, x) /\ ~Passes("eq", e, x) /\ ~Passes("lt", e, x)
      BY <1>1, <1>3, <1>4, <1>5, <2>1
    <3>. QED
      BY <3>1
  <2>2. CASE FloatOf(x) < FloatOf(e)
    <3>1. ~Passes("gt", e, x) /\ ~Passes("eq", e, x) /\ Passes("lt", e, x)
      BY <1>1, <1>3, <1>4, <1>5, <2>2
    <3>. QED
      BY <3>1
  <2>3. CASE FloatOf(x) = FloatOf(e)
    <3>1. ~Passes("gt", e, x) /\ Passes("eq", e, x) /\ ~Passes("lt", e, x)
      BY <1>1, <1>3, <1>4, <1>5, <2>3
    <3>. QED
      BY <3>1
  <2>4. FloatOf(x) > FloatOf(e) \/ FloatOf(x) < FloatOf(e) \/ FloatOf(x) = FloatOf(e)
    BY <1>1
  <2>. QED
    BY <2>1, <2>2, <2>3, <2>4, Zenon
<1>. QED
  BY <1>6, FS_Singleton

(* The range between two bounds is what is above the one and below the     *)
(* other (numeric.go: InRange).                                            *)
LEMMA RangeIsOrder ==
  ASSUME NEW e, NEW x, NEW hi
  PROVE  InRange(e, hi, x) <=> Passes("gte", e, x) /\ Passes("lte", hi, x)
BY OrderVerdicts DEF Passes, InRange, GreaterOrEqual, LessOrEqual, BothNumeric

(* The ways to ask for the size of a value agree (collection.go).          *)
LEMMA SizesAgree ==
  ASSUME NEW e, NEW x
  PROVE  /\ Passes("empty", e, x) <=> Passes("length", Number("int", 0), x)
         /\ Passes("empty", e, x) => ~Passes("not_empty", e, x)
         /\ Passes("collection_not_empty", e, x) => Passes("not_empty", e, x)
<1>1. HasInt(Number("int", 0)) /\ IntOf(Number("int", 0)) = 0
  BY DEF HasInt, IntOf, Number, Nil
<1>2. ~Sized(Nil)
  BY DEF Sized, Nil
<1>3. Passes("empty", e, x) <=> x = Nil \/ (Sized(x) /\ Size(x) = 0)
  BY SizeVerdicts DEF Passes, Empty
<1>4. Passes("length", Number("int", 0), x) <=> x = Nil \/ (Sized(x) /\ Size(x) = 0)
  BY <1>1, SizeVerdicts DEF Passes, LengthIs
<1>5. Passes("not_empty", e, x) <=> x # Nil /\ (Sized(x) => Size(x) > 0)
  BY SizeVerdicts DEF Passes, NotEmpty
<1>6. Passes("collection_not_empty", e, x) <=> Sized(x) /\ Size(x) > 0
  BY SizeVerdicts DEF Passes, CollectionNotEmpty
<1>. QED
  BY <1>2, <1>3, <1>4, <1>5, <1>6

\* what the maps of Y hold under a key
Under(Y, key) == {y.fields[key] : y \in {z \in Y : z.type = "map" /\ key \in DOMAIN z.fields}}

(* A path of two keys leads through two maps (json.go:60-76).              *)
LEMMA PathOfTwo ==
  ASSUME NEW x
  PROVE  ExtractPath(x, <<"a", "b">>) = Under(Under({x}, "a"), "b")
<1>. DEFINE path == <<"a", "b">>
            Evaluates(f) == f = [k \in 0 .. 2 |-> IF k = 0 THEN {x} ELSE Under(f[k - 1], path[k])]
            found == CHOOSE f : Evaluates(f)
            f == [k \in 0 .. 2 |-> IF k = 0 THEN {x} ELSE IF k = 1 THEN Under({x}, "a")
                                    ELSE Under(Under({x}, "a"), "b")]
<1>1. Len(path) = 2 /\ path[1] = "a" /\ path[2] = "b"
  OBVIOUS
<1>2. ExtractPath(x, path) = found[2]
  BY <1>1 DEF ExtractPath, Under
<1>. HIDE DEF path
<1>3. Evaluates(f)
  <2>1. \A k \in 0 .. 2 : f[k] = IF k = 0 THEN {x} ELSE Under(f[k - 1], path[k])
    <3>1. f[0] = {x} /\ f[1] = Under({x}, "a") /\ f[2] = Under(Under({x}, "a"), "b")
      OBVIOUS
    <3>2. \A k \in 0 .. 2 : k = 0 \/ k = 1 \/ k = 2
      OBVIOUS
    <3>. HIDE DEF f
    <3>. QED
      BY <1>1, <3>1, <3>2
  <2>. QED
    BY <2>1
<1>4. Evaluates(found)
  BY <1>3, Zenon
<1>5. found[0] = {x} /\ found[1] = Under(found[0], path[1]) /\ found[2] = Under(found[1], path[2])
  <2>. HIDE DEF found
  <2>. QED
    BY <1>4
<1>. QED
  BY <1>1, <1>2, <1>5, Zenon DEF path

(* A comparison at the end of a path is the comparison of what is there;   *)
(* nothing but a map has a path (json.go:20-76).                           *)
LEMMA PathsCompare ==
  ASSUME NEW e, NEW x
  PROVE  /\ JSONPath(<<"a", "b">>, e, Map([a |-> Map([b |-> x])]))
              <=> Passes("deep_equal", e, x) \/ NumericEqual(e, x)
         /\ JSONPath(<<"a", "b">>, e, x) => x.type = "map"
<1>1. \A fields : Map(fields).type = "map" /\ Map(fields).fields = fields
  BY DEF Map, Nil
<1>2. Passes("deep_equal", e, x) <=> DeepEqual(e, x)
  BY EqualityVerdicts DEF Passes
<1>3. ExtractPath(Map([a |-> Map([b |-> x])]), <<"a", "b">>) = {x}
  <2>. DEFINE in == Map([b |-> x])  out == Map([a |-> in])
  <2>1. in.type = "map" /\ in.fields = [b |-> x] /\ out.type = "map" /\ out.fields = [a |-> in]
    BY <1>1
  <2>2. DOMAIN in.fields = {"b"} /\ in.fields["b"] = x
    BY <2>1
  <2>3. DOMAIN out.fields = {"a"} /\ out.fields["a"] = in
    BY <2>1
  <2>. HIDE DEF in, out
  <2>4. ExtractPath(out, <<"a", "b">>) = {x}
    BY <2>1, <2>2, <2>3, PathOfTwo DEF Under
  <2>. QED
    BY <2>4 DEF in, out
<1>4. ExtractPath(x, <<"a", "b">>) # {} => x.type = "map"
  BY PathOfTwo DEF Under
<1>. QED
  BY <1>2, <1>3, <1>4 DEF JSONPath

(* A text that begins or ends with another contains it (contains.go).      *)
LEMMA EndsAreParts ==
  ASSUME NEW s \in Seq(STRING), NEW t \in Seq(STRING), IsPrefix(s, t) \/ IsSuffix(s, t)
  PROVE  Occurs(s, t)
<1>1. CASE IsPrefix(s, t)
  <2>1. Len(s) <= Len(t) /\ SubSeq(s, 1, Len(s)) = SubSeq(t, 1, Len(s))
    BY <1>1 DEF IsPrefix
  <2>2. SubSeq(s, 1, Len(s)) = s
    OBVIOUS
  <2>3. 0 \in 0 .. Len(t) - Len(s) /\ SubSeq(t, 0 + 1, 0 + Len(s)) = s
    BY <2>1, <2>2
  <2>. QED
    BY <2>3 DEF Occurs
<1>2. CASE IsSuffix(s, t)
  <2>. DEFINE n == Len(s)  m == Len(t)  i == m - n
  <2>1. n \in Nat /\ m \in Nat
    OBVIOUS
  <2>2. Len(Reverse(s)) = n /\ Len(Reverse(t)) = m
    BY DEF Reverse
  <2>3. n <= m /\ SubSeq(Reverse(s), 1, n) = SubSeq(Reverse(t), 1, n)
    BY <1>2, <2>2 DEF IsSuffix, IsPrefix
  <2>4. \A k \in 1 .. n : s[n - k + 1] = t[m - k + 1]
    <3>. SUFFICES ASSUME NEW k \in 1 .. n PROVE s[n - k + 1] = t[m - k + 1]
      OBVIOUS
    <3>1. SubSeq(Reverse(s), 1, n)[k] = s[n - k + 1]
      BY DEF Reverse
    <3>2. SubSeq(Reverse(t), 1, n)[k] = t[m - k + 1]
      BY <2>3 DEF Reverse
    <3>. QED
      BY <2>3, <3>1, <3>2
  <2>5. \A j \in 1 .. n : t[i + j] = s[j]
    <3>. SUFFICES ASSUME NEW j \in 1 .. n PROVE t[i + j] = s[j]
      OBVIOUS
    <3>1. n - j + 1 \in 1 .. n /\ n - (n - j + 1) + 1 = j /\ m - (n - j + 1) + 1 = i + j
      BY <2>1
    <3>. QED
      BY <2>4, <3>1
  <2>6. SubSeq(t, i + 1, i + n) = s
    BY <2>1, <2>3, <2>5
  <2>7. i \in 0 .. m - n
    BY <2>1, <2>3
  <2>. QED
    BY <2>6, <2>7 DEF Occurs
<1>. QED
  BY <1>1, <1>2

LEMMA EndsPassAsParts ==
  ASSUME NEW e, NEW x, Shaped(e), Shaped(x),
         Passes("has_prefix", e, x) \/ Passes("has_suffix", e, x)
  PROVE  Passes("contains", e, x)
<1>1. e.text \in Seq(STRING) /\ x.text \in Seq(STRING)
  BY DEF Shaped
<1>2. e.type = "string" /\ (HasPrefix(e, x) \/ HasSuffix(e, x))
  BY TextVerdicts DEF Passes
<1>3. ContainsText(e, x)
  BY <1>1, <1>2, EndsAreParts DEF HasPrefix, HasSuffix, ContainsText
<1>. QED
  BY <1>2, <1>3, TextVerdicts DEF Passes

(* What a header is, it has in it, and then it is there; the case of its   *)
(* name does not matter (header.go).                                       *)
LEMMA HeadersAgree ==
  ASSUME NEW e, NEW h, e.text \in Seq(STRING)
  PROVE  /\ HeaderEquals("H", e, h) => HeaderContains("h", e, h)
         /\ HeaderContains("h", e, h) => HeaderExists("H", h)
<1>1. Lower("H") = "h" /\ Lower("h") = "h"
  BY DEF Lower
<1>2. Occurs(e.text, e.text)
  <2>1. IsPrefix(e.text, e.text)
    BY DEF IsPrefix
  <2>. QED
    BY <2>1, EndsAreParts
<1>. QED
  BY <1>1, <1>2 DEF HeaderEquals, HeaderContains, HeaderExists

(* A status equal to the expected one is of the same class (status.go).    *)
LEMMA StatusesAgree ==
  ASSUME NEW e, NEW x, HasInt(e), HasInt(x), StatusCode(e, x)
  PROVE  \A class \in Classes : StatusClass(class, x) <=> StatusClass(class, e)
<1>1. IntOf(x) = IntOf(e)
  BY DEF StatusCode
<1>. QED
  BY <1>1 DEF StatusClass

(* The verdicts of the operators fit together, for any values that a suite *)
(* file and a result can hold (core/assertion).                            *)
LEMMA VerdictsAgree ==
  ASSUME NEW e, NEW x, NEW hi, WellShaped(e), WellShaped(x), WellShaped(hi)
  PROVE  AssertionsAgree(e, x, hi)
<1>1. Shaped(e) /\ Shaped(x) /\ e.num \in Int /\ x.num \in Int /\ e.text \in Seq(STRING)
  BY DEF WellShaped, Shaped
<1>. DEFINE Accepted(op) == {i \in DOMAIN x.items : Passes(op, e, x.items[i])}
            Right(op) == op \in {"gt", "lt", "gte", "lte"} => BothNumeric(e, x)
<1>2. ASSUME NEW pair \in Opposites
      PROVE  /\ ~(Passes(pair[1], e, x) /\ Passes(pair[2], e, x))
             /\ Verdict(pair[1], e, x) = "panic" <=> Verdict(pair[2], e, x) = "panic"
             /\ Right(pair[1]) /\ (pair[1] = "contains" => x.type = "string" /\ e.type = "string")
                  /\ (pair[1] = "empty" => Sized(x)) /\ Verdict(pair[1], e, x) # "panic"
                => Passes(pair[1], e, x) \/ Passes(pair[2], e, x)
             /\ EachOf(Accepted(pair[1]), x) => ~AnyOf(Accepted(pair[2]), x)
             /\ AllOf(Accepted(pair[1]), x) <=> EachOf(Accepted(pair[1]), x)
  <2>1. ~(Passes(pair[1], e, x) /\ Passes(pair[2], e, x))
    BY <1>1, NeverBoth
  <2>2. Verdict(pair[1], e, x) = "panic" <=> Verdict(pair[2], e, x) = "panic"
    BY PanicTogether
  <2>3. Right(pair[1]) /\ (pair[1] = "contains" => x.type = "string" /\ e.type = "string")
          /\ (pair[1] = "empty" => Sized(x)) /\ Verdict(pair[1], e, x) # "panic"
        => Passes(pair[1], e, x) \/ Passes(pair[2], e, x)
    BY <1>1, EitherAccepts, Zenon
  <2>4. /\ EachOf(Accepted(pair[1]), x) => ~AnyOf(Accepted(pair[2]), x)
        /\ AllOf(Accepted(pair[1]), x) <=> EachOf(Accepted(pair[1]), x)
    BY <1>1, ElementsOpposed, Zenon
  <2>. QED
    BY <2>1, <2>2, <2>3, <2>4, Zenon
<1>3. BothNumeric(e, x) => Cardinality({op \in {"gt", "eq", "lt"} : Passes(op, e, x)}) = 1
  BY <1>1, OneOrder, Zenon
<1>4. InRange(e, hi, x) <=> Passes("gte", e, x) /\ Verdict("lte", hi, x) = "pass"
  BY RangeIsOrder, Zenon DEF Passes
<1>5. Passes("deep_equal", e, x) => Passes("eq", e, x) \/ Verdict("eq", e, x) = "panic"
  BY EqualityVerdicts DEF Passes, DeepEqual, Equal
<1>6. /\ JSONPath(<<"a", "b">>, e, Map([a |-> Map([b |-> x])]))
           <=> Passes("deep_equal", e, x) \/ NumericEqual(e, x)
      /\ JSONPath(<<"a", "b">>, e, x) => x.type = "map"
  BY PathsCompare, Zenon
<1>7. Passes("has_prefix", e, x) \/ Passes("has_suffix", e, x) => Passes("contains", e, x)
  BY <1>1, EndsPassAsParts, Zenon
<1>8. /\ Passes("empty", e, x) <=> Verdict("length", Number("int", 0), x) = "pass"
      /\ Passes("empty", e, x) => ~Passes("not_empty", e, x)
      /\ Passes("collection_not_empty", e, x) => Passes("not_empty", e, x)
  BY SizesAgree, Zenon DEF Passes
<1>9. \A h \in HeaderMaps(x) :
        /\ HeaderEquals("H", e, h) => HeaderContains("h", e, h)
        /\ HeaderContains("h", e, h) => HeaderExists("H", h)
  BY <1>1, HeadersAgree, Zenon
<1>10. HasInt(e) /\ HasInt(x) /\ StatusCode(e, x) =>
         \A class \in Classes : StatusClass(class, x) <=> StatusClass(class, e)
  BY StatusesAgree, Zenon
<1>. HIDE DEF Right, Accepted
<1>. QED
  BY <1>2, <1>3, <1>4, <1>5, <1>6, <1>7, <1>8, <1>9, <1>10, Zenon
     DEF AssertionsAgree, Passes, Right, Accepted

(* Whatever a suite file expects and a result holds, the verdicts of the   *)
(* operators of core/assertion never contradict one another.               *)
THEOREM AssertionsFitTogether == AssertionSpec => []AssertionsHold
<1>. DEFINE Typed == Of("assertion") => WellShaped(input.e) /\ WellShaped(input.x) /\ WellShaped(input.hi)
<1>1. Typed => AssertionsHold
  BY VerdictsAgree DEF AssertionsHold
<1>2. Typed /\ UNCHANGED input => Typed'
  <2>1. input' = input => (Typed <=> Typed')
    BY Zenon DEF Of
  <2>. QED
    BY <2>1, Zenon
<1>. HIDE DEF Typed
<1>. QED
  BY <1>1, <1>2, PTL DEF AssertionSpec, Typed
-----------------------------------------------------------------------------
(* The run command.                                                        *)

(* The flags are read once, or the command stops (flags.go:19-61).         *)
LEMMA OneReading ==
  ASSUME NEW args, NEW f \in ParseFlags(args)
  PROVE  ParseFlags(args) = {f}
<1>. DEFINE given == CHOOSE g : ParseFlags(args) = {g}
<1>1. \E g : ParseFlags(args) = {g}
  BY DEF ParseFlags
<1>. QED
  BY <1>1

(* The file is read once, and what is read has a value for every key of    *)
(* Defaults; the threshold is a number when that of the file is.           *)
(* (config.go:22-35)                                                       *)
LEMMA OneConfig ==
  ASSUME NEW files, NEW path, NEW c \in Load(files, path),
         \A p \in DOMAIN files :
           "threshold" \in DOMAIN files[p] => files[p].threshold \in Int
  PROVE  Load(files, path) = {c} /\ c.threshold \in Int /\ DOMAIN c = DOMAIN Defaults
<1>. DEFINE name == IF path = "" THEN "scrutineer.yaml" ELSE path
            read(p) == [key \in DOMAIN Defaults |->
                          IF key \in DOMAIN files[p] THEN files[p][key] ELSE Defaults[key]]
<1>1. Load(files, path) = {read(p) : p \in DOMAIN files \cap {name}}
  BY DEF Load
<1>2. name \in DOMAIN files /\ c = read(name)
  BY <1>1
<1>3. Load(files, path) = {c}
  BY <1>1, <1>2
<1>4. "threshold" \in DOMAIN Defaults /\ Defaults["threshold"] \in Int
  BY DEF Defaults
<1>5. c["threshold"] = IF "threshold" \in DOMAIN files[name] THEN files[name]["threshold"]
                       ELSE Defaults["threshold"]
  BY <1>2, <1>4
<1>6. c["threshold"] \in Int
  BY <1>2, <1>4, <1>5
<1>. QED
  BY <1>2, <1>3, <1>6

(* A flag never changes the threshold (config.go:37-63).                   *)
LEMMA MergeKeepsThreshold ==
  ASSUME NEW c, NEW flags, DOMAIN c = DOMAIN Defaults
  PROVE  Merge(c, flags).threshold = c.threshold
<1>1. "threshold" \in DOMAIN c
  BY DEF Defaults
<1>. QED
  BY <1>1 DEF Merge

(* The gate turns a success below the threshold into a failure, and        *)
(* nothing else (run.go:99-107).                                           *)
LEMMA GateFacts ==
  ASSUME NEW code \in {OK, TestFailure}, NEW cfg, cfg.threshold \in Int, NEW covered \in Nat
  PROVE  /\ Gate(code, cfg, covered) \in {OK, TestFailure}
         /\ code = TestFailure => Gate(code, cfg, covered) = TestFailure
         /\ Gate(code, cfg, covered) = OK =>
              code = OK /\ (cfg.threshold = 0 \/ covered >= cfg.threshold)
BY DEF Gate, OK, TestFailure

(* A run that was stopped ran nothing, and says so.                        *)
LEMMA StoppedFacts ==
  ASSUME NEW code \in {ConfigError, InternalError}
  PROVE  /\ Stopped(code).ran = <<>> /\ Stopped(code).code = code
         /\ code \notin {OK, TestFailure} /\ ToSet(<<>>) = {}
BY DEF Stopped, ConfigError, InternalError, OK, TestFailure, ToSet

(* cmdRun, seen from its end: it was stopped, or the configuration it read *)
(* names suites that all load, and the tests and the gate gave the code    *)
(* (run.go:22-110).                                                        *)
RunToItsEnd(files, args, failing, covered, run, f, c) ==
  LET cfg == Merge(c, f) IN
  /\ ParseFlags(args) = {f} /\ Load(files, f.config) = {c}
  /\ run.ran = cfg.tests /\ cfg.tests # <<>> /\ ToSet(cfg.tests) \subseteq DOMAIN Files
  /\ run.code = Gate(IF ToSet(cfg.tests) \cap failing # {} THEN TestFailure ELSE OK, cfg, covered)

LEMMA RunEndsOneWay ==
  ASSUME NEW files, NEW args, NEW writable, NEW failing, NEW covered,
         \A p \in DOMAIN files :
           "threshold" \in DOMAIN files[p] => files[p].threshold \in Int
  PROVE  LET run == CmdRun(files, args, writable, failing, covered) IN
         \/ \E code \in {ConfigError, InternalError} : run = Stopped(code)
         \/ \E f \in ParseFlags(args) : \E c \in Load(files, f.config) :
              RunToItsEnd(files, args, failing, covered, run, f, c)
<1>. DEFINE run == CmdRun(files, args, writable, failing, covered)
            flags == CHOOSE f \in ParseFlags(args) : TRUE
            conf == CHOOSE c \in Load(files, flags.config) : TRUE
            cfg == Merge(conf, flags)
            code == IF ToSet(cfg.tests) \cap failing # {} THEN TestFailure ELSE OK
<1>1. CASE ParseFlags(args) = {}
  BY <1>1 DEF CmdRun
<1>2. CASE ParseFlags(args) # {} /\ Load(files, flags.config) = {}
  BY <1>2 DEF CmdRun
<1>3. CASE ParseFlags(args) # {} /\ Load(files, flags.config) # {}
  <2>1. flags \in ParseFlags(args) /\ conf \in Load(files, flags.config)
    BY <1>3
  <2>2. ParseFlags(args) = {flags} /\ Load(files, flags.config) = {conf}
    BY <2>1, OneReading, OneConfig
  <2>3. run = IF cfg.tests = <<>> \/ LoadSuites(cfg.tests) = {} THEN Stopped(ConfigError)
              ELSE IF cfg.telemetry /\ ~writable THEN Stopped(InternalError)
              ELSE [code |-> Gate(code, cfg, covered), ran |-> cfg.tests,
                    reporter |-> BuildReporter(cfg), workers |-> cfg.parallelism]
    BY <1>3 DEF CmdRun
  <2>. HIDE DEF run, flags, conf, cfg, code
  <2>4. CASE run \in {Stopped(ConfigError), Stopped(InternalError)}
    BY <2>4 DEF run
  <2>5. CASE run \notin {Stopped(ConfigError), Stopped(InternalError)}
    <3>1. run = [code |-> Gate(code, cfg, covered), ran |-> cfg.tests,
                 reporter |-> BuildReporter(cfg), workers |-> cfg.parallelism]
            /\ cfg.tests # <<>> /\ LoadSuites(cfg.tests) # {}
      BY <2>3, <2>5
    <3>2. run.ran = cfg.tests /\ run.code = Gate(code, cfg, covered)
      BY <3>1
    <3>3. ToSet(cfg.tests) \subseteq DOMAIN Files
      BY <3>1 DEF LoadSuites
    <3>4. RunToItsEnd(files, args, failing, covered, run, flags, conf)
      BY <2>2, <3>1, <3>2, <3>3 DEF RunToItsEnd, cfg, code
    <3>. QED
      BY <2>1, <3>4 DEF run
  <2>. QED
    BY <2>4, <2>5
<1>. QED
  BY <1>1, <1>2, <1>3

(* What the exit code says is true, whatever the files, the arguments, the *)
(* tests and the coverage (run.go:22-110).                                 *)
LEMMA OneExitCode ==
  ASSUME NEW files, NEW args, NEW writable, NEW failing, NEW covered \in Nat,
         \A p \in DOMAIN files :
           "threshold" \in DOMAIN files[p] => files[p].threshold \in Int
  PROVE  ExitCodeTruthful(files, args, writable, failing, covered)
<1>. DEFINE run == CmdRun(files, args, writable, failing, covered)
<1>1. CASE \E code \in {ConfigError, InternalError} : run = Stopped(code)
  <2>1. run.ran = <<>> /\ run.code \notin {OK, TestFailure} /\ ToSet(<<>>) = {}
    BY <1>1, StoppedFacts
  <2>. HIDE DEF run
  <2>. QED
    BY <2>1 DEF ExitCodeTruthful, run
<1>2. ASSUME NEW f \in ParseFlags(args), NEW c \in Load(files, f.config),
             RunToItsEnd(files, args, failing, covered, run, f, c)
      PROVE  ExitCodeTruthful(files, args, writable, failing, covered)
  <2>. DEFINE cfg == Merge(c, f)
              code == IF ToSet(cfg.tests) \cap failing # {} THEN TestFailure ELSE OK
  <2>1. /\ ParseFlags(args) = {f} /\ Load(files, f.config) = {c}
        /\ run.ran = cfg.tests /\ cfg.tests # <<>> /\ ToSet(cfg.tests) \subseteq DOMAIN Files
        /\ run.code = Gate(code, cfg, covered)
    BY <1>2 DEF RunToItsEnd
  <2>2. c.threshold \in Int /\ cfg.threshold = c.threshold
    BY OneConfig, MergeKeepsThreshold
  <2>3. code \in {OK, TestFailure} /\ OK # TestFailure
          /\ (code = TestFailure <=> ToSet(cfg.tests) \cap failing # {})
    BY DEF OK, TestFailure
  <2>. HIDE DEF run, cfg, code
  <2>4. /\ run.code \in {OK, TestFailure}
        /\ code = TestFailure => run.code = TestFailure
        /\ run.code = OK => code = OK /\ (c.threshold = 0 \/ covered >= c.threshold)
    BY <2>1, <2>2, <2>3, GateFacts
  <2>5. \A g \in ParseFlags(args) : \A d \in Load(files, g.config) : g = f /\ d = c
    BY <2>1
  <2>. QED
    BY <2>1, <2>3, <2>4, <2>5 DEF ExitCodeTruthful, run
<1>. QED
  BY <1>1, <1>2, RunEndsOneWay

(* Whatever the configuration, the flags, the suites and their coverage:   *)
(* the exit code of cmdRun (run.go:22-110) tells a pipeline the truth.     *)
THEOREM ExitCodesAreTruthful == CommandSpec => []ExitCodesTruthful
<1>. DEFINE Typed ==
       Of("command") =>
         /\ input.covered \in Nat
         /\ \A p \in DOMAIN input.files :
              "threshold" \in DOMAIN input.files[p] => input.files[p].threshold \in Int
<1>1. Typed => ExitCodesTruthful
  BY OneExitCode DEF ExitCodesTruthful
<1>2. Typed /\ UNCHANGED input => Typed'
  BY DEF Of
<1>. HIDE DEF Typed
<1>. QED
  BY <1>1, <1>2, PTL DEF CommandSpec, Typed
=============================================================================
