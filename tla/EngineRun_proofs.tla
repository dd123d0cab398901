----------------------------- MODULE EngineRun_proofs -----------------------------
(***************************************************************************)
(* Proofs about EngineRun for every set of manifests and configurations.   *)
(*                                                                         *)
(* What Run returns and what the process exits with is decided while the   *)
(* goroutines of the suites interleave, so the invariant says of each of   *)
(* them, wherever it is, what its SuiteResult holds of the tests it has    *)
(* left behind (CountsInv) and whether these have passed (VerdictInv); of  *)
(* the pool, which goroutines are there (PoolInv); and of cmdRun, what the *)
(* code is at the gate and after it (CodeInv).                             *)
(*                                                                         *)
(* The tracker and the reporter are shared.  CoverageInv says of each suite*)
(* what the tracker has under its name while the suite goes through        *)
(* registration and tests, which no other goroutine disturbs.  ReportInv   *)
(* says that with one suite at a time the entry begun last belongs to the  *)
(* suite at work, what it tells of the tests behind it, and that an entry  *)
(* stays as it is when its suite is over.                                  *)
(***************************************************************************)
EXTENDS EngineRun, Induction, FiniteSetTheorems

PCs == {"unborn", "start", "register", "test", "step", "verdict", "report", "store", "release", "gone"}

SuiteResult == [results : Seq(BOOLEAN), passed : Nat, failed : Nat, skipped : Nat]

\* where the variables range
TypedInv ==
  /\ config \in ConfigRecord
  /\ manifest \in Seq(SuiteRecord)
  /\ main \in {"launch", "exit", "gate", "done"}
  /\ next \in 1 .. Len(manifest) + 1
  /\ pc \in [Suites -> PCs]
  /\ at \in [Suites -> Nat \ {0}]
  /\ step \in [Suites -> Nat]
  /\ passing \in [Suites -> BOOLEAN]
  /\ sr \in [Suites -> SuiteResult]
  /\ results \in [Suites -> SuiteResult]
  /\ executed \in [Suites -> Seq(Nat)]

\* where in its tests suite s is
PlaceInv(s) ==
  /\ Len(executed[s]) = Len(TestsOf(s))
  /\ at[s] <= Len(TestsOf(s)) + 1
  /\ pc[s] \in {"register", "step", "verdict", "report"} => at[s] <= Len(TestsOf(s))
  /\ pc[s] \in {"unborn", "start"} => at[s] = 1
  /\ pc[s] \in {"step", "verdict", "report"} => ~Test(s).skip
  /\ pc[s] \in {"store", "release", "gone"} => at[s] = Len(TestsOf(s)) + 1

\* the suites are launched in order, and all of them are over when Run returns
PoolInv ==
  /\ sem \in Nat
  /\ PoolBound
  /\ \A s \in Suites : pc[s] = "unborn" <=> s >= next
  /\ main # "launch" => \A s \in Suites : pc[s] = "gone"

\* the tests of suite s up to the n-th, those that are to be run and those that are not
RunUpTo(s, n) == {t \in 1 .. n : ~TestsOf(s)[t].skip}
SkippedUpTo(s, n) == {t \in 1 .. n : TestsOf(s)[t].skip}

\* what the SuiteResult of suite s holds of the tests before the current one
CountsInv(s) ==
  /\ pc[s] \in {"unborn", "start", "register"} => sr[s] = NoResult
  /\ pc[s] \in {"test", "step", "verdict", "report"} => sr[s].passed = 0 /\ sr[s].failed = 0
  /\ pc[s] \in {"test", "step", "verdict", "store", "release", "gone"} =>
       Len(sr[s].results) = Cardinality(RunUpTo(s, at[s] - 1))
  /\ pc[s] = "report" => Len(sr[s].results) = Cardinality(RunUpTo(s, at[s]))
  /\ pc[s] \in {"test", "step", "verdict", "report", "store", "release", "gone"} =>
       sr[s].skipped = Cardinality(SkippedUpTo(s, at[s] - 1))
  /\ pc[s] \in {"store", "release", "gone"} =>
       sr[s].passed + sr[s].failed = Len(sr[s].results)
  /\ pc[s] \in {"release", "gone"} => results[s] = sr[s]

\* all results that suite s has so far say "passed"
AllTrue(s) == \A n \in DOMAIN sr[s].results : sr[s].results[n]

\* each test of suite s up to the n-th is skipped or has had all its steps pass
AllPassed(s, n) ==
  \A t \in 1 .. n : TestsOf(s)[t].skip \/ executed[s][t] = TestsOf(s)[t].steps

VerdictInv(s) ==
  /\ pc[s] \in {"unborn", "start", "register"} => \A t \in 1 .. Len(TestsOf(s)) : executed[s][t] = 0
  /\ \A t \in 1 .. Len(TestsOf(s)) :
       t > at[s] \/ (t = at[s] /\ pc[s] = "test") => executed[s][t] = 0
  /\ pc[s] \in {"test", "step", "verdict", "store", "release", "gone"} =>
       (AllTrue(s) <=> AllPassed(s, at[s] - 1))
  /\ pc[s] = "step" =>
       passing[s] /\ executed[s][at[s]] = step[s] /\ step[s] < Test(s).steps
  /\ pc[s] = "verdict" => (passing[s] <=> executed[s][at[s]] = Test(s).steps)
  /\ pc[s] = "report" => (AllTrue(s) <=> AllPassed(s, at[s]))
  /\ pc[s] \in {"store", "release", "gone"} => (sr[s].failed > 0 <=> ~AllTrue(s))

GateMet == config.threshold = 0 \/ ~BelowThreshold(tracked, config.threshold)

CodeInv ==
  /\ main = "gate" => exitCode = IF \E s \in Suites : results[s].failed > 0 THEN 1 ELSE 0
  /\ main = "done" => (exitCode = 0 <=> (\A s \in Suites : ~(results[s].failed > 0)) /\ GateMet)

SuiteInv(s) == PlaceInv(s) /\ CountsInv(s) /\ VerdictInv(s)

IInv == TypedInv /\ PoolInv /\ (\A s \in Suites : SuiteInv(s)) /\ CodeInv
-----------------------------------------------------------------------------
(* The operators.                                                          *)

(* A suite has tests, and each of them has steps.                          *)
LEMMA TestsTyped ==
  ASSUME TypedInv, NEW s \in Suites
  PROVE  /\ Len(TestsOf(s)) \in Nat /\ Len(TestsOf(s)) >= 1
         /\ DOMAIN TestsOf(s) = 1 .. Len(TestsOf(s))
         /\ \A t \in 1 .. Len(TestsOf(s)) :
              TestsOf(s)[t].skip \in BOOLEAN /\ TestsOf(s)[t].steps \in Nat /\ TestsOf(s)[t].steps >= 1
<1>1. manifest[s] \in SuiteRecord
  BY DEF TypedInv, Suites
<1>2. TestsOf(s) \in Seq(TestRecord) /\ TestsOf(s) # <<>>
  BY <1>1 DEF SuiteRecord, TestsOf
<1>3. /\ Len(TestsOf(s)) \in Nat /\ Len(TestsOf(s)) >= 1 /\ DOMAIN TestsOf(s) = 1 .. Len(TestsOf(s))
      /\ \A t \in 1 .. Len(TestsOf(s)) : TestsOf(s)[t] \in TestRecord
  BY <1>2
<1>4. QED
  BY <1>3 DEF TestRecord

(* A finite set that takes in one more element.                            *)
LEMMA OneMore ==
  ASSUME NEW S, IsFiniteSet(S), NEW x, x \notin S
  PROVE  IsFiniteSet(S \cup {x}) /\ Cardinality(S \cup {x}) = Cardinality(S) + 1 /\ Cardinality(S) \in Nat
  BY FS_AddElement, FS_CardinalityType

(* The same for one that it gives up.                                     *)
LEMMA OneLess ==
  ASSUME NEW S, IsFiniteSet(S), NEW x \in S
  PROVE  IsFiniteSet(S \ {x}) /\ Cardinality(S \ {x}) = Cardinality(S) - 1 /\ Cardinality(S) \in Nat
  BY FS_RemoveElement, FS_CardinalityType

(* 1 .. n has n elements.                                                  *)
LEMMA CountUpTo ==
  ASSUME NEW n \in Nat
  PROVE  IsFiniteSet(1 .. n) /\ Cardinality(1 .. n) = n
  BY FS_Interval

(* Going one test on counts it on one side.                                *)
LEMMA OneTestOn ==
  ASSUME TypedInv, NEW s \in Suites, NEW n \in Nat
  PROVE  /\ Cardinality(RunUpTo(s, n)) \in Nat /\ Cardinality(SkippedUpTo(s, n)) \in Nat
         /\ n = 0 => Cardinality(RunUpTo(s, n)) = 0 /\ Cardinality(SkippedUpTo(s, n)) = 0
         /\ TestsOf(s)[n + 1].skip =>
              /\ Cardinality(RunUpTo(s, n + 1)) = Cardinality(RunUpTo(s, n))
              /\ Cardinality(SkippedUpTo(s, n + 1)) = Cardinality(SkippedUpTo(s, n)) + 1
         /\ ~TestsOf(s)[n + 1].skip =>
              /\ Cardinality(RunUpTo(s, n + 1)) = Cardinality(RunUpTo(s, n)) + 1
              /\ Cardinality(SkippedUpTo(s, n + 1)) = Cardinality(SkippedUpTo(s, n))
<1>1. IsFiniteSet(RunUpTo(s, n)) /\ IsFiniteSet(SkippedUpTo(s, n))
  <2>1. IsFiniteSet(1 .. n)
    BY FS_Interval
  <2>2. RunUpTo(s, n) \subseteq 1 .. n /\ SkippedUpTo(s, n) \subseteq 1 .. n
    BY DEF RunUpTo, SkippedUpTo
  <2>3. QED
    BY <2>1, <2>2, FS_Subset
<1>2. Cardinality(RunUpTo(s, n)) \in Nat /\ Cardinality(SkippedUpTo(s, n)) \in Nat
  BY <1>1, FS_CardinalityType
<1>3. n = 0 => Cardinality(RunUpTo(s, n)) = 0 /\ Cardinality(SkippedUpTo(s, n)) = 0
  <2>1. n = 0 => RunUpTo(s, n) = {} /\ SkippedUpTo(s, n) = {}
    BY DEF RunUpTo, SkippedUpTo
  <2>2. QED
    BY <2>1, FS_EmptySet
<1>4. 1 .. n + 1 = 1 .. n \cup {n + 1} /\ n + 1 \notin 1 .. n
  OBVIOUS
<1>5. CASE TestsOf(s)[n + 1].skip
  <2>1. RunUpTo(s, n + 1) = RunUpTo(s, n) /\ SkippedUpTo(s, n + 1) = SkippedUpTo(s, n) \cup {n + 1}
    BY <1>4, <1>5 DEF RunUpTo, SkippedUpTo
  <2>2. n + 1 \notin SkippedUpTo(s, n)
    BY <1>4 DEF SkippedUpTo
  <2>3. QED
    BY <1>1, <1>2, <1>3, <1>5, <2>1, <2>2, OneMore
<1>6. CASE ~TestsOf(s)[n + 1].skip
  <2>1. SkippedUpTo(s, n + 1) = SkippedUpTo(s, n) /\ RunUpTo(s, n + 1) = RunUpTo(s, n) \cup {n + 1}
    BY <1>4, <1>6 DEF RunUpTo, SkippedUpTo
  <2>2. n + 1 \notin RunUpTo(s, n)
    BY <1>4 DEF RunUpTo
  <2>3. QED
    BY <1>1, <1>2, <1>3, <1>6, <2>1, <2>2, OneMore
<1>7. QED
  BY <1>2, <1>3, <1>5, <1>6

(* summarise: what passed and what failed is all there is, and something   *)
(* failed if not everything passed.                                        *)
LEMMA FlagsCounted ==
  ASSUME NEW f \in Seq(BOOLEAN)
  PROVE  /\ Cardinality({n \in DOMAIN f : f[n]}) \in Nat
         /\ Cardinality({n \in DOMAIN f : ~f[n]}) \in Nat
         /\ Cardinality({n \in DOMAIN f : f[n]}) + Cardinality({n \in DOMAIN f : ~f[n]}) = Len(f)
         /\ Cardinality({n \in DOMAIN f : ~f[n]}) > 0 <=> ~(\A n \in DOMAIN f : f[n])
<1> DEFINE P == {n \in DOMAIN f : f[n]}
           Q == {n \in DOMAIN f : ~f[n]}
<1>1. DOMAIN f = 1 .. Len(f) /\ Len(f) \in Nat
  OBVIOUS
<1>2. IsFiniteSet(1 .. Len(f)) /\ Cardinality(1 .. Len(f)) = Len(f)
  BY <1>1, CountUpTo
<1>3. P \cup Q = 1 .. Len(f) /\ P \cap Q = {}
  BY <1>1
<1>4. IsFiniteSet(P) /\ IsFiniteSet(Q)
  BY <1>2, <1>3, FS_Subset
<1> HIDE DEF P, Q
<1>5. Cardinality(P) \in Nat /\ Cardinality(Q) \in Nat
  BY <1>4, FS_CardinalityType
<1>6. Cardinality(P) + Cardinality(Q) = Len(f)
  <2>1. Cardinality(P \cup Q) = Cardinality(P) + Cardinality(Q) - Cardinality(P \cap Q)
    BY <1>4, FS_Union
  <2>2. Cardinality(P \cap Q) = 0
    BY <1>3, FS_EmptySet
  <2>3. Cardinality(P \cup Q) = Len(f)
    BY <1>2, <1>3
  <2>4. QED
    BY <1>5, <2>1, <2>2, <2>3
<1>7. Cardinality(Q) > 0 <=> Q # {}
  BY <1>4, <1>5, FS_EmptySet
<1>8. QED
  BY <1>5, <1>6, <1>7 DEF P, Q

(* A SuiteResult with one more test in it.                                 *)
LEMMA ResultParts ==
  ASSUME NEW r \in SuiteResult, NEW b \in BOOLEAN
  PROVE  [r EXCEPT !.skipped = @ + 1] \in SuiteResult /\ [r EXCEPT !.results = Append(@, b)] \in SuiteResult
<1>1. r.results \in Seq(BOOLEAN) /\ r.skipped \in Nat
  BY DEF SuiteResult
<1>2. Append(r.results, b) \in Seq(BOOLEAN) /\ r.skipped + 1 \in Nat
  BY <1>1
<1>3. QED
  BY <1>2 DEF SuiteResult

(* What summarise makes of a result.                                       *)
LEMMA SummaryTyped ==
  ASSUME NEW r \in SuiteResult
  PROVE  /\ Summarised(r) \in SuiteResult
         /\ Summarised(r).results = r.results
         /\ Summarised(r).skipped = r.skipped
         /\ r.passed = 0 /\ r.failed = 0 =>
              /\ Summarised(r).passed + Summarised(r).failed = Len(r.results)
              /\ Summarised(r).failed > 0 <=> ~(\A n \in DOMAIN r.results : r.results[n])
<1> DEFINE p == Cardinality({n \in DOMAIN r.results : r.results[n]})
           q == Cardinality({n \in DOMAIN r.results : ~r.results[n]})
<1>1. r.results \in Seq(BOOLEAN) /\ r.passed \in Nat /\ r.failed \in Nat
  BY DEF SuiteResult
<1>2. /\ p \in Nat /\ q \in Nat /\ p + q = Len(r.results)
      /\ q > 0 <=> ~(\A n \in DOMAIN r.results : r.results[n])
  BY <1>1, FlagsCounted
<1>3. Summarised(r) = [r EXCEPT !.passed = @ + p, !.failed = @ + q]
  BY Zenon DEF Summarised
<1> HIDE DEF p, q
<1>4. Summarised(r) = [results |-> r.results, passed |-> r.passed + p, failed |-> r.failed + q,
                       skipped |-> r.skipped]
  BY <1>3 DEF SuiteResult
<1>5. QED
  BY <1>1, <1>2, <1>4 DEF SuiteResult

-----------------------------------------------------------------------------
(* The steps of one suite.                                                 *)

(* The goroutine of a suite works on what is its own.                      *)
LEMMA SuiteFrame ==
  ASSUME TypedInv, NEW s \in Suites, SuiteStep(s)
  PROVE  /\ UNCHANGED <<main, next, exitCode>>
         /\ pc[s] \notin {"unborn", "gone"} /\ pc'[s] # "unborn" /\ pc' = [pc EXCEPT ![s] = pc'[s]]
         /\ \A u \in Suites : u # s =>
              /\ pc'[u] = pc[u] /\ at'[u] = at[u] /\ step'[u] = step[u] /\ passing'[u] = passing[u]
              /\ sr'[u] = sr[u] /\ results'[u] = results[u] /\ executed'[u] = executed[u]
         /\ sem' = IF pc'[s] = "gone" THEN sem - 1 ELSE sem
<1> USE DEF Goes, poolVars, suiteVars, sharedVars, TypedInv, PCs
<1>1. CASE StartSuite(s) \/ Register(s)
  BY <1>1 DEF StartSuite, Register
<1>2. CASE SkipTest(s) \/ StartTest(s)
  BY <1>2 DEF SkipTest, StartTest
<1>3. CASE (\E ok \in BOOLEAN : RunStep(s, ok)) \/ CutTest(s)
  BY <1>3 DEF RunStep, CutTest
<1>4. CASE FinishTest(s) \/ EndTest(s)
  BY <1>4 DEF FinishTest, EndTest
<1>5. CASE EndSuite(s) \/ Store(s) \/ Release(s)
  BY <1>5 DEF EndSuite, Store, Release
<1>6. QED
  BY <1>1, <1>2, <1>3, <1>4, <1>5 DEF SuiteStep

(* What is known of the other suites stays so.                             *)
LEMMA OthersKeep ==
  ASSUME TypedInv, NEW s \in Suites, SuiteStep(s), UNCHANGED <<config, manifest>>,
         NEW u \in Suites, u # s, SuiteInv(u)
  PROVE  SuiteInv(u)'
<1>1. /\ pc'[u] = pc[u] /\ at'[u] = at[u] /\ step'[u] = step[u] /\ passing'[u] = passing[u]
      /\ sr'[u] = sr[u] /\ results'[u] = results[u] /\ executed'[u] = executed[u]
  BY SuiteFrame
<1>2. TestsOf(u)' = TestsOf(u) /\ Test(u)' = Test(u)
  BY <1>1 DEF Test, TestsOf
<1>3. PlaceInv(u)'
  BY <1>1, <1>2 DEF SuiteInv, PlaceInv
<1>4. CountsInv(u)'
  BY <1>1, <1>2 DEF SuiteInv, CountsInv, RunUpTo, SkippedUpTo
<1>5. VerdictInv(u)'
  BY <1>1, <1>2 DEF SuiteInv, VerdictInv, AllTrue, AllPassed
<1>6. QED
  BY <1>3, <1>4, <1>5 DEF SuiteInv

(* The acting goroutine keeps the ranges.                                  *)
LEMMA SuiteTypes ==
  ASSUME TypedInv, NEW s \in Suites, SuiteStep(s), UNCHANGED <<config, manifest>>, SuiteInv(s)
  PROVE  TypedInv'
<1>1. Suites' = Suites /\ UNCHANGED <<main, next>>
  BY SuiteFrame DEF Suites
<1>2. pc' \in [Suites -> PCs]
  <2>1. pc'[s] \in PCs
    <3> USE DEF Goes, TypedInv, PCs
    <3>1. CASE StartSuite(s) \/ Register(s) \/ SkipTest(s) \/ StartTest(s)
      BY <3>1 DEF StartSuite, Register, SkipTest, StartTest
    <3>2. CASE (\E ok \in BOOLEAN : RunStep(s, ok)) \/ CutTest(s) \/ FinishTest(s) \/ EndTest(s)
      BY <3>2 DEF RunStep, CutTest, FinishTest, EndTest
    <3>3. CASE EndSuite(s) \/ Store(s) \/ Release(s)
      BY <3>3 DEF EndSuite, Store, Release
    <3>4. QED
      BY <3>1, <3>2, <3>3 DEF SuiteStep
  <2>2. QED
    BY <2>1, SuiteFrame DEF TypedInv
<1>3. at' \in [Suites -> Nat \ {0}] /\ step' \in [Suites -> Nat] /\ passing' \in [Suites -> BOOLEAN]
  <2>0. at \in [Suites -> Nat \ {0}] /\ step \in [Suites -> Nat] /\ passing \in [Suites -> BOOLEAN]
    BY DEF TypedInv
  <2> USE <2>0 DEF suiteVars
  <2>1. CASE StartSuite(s) \/ StartTest(s) \/ CutTest(s)
    <3>1. /\ UNCHANGED at
          /\ step' = step \/ step' = [step EXCEPT ![s] = 0]
          /\ \E b \in BOOLEAN : passing' = passing \/ passing' = [passing EXCEPT ![s] = b]
      BY <2>1, Zenon DEF StartSuite, StartTest, CutTest
    <3>2. QED
      BY <3>1
  <2>2. ASSUME NEW ok \in BOOLEAN, RunStep(s, ok)
        PROVE  at' \in [Suites -> Nat \ {0}] /\ step' \in [Suites -> Nat] /\ passing' \in [Suites -> BOOLEAN]
    <3>1. UNCHANGED at /\ step' = [step EXCEPT ![s] = @ + 1] /\ passing' = [passing EXCEPT ![s] = ok]
      BY <2>2 DEF RunStep
    <3>2. QED
      BY <3>1
  <2>3. CASE FinishTest(s) \/ EndSuite(s) \/ Store(s) \/ Release(s)
    <3>1. UNCHANGED <<at, step, passing>>
      BY <2>3, Zenon DEF FinishTest, EndSuite, Store, Release
    <3>2. QED
      BY <3>1
  <2>4. CASE Register(s) \/ SkipTest(s) \/ EndTest(s)
    <3>1. at[s] \in Nat \ {0} /\ at[s] + 1 \in Nat \ {0}
      OBVIOUS
    <3>2. PICK a \in Nat \ {0} : at' = [at EXCEPT ![s] = a]
      BY <2>4, <3>1 DEF Register, SkipTest, EndTest
    <3>3. UNCHANGED <<step, passing>>
      BY <2>4 DEF Register, SkipTest, EndTest
    <3>4. QED
      BY <3>2, <3>3
  <2>5. QED
    BY <2>1, <2>2, <2>3, <2>4 DEF SuiteStep
<1>4. sr' \in [Suites -> SuiteResult] /\ results' \in [Suites -> SuiteResult]
  <2> USE DEF suiteVars, sharedVars, TypedInv
  <2>1. CASE StartSuite(s) \/ Register(s) \/ StartTest(s)
    BY <2>1 DEF StartSuite, Register, StartTest
  <2>2. CASE (\E ok \in BOOLEAN : RunStep(s, ok)) \/ CutTest(s) \/ EndTest(s)
    BY <2>2 DEF RunStep, CutTest, EndTest
  <2>3. CASE Store(s) \/ Release(s)
    BY <2>3 DEF Store, Release
  <2>4. CASE SkipTest(s)
    <3>1. [sr[s] EXCEPT !.skipped = @ + 1] \in SuiteResult
      BY ResultParts DEF TypedInv
    <3>2. QED
      BY <2>4, <3>1 DEF SkipTest
  <2>5. CASE FinishTest(s)
    <3>1. [sr[s] EXCEPT !.results = Append(@, passing[s])] \in SuiteResult
      BY ResultParts DEF TypedInv
    <3>2. QED
      BY <2>5, <3>1 DEF FinishTest
  <2>6. CASE EndSuite(s)
    <3>1. Summarised(sr[s]) \in SuiteResult
      BY SummaryTyped
    <3>2. QED
      BY <2>6, <3>1 DEF EndSuite
  <2>7. QED
    BY <2>1, <2>2, <2>3, <2>4, <2>5, <2>6 DEF SuiteStep
<1>5. executed' \in [Suites -> Seq(Nat)]
  <2> USE DEF TypedInv
  <2>1. CASE \E ok \in BOOLEAN : RunStep(s, ok)
    <3>1. executed' = executed \/ executed' = [executed EXCEPT ![s][at[s]] = @ + 1]
      BY <2>1 DEF RunStep
    <3>2. at[s] \in DOMAIN executed[s]
      <4>1. pc[s] = "step"
        BY <2>1 DEF RunStep, Goes
      <4>2. at[s] <= Len(executed[s])
        BY <4>1 DEF SuiteInv, PlaceInv
      <4>3. QED
        BY <4>2
    <3>3. executed[s] \in Seq(Nat) /\ executed[s][at[s]] + 1 \in Nat
      BY <3>2
    <3>4. [executed[s] EXCEPT ![at[s]] = @ + 1] \in Seq(Nat)
      BY <3>2, <3>3
    <3>5. QED
      BY <3>1, <3>4
  <2>2. CASE ~(\E ok \in BOOLEAN : RunStep(s, ok))
    BY <2>2 DEF SuiteStep, StartSuite, Register, SkipTest, StartTest, CutTest, FinishTest, EndTest,
                EndSuite, Store, Release
  <2>3. QED
    BY <2>1, <2>2
<1>6. QED
  BY <1>1, <1>2, <1>3, <1>4, <1>5 DEF TypedInv

(* The acting goroutine is where in its tests it should be.                *)
LEMMA PlaceKept ==
  ASSUME TypedInv, NEW s \in Suites, SuiteStep(s), UNCHANGED <<config, manifest>>, SuiteInv(s)
  PROVE  PlaceInv(s)'
<1>1. TestsOf(s)' = TestsOf(s)
  BY DEF TestsOf
<1>2. Len(TestsOf(s)) \in Nat /\ Len(TestsOf(s)) >= 1 /\ at[s] \in Nat
  BY TestsTyped DEF TypedInv
<1>3. Len(executed'[s]) = Len(executed[s])
  <2>1. CASE \E ok \in BOOLEAN : RunStep(s, ok)
    <3>1. executed' = executed \/ executed' = [executed EXCEPT ![s][at[s]] = @ + 1]
      BY <2>1 DEF RunStep
    <3>2. executed[s] \in Seq(Nat) /\ executed \in [Suites -> Seq(Nat)]
      BY DEF TypedInv
    <3>3. QED
      BY <3>1, <3>2
  <2>2. CASE ~(\E ok \in BOOLEAN : RunStep(s, ok))
    BY <2>2 DEF SuiteStep, StartSuite, Register, SkipTest, StartTest, CutTest, FinishTest, EndTest,
                EndSuite, Store, Release
  <2>3. QED
    BY <2>1, <2>2
<1> DEFINE Place(p, a) ==
      /\ a <= Len(TestsOf(s)) + 1
      /\ p \in {"register", "step", "verdict", "report"} => a <= Len(TestsOf(s))
      /\ p \in {"unborn", "start"} => a = 1
      /\ p \in {"step", "verdict", "report"} => ~TestsOf(s)[a].skip
      /\ p \in {"store", "release", "gone"} => a = Len(TestsOf(s)) + 1
<1>4. Place(pc[s], at[s])
  BY DEF SuiteInv, PlaceInv, Test
<1>5. Place(pc'[s], at'[s])
  <2>1. pc \in [Suites -> PCs] /\ at \in [Suites -> Nat \ {0}]
    BY DEF TypedInv
  <2>2. CASE StartSuite(s)
    BY <1>2, <1>4, <2>1, <2>2 DEF StartSuite, Goes
  <2>3. CASE Register(s)
    <3>1. /\ pc[s] = "register" /\ pc'[s] = IF at[s] < Len(TestsOf(s)) THEN "register" ELSE "test"
          /\ at'[s] = IF at[s] < Len(TestsOf(s)) THEN at[s] + 1 ELSE 1
      BY <2>1, <2>3 DEF Register, Goes
    <3>2. QED
      BY <1>2, <1>4, <3>1
  <2>4. CASE SkipTest(s) \/ EndTest(s)
    <3>1. pc[s] \in {"test", "report"} /\ pc'[s] = "test" /\ at[s] <= Len(TestsOf(s)) /\ at'[s] = at[s] + 1
      BY <1>4, <2>1, <2>4 DEF SkipTest, EndTest, Goes
    <3>2. QED
      BY <1>2, <3>1
  <2>5. CASE StartTest(s)
    <3>1. pc'[s] = "step" /\ at[s] <= Len(TestsOf(s)) /\ at'[s] = at[s] /\ ~Test(s).skip
      BY <2>1, <2>5 DEF StartTest, Goes
    <3>2. QED
      BY <1>2, <3>1 DEF Test
  <2>6. CASE (\E ok \in BOOLEAN : RunStep(s, ok)) \/ CutTest(s) \/ FinishTest(s)
    <3>1. at' = at
      BY <2>6 DEF RunStep, CutTest, FinishTest
    <3>2. pc[s] \in {"step", "verdict"} /\ pc'[s] \in {"step", "verdict", "report"}
      BY <2>1, <2>6 DEF RunStep, CutTest, FinishTest, Goes
    <3>3. QED
      BY <1>2, <1>4, <3>1, <3>2
  <2>7. CASE EndSuite(s)
    <3>1. pc'[s] = "store" /\ at' = at /\ pc[s] = "test" /\ at[s] > Len(TestsOf(s))
      BY <2>1, <2>7 DEF EndSuite, Goes
    <3>2. QED
      BY <1>2, <1>4, <3>1
  <2>8. CASE Store(s) \/ Release(s)
    <3>1. pc'[s] \in {"release", "gone"} /\ at' = at /\ pc[s] \in {"store", "release"}
      BY <2>1, <2>8 DEF Store, Release, Goes
    <3>2. QED
      BY <1>2, <1>4, <3>1
  <2>9. QED
    BY <2>2, <2>3, <2>4, <2>5, <2>6, <2>7, <2>8 DEF SuiteStep
<1>6. Len(executed[s]) = Len(TestsOf(s))
  BY DEF SuiteInv, PlaceInv
<1> HIDE DEF Place
<1>7. QED
  BY <1>1, <1>3, <1>5, <1>6 DEF Place, PlaceInv, Test

(* The acting goroutine's result accounts for the tests behind it.         *)
LEMMA CountsKept ==
  ASSUME TypedInv, NEW s \in Suites, SuiteStep(s), UNCHANGED <<config, manifest>>, SuiteInv(s)
  PROVE  CountsInv(s)'
<1>0. /\ pc \in [Suites -> PCs] /\ at \in [Suites -> Nat \ {0}] /\ sr \in [Suites -> SuiteResult]
      /\ results \in [Suites -> SuiteResult] /\ sr[s] \in SuiteResult /\ at[s] \in Nat /\ at[s] >= 1
  BY DEF TypedInv
<1>1. TestsOf(s)' = TestsOf(s)
  BY DEF TestsOf
<1>2. Len(TestsOf(s)) \in Nat /\ Len(TestsOf(s)) >= 1
  BY TestsTyped
<1> DEFINE R(n) == Cardinality(RunUpTo(s, n))
           S(n) == Cardinality(SkippedUpTo(s, n))
           CountsOf(p, a, r, stored) ==
             /\ p \in {"unborn", "start", "register"} => r = NoResult
             /\ p \in {"test", "step", "verdict", "report"} => r.passed = 0 /\ r.failed = 0
             /\ p \in {"test", "step", "verdict", "store", "release", "gone"} => Len(r.results) = R(a - 1)
             /\ p = "report" => Len(r.results) = R(a)
             /\ p \in {"test", "step", "verdict", "report", "store", "release", "gone"} => r.skipped = S(a - 1)
             /\ p \in {"store", "release", "gone"} => r.passed + r.failed = Len(r.results)
             /\ p \in {"release", "gone"} => stored = r
<1>3. CountsOf(pc[s], at[s], sr[s], results[s])
  BY DEF SuiteInv, CountsInv
<1>4. /\ R(at[s] - 1) \in Nat /\ S(at[s] - 1) \in Nat /\ R(0) = 0 /\ S(0) = 0
      /\ TestsOf(s)[at[s]].skip => R(at[s]) = R(at[s] - 1) /\ S(at[s]) = S(at[s] - 1) + 1
      /\ ~TestsOf(s)[at[s]].skip => R(at[s]) = R(at[s] - 1) + 1 /\ S(at[s]) = S(at[s] - 1)
  <2>1. at[s] - 1 \in Nat /\ (at[s] - 1) + 1 = at[s]
    BY <1>0
  <2>2. QED
    BY <2>1, OneTestOn
<1>5. pc[s] \in {"step", "verdict", "report"} => ~TestsOf(s)[at[s]].skip
  BY DEF SuiteInv, PlaceInv, Test
<1> HIDE DEF R, S
<1>6. CountsOf(pc'[s], at'[s], sr'[s], results'[s])
  <2>1. CASE StartSuite(s)
    <3>1. pc[s] = "start" /\ pc'[s] = "register" /\ sr' = sr
      BY <1>0, <2>1 DEF StartSuite, Goes
    <3>2. QED
      BY <1>3, <3>1
  <2>2. CASE Register(s)
    <3>1. /\ pc[s] = "register" /\ pc'[s] = IF at[s] < Len(TestsOf(s)) THEN "register" ELSE "test"
          /\ at'[s] = IF at[s] < Len(TestsOf(s)) THEN at[s] + 1 ELSE 1
          /\ sr' = sr
      BY <1>0, <2>2 DEF Register, Goes
    <3>2. sr'[s] = NoResult
      BY <1>3, <3>1
    <3>3. QED
      BY <1>2, <1>4, <3>1, <3>2 DEF NoResult
  <2>3. CASE SkipTest(s)
    <3>1. /\ pc[s] = "test" /\ pc'[s] = "test" /\ at'[s] = at[s] + 1 /\ TestsOf(s)[at[s]].skip
          /\ sr'[s] = [sr[s] EXCEPT !.skipped = @ + 1]
      BY <1>0, <2>3 DEF SkipTest, Goes, Test
    <3>2. /\ sr'[s].skipped = sr[s].skipped + 1 /\ sr'[s].passed = sr[s].passed
          /\ sr'[s].failed = sr[s].failed /\ sr'[s].results = sr[s].results
      BY <1>0, <3>1 DEF SuiteResult
    <3>3. at'[s] - 1 = at[s] /\ R(at[s]) = R(at[s] - 1) /\ S(at[s]) = S(at[s] - 1) + 1
      BY <1>0, <1>4, <3>1
    <3>4. QED
      BY <1>3, <3>1, <3>2, <3>3, Zenon
  <2>4. CASE StartTest(s)
    <3>1. pc[s] = "test" /\ pc'[s] = "step" /\ UNCHANGED <<at, sr>>
      BY <1>0, <2>4 DEF StartTest, Goes
    <3>2. QED
      BY <1>3, <3>1
  <2>5. CASE (\E ok \in BOOLEAN : RunStep(s, ok)) \/ CutTest(s)
    <3>1. UNCHANGED <<at, sr>>
      BY <2>5 DEF RunStep, CutTest
    <3>2. pc[s] = "step" /\ pc'[s] \in {"step", "verdict"}
      BY <1>0, <2>5 DEF RunStep, CutTest, Goes
    <3>3. QED
      BY <1>3, <3>1, <3>2
  <2>6. CASE FinishTest(s)
    <3>1. /\ pc[s] = "verdict" /\ pc'[s] = "report" /\ at' = at
          /\ sr'[s] = [sr[s] EXCEPT !.results = Append(@, passing[s])]
      BY <1>0, <2>6 DEF FinishTest, Goes
    <3>2. sr[s].results \in Seq(BOOLEAN)
      BY <1>0 DEF SuiteResult
    <3>3. /\ Len(Append(sr[s].results, passing[s])) = Len(sr[s].results) + 1
          /\ sr'[s].skipped = sr[s].skipped /\ sr'[s].passed = sr[s].passed
          /\ sr'[s].failed = sr[s].failed /\ sr'[s].results = Append(sr[s].results, passing[s])
      BY <1>0, <3>1, <3>2 DEF SuiteResult
    <3>4. QED
      BY <1>3, <1>4, <1>5, <3>1, <3>3
  <2>7. CASE EndTest(s)
    <3>1. pc[s] = "report" /\ pc'[s] = "test" /\ at'[s] = at[s] + 1 /\ sr' = sr
      BY <1>0, <2>7 DEF EndTest, Goes
    <3>2. (at[s] + 1) - 1 = at[s]
      BY <1>0
    <3>3. QED
      BY <1>3, <1>4, <1>5, <3>1, <3>2
  <2>8. CASE EndSuite(s)
    <3>1. pc[s] = "test" /\ pc'[s] = "store" /\ at' = at /\ sr'[s] = Summarised(sr[s])
      BY <1>0, <2>8 DEF EndSuite, Goes
    <3>2. sr[s].passed = 0 /\ sr[s].failed = 0
      BY <1>3, <3>1
    <3>3. /\ sr'[s].results = sr[s].results /\ sr'[s].skipped = sr[s].skipped
          /\ sr'[s].passed + sr'[s].failed = Len(sr'[s].results)
      BY <1>0, <3>1, <3>2, SummaryTyped
    <3>4. QED
      BY <1>3, <3>1, <3>3
  <2>9. CASE Store(s)
    <3>1. pc[s] = "store" /\ pc'[s] = "release" /\ UNCHANGED <<at, sr>> /\ results'[s] = sr[s]
      BY <1>0, <2>9 DEF Store, Goes
    <3>2. QED
      BY <1>3, <3>1
  <2>10. CASE Release(s)
    <3>1. pc[s] = "release" /\ pc'[s] = "gone" /\ UNCHANGED <<at, sr, results>>
      BY <1>0, <2>10 DEF Release, Goes, sharedVars
    <3>2. QED
      BY <1>3, <3>1
  <2>11. QED
    BY <2>1, <2>2, <2>3, <2>4, <2>5, <2>6, <2>7, <2>8, <2>9, <2>10 DEF SuiteStep
<1> HIDE DEF CountsOf
<1>7. R(at'[s] - 1) = Cardinality(RunUpTo(s, at[s] - 1)') /\ R(at'[s]) = Cardinality(RunUpTo(s, at[s])')
      /\ S(at'[s] - 1) = Cardinality(SkippedUpTo(s, at[s] - 1)')
  BY <1>1 DEF R, S, RunUpTo, SkippedUpTo
<1>8. QED
  BY <1>6, <1>7 DEF CountsOf, CountsInv

(* One test more to have passed.                                           *)
LEMMA OneMorePassed ==
  ASSUME NEW s, NEW n \in Nat
  PROVE  /\ AllPassed(s, n + 1) <=> AllPassed(s, n) /\ (TestsOf(s)[n + 1].skip \/ executed[s][n + 1] = TestsOf(s)[n + 1].steps)
         /\ AllPassed(s, 0)
<1>1. 1 .. n + 1 = 1 .. n \cup {n + 1} /\ 1 .. 0 = {}
  OBVIOUS
<1>2. QED
  BY <1>1 DEF AllPassed

(* One flag more.                                                          *)
LEMMA AppendAll ==
  ASSUME NEW f \in Seq(BOOLEAN), NEW b \in BOOLEAN
  PROVE  (\A n \in DOMAIN Append(f, b) : Append(f, b)[n]) <=> (\A n \in DOMAIN f : f[n]) /\ b
<1>1. /\ DOMAIN f = 1 .. Len(f) /\ Len(f) \in Nat /\ Len(f) + 1 \notin DOMAIN f
      /\ DOMAIN Append(f, b) = DOMAIN f \cup {Len(f) + 1}
  OBVIOUS
<1>2. (\A n \in DOMAIN f : Append(f, b)[n] = f[n]) /\ Append(f, b)[Len(f) + 1] = b
  OBVIOUS
<1>3. QED
  BY <1>1, <1>2, Zenon

(* The acting goroutine's flags tell whether the tests behind it passed.   *)
LEMMA VerdictKept ==
  ASSUME TypedInv, NEW s \in Suites, SuiteStep(s), UNCHANGED <<config, manifest>>, SuiteInv(s)
  PROVE  VerdictInv(s)'
<1>0. /\ pc \in [Suites -> PCs] /\ at \in [Suites -> Nat \ {0}] /\ sr \in [Suites -> SuiteResult]
      /\ step \in [Suites -> Nat] /\ passing \in [Suites -> BOOLEAN] /\ executed \in [Suites -> Seq(Nat)]
      /\ sr[s] \in SuiteResult /\ sr[s].results \in Seq(BOOLEAN)
      /\ at[s] \in Nat /\ at[s] >= 1 /\ step[s] \in Nat /\ passing[s] \in BOOLEAN /\ executed[s] \in Seq(Nat)
  <2>1. /\ pc \in [Suites -> PCs] /\ at \in [Suites -> Nat \ {0}] /\ sr \in [Suites -> SuiteResult]
        /\ step \in [Suites -> Nat] /\ passing \in [Suites -> BOOLEAN] /\ executed \in [Suites -> Seq(Nat)]
    BY DEF TypedInv
  <2>2. sr[s] \in SuiteResult /\ at[s] \in Nat /\ at[s] >= 1 /\ step[s] \in Nat
    BY <2>1
  <2>3. passing[s] \in BOOLEAN /\ executed[s] \in Seq(Nat)
    BY <2>1
  <2>4. sr[s].results \in Seq(BOOLEAN)
    BY <2>2 DEF SuiteResult
  <2>5. QED
    BY <2>1, <2>2, <2>3, <2>4
<1>1. TestsOf(s)' = TestsOf(s)
  BY DEF TestsOf
<1>2. /\ Len(TestsOf(s)) \in Nat /\ Len(TestsOf(s)) >= 1 /\ Len(executed[s]) = Len(TestsOf(s))
      /\ \A t \in 1 .. Len(TestsOf(s)) : TestsOf(s)[t].steps \in Nat /\ TestsOf(s)[t].steps >= 1
  BY TestsTyped DEF SuiteInv, PlaceInv
<1> DEFINE T == 1 .. Len(TestsOf(s))
           All(r) == \A n \in DOMAIN r.results : r.results[n]
           Passed(e, n) == \A t \in 1 .. n : TestsOf(s)[t].skip \/ e[t] = TestsOf(s)[t].steps
           VerdictOf(p, a, k, ok, r, e) ==
             /\ p \in {"unborn", "start", "register"} => \A t \in T : e[t] = 0
             /\ \A t \in T : t > a \/ (t = a /\ p = "test") => e[t] = 0
             /\ p \in {"test", "step", "verdict", "store", "release", "gone"} => (All(r) <=> Passed(e, a - 1))
             /\ p = "step" => ok /\ e[a] = k /\ k < TestsOf(s)[a].steps
             /\ p = "verdict" => (ok <=> e[a] = TestsOf(s)[a].steps)
             /\ p = "report" => (All(r) <=> Passed(e, a))
             /\ p \in {"store", "release", "gone"} => (r.failed > 0 <=> ~All(r))
<1>3. VerdictOf(pc[s], at[s], step[s], passing[s], sr[s], executed[s])
  BY DEF SuiteInv, VerdictInv, AllTrue, AllPassed, Test
<1>4. /\ Passed(executed[s], at[s]) <=>
           Passed(executed[s], at[s] - 1)
             /\ (TestsOf(s)[at[s]].skip \/ executed[s][at[s]] = TestsOf(s)[at[s]].steps)
      /\ \A e : Passed(e, 0)
  <2>1. at[s] - 1 \in Nat /\ (at[s] - 1) + 1 = at[s]
    BY <1>0
  <2>2. \A n \in Nat : AllPassed(s, n + 1) <=>
          AllPassed(s, n) /\ (TestsOf(s)[n + 1].skip \/ executed[s][n + 1] = TestsOf(s)[n + 1].steps)
    BY OneMorePassed
  <2>3. QED
    BY <2>1, <2>2 DEF AllPassed
<1>5. /\ pc[s] \in {"register", "step", "verdict", "report"} => at[s] \in T
      /\ pc[s] \in {"step", "verdict", "report"} => ~TestsOf(s)[at[s]].skip
  BY <1>0, <1>2 DEF SuiteInv, PlaceInv, Test
<1>6. pc[s] \in {"unborn", "start", "register"} => sr[s] = NoResult
  BY DEF SuiteInv, CountsInv
<1>7. \A r : r.results = <<>> => All(r)
  OBVIOUS
<1> HIDE DEF All, Passed
<1>8. VerdictOf(pc'[s], at'[s], step'[s], passing'[s], sr'[s], executed'[s])
  <2>1. CASE StartSuite(s)
    <3>1. pc[s] = "start" /\ pc'[s] = "register" /\ UNCHANGED <<at, sr, executed>>
      BY <1>0, <2>1 DEF StartSuite, Goes
    <3>2. QED
      BY <1>3, <3>1
  <2>2. CASE Register(s)
    <3>1. /\ pc[s] = "register" /\ pc'[s] \in {"register", "test"}
          /\ pc'[s] = "test" => at'[s] = 1
          /\ UNCHANGED <<sr, executed>>
      BY <1>0, <2>2 DEF Register, Goes
    <3>2. All(sr[s]) /\ \A t \in T : executed[s][t] = 0
      BY <1>3, <1>6, <1>7, <3>1 DEF NoResult
    <3>3. QED
      BY <1>4, <3>1, <3>2
  <2>3. CASE SkipTest(s)
    <3>1. /\ pc[s] = "test" /\ pc'[s] = "test" /\ at'[s] = at[s] + 1 /\ TestsOf(s)[at[s]].skip
          /\ sr'[s] = [sr[s] EXCEPT !.skipped = @ + 1] /\ executed' = executed
      BY <1>0, <2>3 DEF SkipTest, Goes, Test
    <3>2. sr'[s].results = sr[s].results
      BY <1>0, <3>1 DEF SuiteResult
    <3>3. All(sr'[s]) <=> All(sr[s])
      BY <3>2 DEF All
    <3>4. (at[s] + 1) - 1 = at[s] /\ \A t \in T : t > at[s] + 1 \/ t = at[s] + 1 => t > at[s]
      BY <1>0
    <3>5. QED
      BY <1>3, <1>4, <3>1, <3>3, <3>4
  <2>4. CASE StartTest(s)
    <3>1. /\ pc[s] = "test" /\ pc'[s] = "step" /\ UNCHANGED <<at, sr, executed>>
          /\ step'[s] = 0 /\ passing'[s] = TRUE /\ at[s] \in T
      BY <1>0, <1>2, <2>4 DEF StartTest, Goes
    <3>2. executed[s][at[s]] = 0 /\ 0 < TestsOf(s)[at[s]].steps
      BY <1>2, <1>3, <3>1
    <3>3. QED
      BY <1>3, <3>1, <3>2
  <2>5. ASSUME NEW ok \in BOOLEAN, RunStep(s, ok)
        PROVE  VerdictOf(pc'[s], at'[s], step'[s], passing'[s], sr'[s], executed'[s])
    <3>1. /\ pc[s] = "step" /\ UNCHANGED <<at, sr>> /\ step'[s] = step[s] + 1 /\ passing'[s] = ok
          /\ pc'[s] = IF ok /\ step[s] + 1 < TestsOf(s)[at[s]].steps THEN "step" ELSE "verdict"
          /\ executed' = IF ok THEN [executed EXCEPT ![s][at[s]] = @ + 1] ELSE executed
      BY <1>0, <2>5 DEF RunStep, Goes, Test
    <3>2. at[s] \in T /\ executed[s][at[s]] = step[s] /\ step[s] < TestsOf(s)[at[s]].steps
      BY <1>3, <1>5, <3>1
    <3>3. /\ \A t \in T : t # at[s] => executed'[s][t] = executed[s][t]
          /\ executed'[s][at[s]] = IF ok THEN step[s] + 1 ELSE step[s]
      BY <1>0, <1>2, <3>1, <3>2
    <3>4. Passed(executed'[s], at[s] - 1) <=> Passed(executed[s], at[s] - 1)
      <4>1. \A t \in 1 .. at[s] - 1 : t \in T /\ t # at[s]
        BY <1>0, <1>2, <3>2
      <4>2. QED
        BY <3>3, <4>1 DEF Passed
    <3>5. TestsOf(s)[at[s]].steps \in Nat
      BY <1>2, <3>2
    <3>6. \A t \in T : t > at[s] => executed'[s][t] = 0
      <4>1. \A t \in T : t > at[s] => t # at[s]
        BY <1>0, <1>2
      <4>2. QED
        BY <1>3, <3>3, <4>1
    <3>7. CASE pc'[s] = "step"
      BY <1>0, <1>3, <3>1, <3>3, <3>4, <3>6, <3>7
    <3>8. CASE pc'[s] = "verdict"
      <4>1. ok <=> executed'[s][at[s]] = TestsOf(s)[at[s]].steps
        BY <1>0, <3>1, <3>2, <3>3, <3>5, <3>8
      <4>2. QED
        BY <1>3, <3>1, <3>4, <3>6, <3>8, <4>1
    <3>9. QED
      BY <3>1, <3>7, <3>8
  <2>6. CASE CutTest(s)
    <3>1. /\ pc[s] = "step" /\ pc'[s] = "verdict" /\ UNCHANGED <<at, sr, executed>> /\ passing'[s] = FALSE
      BY <1>0, <2>6 DEF CutTest, Goes
    <3>2. executed[s][at[s]] # TestsOf(s)[at[s]].steps
      BY <1>0, <1>2, <1>3, <1>5, <3>1
    <3>3. QED
      BY <1>3, <3>1, <3>2
  <2>7. CASE FinishTest(s)
    <3>1. /\ pc[s] = "verdict" /\ pc'[s] = "report" /\ UNCHANGED <<at, executed>>
          /\ sr'[s] = [sr[s] EXCEPT !.results = Append(@, passing[s])]
      BY <1>0, <2>7 DEF FinishTest, Goes
    <3>2. sr'[s].results = Append(sr[s].results, passing[s])
      BY <1>0, <3>1 DEF SuiteResult
    <3>3. All(sr'[s]) <=> All(sr[s]) /\ passing[s]
      <4>1. (\A n \in DOMAIN Append(sr[s].results, passing[s]) : Append(sr[s].results, passing[s])[n])
              <=> (\A n \in DOMAIN sr[s].results : sr[s].results[n]) /\ passing[s]
        BY <1>0, AppendAll
      <4>2. QED
        BY <3>2, <4>1, Zenon DEF All
    <3>4. QED
      BY <1>3, <1>4, <1>5, <3>1, <3>3
  <2>8. CASE EndTest(s)
    <3>1. pc[s] = "report" /\ pc'[s] = "test" /\ at'[s] = at[s] + 1 /\ UNCHANGED <<sr, executed>>
      BY <1>0, <2>8 DEF EndTest, Goes
    <3>2. (at[s] + 1) - 1 = at[s] /\ \A t \in T : t > at[s] + 1 \/ t = at[s] + 1 => t > at[s]
      BY <1>0
    <3>3. QED
      BY <1>3, <3>1, <3>2
  <2>9. CASE EndSuite(s)
    <3>1. pc[s] = "test" /\ pc'[s] = "store" /\ UNCHANGED <<at, executed>> /\ sr'[s] = Summarised(sr[s])
      BY <1>0, <2>9 DEF EndSuite, Goes
    <3>2. sr[s].passed = 0 /\ sr[s].failed = 0
      BY <3>1 DEF SuiteInv, CountsInv
    <3>3. sr'[s].results = sr[s].results /\ (sr'[s].failed > 0 <=> ~All(sr[s]))
      BY <1>0, <3>1, <3>2, SummaryTyped DEF All
    <3>4. All(sr'[s]) <=> All(sr[s])
      BY <3>3 DEF All
    <3>5. QED
      BY <1>3, <3>1, <3>3, <3>4
  <2>10. CASE Store(s) \/ Release(s)
    <3>1. /\ pc[s] \in {"store", "release"} /\ pc'[s] \in {"release", "gone"}
          /\ UNCHANGED <<at, sr, executed>>
      BY <1>0, <2>10 DEF Store, Release, Goes
    <3>2. QED
      BY <1>3, <3>1
  <2>11. QED
    BY <2>1, <2>2, <2>3, <2>4, <2>5, <2>6, <2>7, <2>8, <2>9, <2>10 DEF SuiteStep
<1> HIDE DEF VerdictOf
<1>9. QED
  BY <1>1, <1>8 DEF VerdictOf, VerdictInv, AllTrue, AllPassed, All, Passed, Test

-----------------------------------------------------------------------------
(* The pool.                                                               *)

(* The goroutines of the pool are finitely many.                           *)
LEMMA RunningFinite ==
  ASSUME TypedInv
  PROVE  IsFiniteSet(Running)
<1>1. Suites = 1 .. Len(manifest) /\ Len(manifest) \in Nat
  BY DEF TypedInv, Suites
<1>2. IsFiniteSet(Suites)
  BY <1>1, FS_Interval
<1>3. QED
  BY <1>2, FS_Subset DEF Running

(* A suite's goroutine leaves the semaphore when it goes.                  *)
LEMMA PoolKeptBySuite ==
  ASSUME TypedInv, PoolInv, NEW s \in Suites, SuiteStep(s), UNCHANGED <<config, manifest>>
  PROVE  PoolInv'
<1>1. /\ UNCHANGED <<main, next>> /\ pc[s] \notin {"unborn", "gone"} /\ pc'[s] # "unborn"
      /\ pc' = [pc EXCEPT ![s] = pc'[s]] /\ sem' = IF pc'[s] = "gone" THEN sem - 1 ELSE sem
  BY SuiteFrame
<1>2. pc \in [Suites -> PCs] /\ Suites' = Suites /\ Size' = Size
  BY DEF TypedInv, Suites, Size
<1>3. main = "launch"
  BY <1>1 DEF PoolInv
<1>4. \A u \in Suites : pc'[u] = "unborn" <=> u >= next
  BY <1>1, <1>2 DEF PoolInv
<1>5. s \in Running /\ IsFiniteSet(Running) /\ Cardinality(Running) = sem /\ sem \in Nat /\ sem <= Size
  BY <1>1, RunningFinite DEF Running, PoolInv, PoolBound
<1>6. Size \in Nat
  BY DEF Size, TypedInv, ConfigRecord
<1>7. CASE pc'[s] = "gone"
  <2>1. Running' = Running \ {s}
    BY <1>1, <1>2, <1>7 DEF Running
  <2>2. Cardinality(Running') = sem - 1
    BY <1>5, <2>1, OneLess
  <2>3. Cardinality(Running') \in Nat
    BY <1>5, <2>1, OneLess, FS_CardinalityType
  <2>4. QED
    BY <1>1, <1>2, <1>3, <1>4, <1>5, <1>6, <1>7, <2>2, <2>3 DEF PoolInv, PoolBound
<1>8. CASE pc'[s] # "gone"
  <2>1. Running' = Running
    BY <1>1, <1>2, <1>8 DEF Running
  <2>2. QED
    BY <1>1, <1>2, <1>3, <1>4, <1>5, <1>8, <2>1 DEF PoolInv, PoolBound
<1>9. QED
  BY <1>7, <1>8

(* The next suite is launched into a free slot.                            *)
LEMMA PoolKeptByLaunch ==
  ASSUME TypedInv, PoolInv, Launch, UNCHANGED <<config, manifest>>
  PROVE  PoolInv'
<1>1. /\ main = "launch" /\ main' = main /\ next \in Suites /\ sem < Size /\ sem' = sem + 1
      /\ pc' = [pc EXCEPT ![next] = "start"] /\ next' = next + 1
  BY DEF Launch
<1>2. pc \in [Suites -> PCs] /\ Suites' = Suites /\ Size' = Size /\ Suites = 1 .. Len(manifest)
  BY DEF TypedInv, Suites, Size
<1>3. /\ IsFiniteSet(Running) /\ Cardinality(Running) = sem /\ sem \in Nat /\ pc[next] = "unborn"
      /\ \A u \in Suites : pc[u] = "unborn" <=> u >= next
  BY <1>1, <1>2, RunningFinite DEF PoolInv, PoolBound
<1>4. Size \in Nat
  BY DEF Size, TypedInv, ConfigRecord
<1>5. Running' = Running \cup {next} /\ next \notin Running
  BY <1>1, <1>2, <1>3 DEF Running
<1>6. Cardinality(Running') = sem + 1
  BY <1>3, <1>5, OneMore
<1>7. \A u \in Suites : pc'[u] = "unborn" <=> u >= next + 1
  BY <1>1, <1>2, <1>3
<1>8. QED
  BY <1>1, <1>2, <1>3, <1>4, <1>6, <1>7 DEF PoolInv, PoolBound
-----------------------------------------------------------------------------
(* The whole run.                                                          *)

(* The run begins well.                                                    *)
LEMMA InitSound == Init => IInv
<1> SUFFICES ASSUME Init PROVE IInv
  OBVIOUS
<1>1. config \in ConfigRecord /\ manifest \in Seq(SuiteRecord)
  BY ManifestsAssumption, ConfigsAssumption DEF Init
<1>2. Suites = 1 .. Len(manifest) /\ Len(manifest) \in Nat
  BY <1>1 DEF Suites
<1>3. \A s \in Suites : TestsOf(s) \in Seq(TestRecord) /\ TestsOf(s) # <<>>
  <2>1. \A s \in Suites : manifest[s] \in SuiteRecord
    BY <1>1 DEF Suites
  <2>2. QED
    BY <2>1 DEF SuiteRecord, TestsOf
<1>4. NoResult \in SuiteResult
  BY DEF NoResult, SuiteResult
<1>5. executed \in [Suites -> Seq(Nat)] /\ \A s \in Suites : Len(executed[s]) = Len(TestsOf(s))
                                              /\ \A t \in 1 .. Len(TestsOf(s)) : executed[s][t] = 0
  <2>1. ASSUME NEW s \in Suites
        PROVE  /\ executed[s] \in Seq(Nat) /\ Len(executed[s]) = Len(TestsOf(s))
               /\ \A t \in 1 .. Len(TestsOf(s)) : executed[s][t] = 0
    <3>1. executed[s] = [t \in DOMAIN TestsOf(s) |-> 0]
      BY DEF Init
    <3>2. DOMAIN TestsOf(s) = 1 .. Len(TestsOf(s)) /\ Len(TestsOf(s)) \in Nat
      BY <1>3
    <3>3. executed[s] = [t \in 1 .. Len(TestsOf(s)) |-> 0]
      BY <3>1, <3>2
    <3>4. QED
      BY <3>2, <3>3
  <2>2. QED
    BY <2>1 DEF Init
<1>6. TypedInv
  BY <1>1, <1>2, <1>4, <1>5 DEF Init, TypedInv, PCs
<1>7. PoolInv
  <2>1. Running = {} /\ Cardinality(Running) = 0
    BY FS_EmptySet DEF Init, Running
  <2>2. 0 <= Size
    BY <1>1 DEF Size, ConfigRecord
  <2>3. QED
    BY <1>2, <2>1, <2>2 DEF Init, PoolInv, PoolBound
<1>8. \A s \in Suites : SuiteInv(s)
  BY <1>3, <1>5 DEF Init, SuiteInv, PlaceInv, CountsInv, VerdictInv
<1>9. CodeInv
  BY DEF Init, CodeInv
<1>10. QED
  BY <1>6, <1>7, <1>8, <1>9 DEF IInv

(* A step of some suite keeps all of it: as long as one is at work, cmdRun *)
(* is still waiting for the pool.                                          *)
LEMMA SuiteStepKeeps ==
  ASSUME IInv, NEW s \in Suites, SuiteStep(s), UNCHANGED <<config, manifest>>
  PROVE  IInv'
<1>1. TypedInv' /\ PoolInv'
  BY SuiteTypes, PoolKeptBySuite DEF IInv
<1>2. SuiteInv(s)'
  BY PlaceKept, CountsKept, VerdictKept DEF IInv, SuiteInv
<1>3. \A u \in Suites : SuiteInv(u)'
  BY <1>2, OthersKeep DEF IInv
<1>4. Suites' = Suites
  BY DEF Suites
<1>5. main = "launch" /\ main' = main
  BY SuiteFrame DEF IInv, PoolInv
<1>6. CodeInv'
  BY <1>5 DEF CodeInv
<1>7. QED
  BY <1>1, <1>3, <1>4, <1>6 DEF IInv

(* Where only main, next or the code changes, and nothing of a suite.      *)
LEMMA QuietSuites ==
  ASSUME IInv, UNCHANGED <<config, manifest, suiteVars, sharedVars, executed>>
  PROVE  /\ Suites' = Suites /\ \A s \in Suites : SuiteInv(s)'
         /\ GateMet' = GateMet
<1> USE DEF suiteVars, sharedVars
<1>1. Suites' = Suites
  BY DEF Suites
<1>2. ASSUME NEW s \in Suites PROVE SuiteInv(s)'
  <2>1. TestsOf(s)' = TestsOf(s) /\ Test(s)' = Test(s) /\ SuiteInv(s)
    BY DEF TestsOf, Test, IInv
  <2>2. PlaceInv(s)'
    BY <2>1 DEF SuiteInv, PlaceInv
  <2>3. CountsInv(s)'
    BY <2>1 DEF SuiteInv, CountsInv, RunUpTo, SkippedUpTo
  <2>4. VerdictInv(s)'
    BY <2>1 DEF SuiteInv, VerdictInv, AllTrue, AllPassed
  <2>5. QED
    BY <2>2, <2>3, <2>4 DEF SuiteInv
<1>3. GateMet' = GateMet
  BY DEF GateMet, BelowThreshold
<1>4. QED
  BY <1>1, <1>2, <1>3

(* Launching the next suite.                                               *)
LEMMA LaunchKeeps ==
  ASSUME IInv, Launch, UNCHANGED <<config, manifest>>
  PROVE  IInv'
<1>1. /\ main = "launch" /\ main' = main /\ next \in Suites /\ next' = next + 1
      /\ pc' = [pc EXCEPT ![next] = "start"]
      /\ UNCHANGED <<at, step, passing, sr, results, executed>>
  BY DEF Launch, sharedVars
<1>2. TypedInv
  BY DEF IInv
<1>3. Suites' = Suites /\ Suites = 1 .. Len(manifest) /\ Len(manifest) \in Nat /\ pc \in [Suites -> PCs]
  BY <1>2 DEF Suites, TypedInv
<1>4. TypedInv'
  BY <1>1, <1>2, <1>3 DEF TypedInv, PCs
<1>5. PoolInv'
  BY PoolKeptByLaunch DEF IInv
<1>6. ASSUME NEW s \in Suites PROVE SuiteInv(s)'
  <2>1. TestsOf(s)' = TestsOf(s) /\ Test(s)' = Test(s) /\ SuiteInv(s)
    BY <1>1 DEF TestsOf, Test, IInv
  <2>2. pc'[s] = pc[s] \/ (pc[s] = "unborn" /\ pc'[s] = "start")
    <3>1. pc[next] = "unborn"
      BY <1>1, <1>3 DEF IInv, PoolInv
    <3>2. QED
      BY <1>1, <1>3, <3>1
  <2>3. PlaceInv(s)'
    BY <1>1, <2>1, <2>2 DEF SuiteInv, PlaceInv
  <2>4. CountsInv(s)'
    BY <1>1, <2>1, <2>2 DEF SuiteInv, CountsInv, RunUpTo, SkippedUpTo
  <2>5. VerdictInv(s)'
    BY <1>1, <2>1, <2>2 DEF SuiteInv, VerdictInv, AllTrue, AllPassed
  <2>6. QED
    BY <2>3, <2>4, <2>5 DEF SuiteInv
<1>7. CodeInv'
  BY <1>1 DEF CodeInv
<1>8. QED
  BY <1>3, <1>4, <1>5, <1>6, <1>7 DEF IInv

(* Return of the pool, the exit code and the gate, Ctrl-C.                 *)
LEMMA CommandKeeps ==
  ASSUME IInv, UNCHANGED <<config, manifest>>,
         \/ PoolDone \/ ComputeExitCode \/ CheckGate
         \/ Interrupt
         \/ UNCHANGED vars
  PROVE  IInv'
<1>1. UNCHANGED <<next, sem, suiteVars, sharedVars, executed>>
  BY DEF PoolDone, ComputeExitCode, CheckGate, Interrupt, vars, poolVars
<1>2. Suites' = Suites /\ (\A s \in Suites : SuiteInv(s)') /\ GateMet' = GateMet
  BY <1>1, QuietSuites
<1>3. /\ UNCHANGED <<pc, at, step, passing, sr, results, tracked>>
      /\ main' = main \/ (main' \in {"exit", "gate", "done"} /\ \A s \in Suites : pc[s] = "gone")
  <2>1. UNCHANGED <<pc, at, step, passing, sr, results, tracked>>
    BY <1>1 DEF suiteVars, sharedVars
  <2>2. main # "launch" => \A s \in Suites : pc[s] = "gone"
    BY DEF IInv, PoolInv
  <2>3. main' = main \/ (main' \in {"exit", "gate", "done"} /\ (main # "launch" \/ PoolDone))
    BY DEF PoolDone, ComputeExitCode, CheckGate, Interrupt, vars, poolVars
  <2>4. QED
    BY <2>1, <2>2, <2>3 DEF PoolDone
<1>4. TypedInv'
  BY <1>1, <1>2, <1>3 DEF IInv, TypedInv
<1>5. PoolInv'
  BY <1>1, <1>2, <1>3 DEF IInv, PoolInv, PoolBound, Running, Size
<1>6. CodeInv'
  <2>1. CASE PoolDone
    BY <2>1 DEF PoolDone, CodeInv
  <2>2. CASE ComputeExitCode
    BY <1>2, <1>3, <2>2 DEF ComputeExitCode, CodeInv
  <2>3. CASE CheckGate
    <3>1. main = "gate" /\ main' = "done"
      BY <2>3 DEF CheckGate
    <3>2. exitCode = IF \E s \in Suites : results[s].failed > 0 THEN 1 ELSE 0
      BY <3>1 DEF IInv, CodeInv
    <3>3. exitCode' = IF ~GateMet /\ exitCode = 0 THEN 1 ELSE exitCode
      <4>1. config.threshold \in 0 .. 100
        BY DEF IInv, TypedInv, ConfigRecord
      <4>2. ~GateMet <=> config.threshold > 0 /\ BelowThreshold(tracked, config.threshold)
        BY <4>1 DEF GateMet
      <4>3. QED
        BY <2>3, <4>2 DEF CheckGate
    <3>4. exitCode' = 0 <=> (\A s \in Suites : ~(results[s].failed > 0)) /\ GateMet
      BY <3>2, <3>3
    <3>5. QED
      BY <1>2, <1>3, <3>1, <3>4 DEF CodeInv
  <2>4. CASE Interrupt \/ UNCHANGED vars
    <3>1. UNCHANGED <<main, exitCode, results>>
      BY <1>3, <2>4 DEF Interrupt, vars, poolVars
    <3>2. QED
      BY <1>2, <3>1 DEF IInv, CodeInv
  <2>5. QED
    BY <2>1, <2>2, <2>3, <2>4
<1>7. QED
  BY <1>2, <1>4, <1>5, <1>6 DEF IInv

(* What Pool.Run, the goroutines of the suites and cmdRun do keeps the     *)
(* invariant, in every interleaving and interrupted at any point.          *)
THEOREM Invariance == Spec => []IInv
<1>1. IInv /\ [Next]_vars => IInv'
  <2> SUFFICES ASSUME IInv, [Next]_vars PROVE IInv'
    OBVIOUS
  <2>1. CASE Step
    <3>1. UNCHANGED <<config, manifest>>
      BY <2>1 DEF Step
    <3>2. CASE \E s \in Suites : SuiteStep(s)
      BY <3>1, <3>2, SuiteStepKeeps
    <3>3. CASE MainStep
      BY <3>1, <3>3, LaunchKeeps, CommandKeeps DEF MainStep
    <3>4. QED
      BY <2>1, <3>2, <3>3 DEF Step
  <2>2. CASE Interrupt
    BY <2>2, CommandKeeps DEF Interrupt
  <2>3. CASE UNCHANGED vars
    BY <2>3, CommandKeeps DEF vars
  <2>4. QED
    BY <2>1, <2>2, <2>3 DEF Next
<1>2. QED
  BY InitSound, <1>1, PTL DEF Spec

(* The flags and the counts that Run returns for each suite are those of   *)
(* all its tests, and never more suites are at work than the pool has      *)
(* slots: parallel.go's "bounded concurrency", engine.go's summarise.      *)
THEOREM ResultsAreComplete == Spec => []ResultsComplete
<1>1. IInv => ResultsComplete
  <2> SUFFICES ASSUME IInv PROVE ResultsComplete
    OBVIOUS
  <2>1. PoolBound
    BY DEF IInv, PoolInv
  <2>2. ASSUME main # "launch", NEW s \in Suites
        PROVE  /\ Len(results[s].results) = Cardinality(PlacesToRun(s))
               /\ results[s].passed + results[s].failed = Cardinality(PlacesToRun(s))
               /\ results[s].skipped = Len(TestsOf(s)) - Cardinality(PlacesToRun(s))
    <3>1. pc[s] = "gone"
      BY <2>2 DEF IInv, PoolInv
    <3>2. Len(TestsOf(s)) \in Nat /\ DOMAIN TestsOf(s) = 1 .. Len(TestsOf(s))
      BY TestsTyped DEF IInv
    <3>3. at[s] = Len(TestsOf(s)) + 1
      BY <3>1 DEF IInv, SuiteInv, PlaceInv
    <3>4. at[s] - 1 = Len(TestsOf(s))
      BY <3>2, <3>3
    <3>5. /\ Len(results[s].results) = Cardinality(RunUpTo(s, Len(TestsOf(s))))
          /\ results[s].passed + results[s].failed = Cardinality(RunUpTo(s, Len(TestsOf(s))))
          /\ results[s].skipped = Cardinality(SkippedUpTo(s, Len(TestsOf(s))))
      BY <3>1, <3>4 DEF IInv, SuiteInv, CountsInv
    <3>6. RunUpTo(s, Len(TestsOf(s))) = PlacesToRun(s)
      BY <3>2 DEF RunUpTo, PlacesToRun
    <3>7. Cardinality(SkippedUpTo(s, Len(TestsOf(s)))) = Len(TestsOf(s)) - Cardinality(PlacesToRun(s))
      <4>1. /\ IsFiniteSet(1 .. Len(TestsOf(s))) /\ Cardinality(1 .. Len(TestsOf(s))) = Len(TestsOf(s))
        BY <3>2, CountUpTo
      <4>2. SkippedUpTo(s, Len(TestsOf(s))) = (1 .. Len(TestsOf(s))) \ PlacesToRun(s)
        BY <3>2 DEF SkippedUpTo, PlacesToRun
      <4>3. (1 .. Len(TestsOf(s))) \cap PlacesToRun(s) = PlacesToRun(s) /\ IsFiniteSet(PlacesToRun(s))
        BY <3>2, <4>1, FS_Subset DEF PlacesToRun
      <4>4. Cardinality((1 .. Len(TestsOf(s))) \ PlacesToRun(s)) =
              Cardinality(1 .. Len(TestsOf(s))) - Cardinality((1 .. Len(TestsOf(s))) \cap PlacesToRun(s))
        BY <4>1, <4>3, FS_Difference, Zenon
      <4>5. QED
        BY <4>1, <4>2, <4>3, <4>4, Zenon
    <3>8. QED
      BY <3>5, <3>6, <3>7
  <2>3. QED
    BY <2>1, <2>2 DEF ResultsComplete
<1>2. QED
  BY Invariance, <1>1, PTL

(* Exit code 0 stands for a run in which every step that was to run did    *)
(* run and pass and in which coverage is at the threshold, and for no      *)
(* other: exitcode.go's "OK indicates all tests passed", and gate.Check.   *)
THEOREM ExitCodeIsSound == Spec => []ExitCodeSound
<1>1. IInv => ExitCodeSound
  <2> SUFFICES ASSUME IInv, main = "done"
               PROVE  exitCode = 0 <=>
                        /\ \A s \in Suites : \A t \in DOMAIN TestsOf(s) :
                             TestsOf(s)[t].skip \/ executed[s][t] = TestsOf(s)[t].steps
                        /\ GateMet
    BY DEF ExitCodeSound, GateMet
  <2>1. ASSUME NEW s \in Suites
        PROVE  ~(results[s].failed > 0) <=>
                 \A t \in DOMAIN TestsOf(s) : TestsOf(s)[t].skip \/ executed[s][t] = TestsOf(s)[t].steps
    <3>1. pc[s] = "gone"
      BY DEF IInv, PoolInv
    <3>2. Len(TestsOf(s)) \in Nat /\ DOMAIN TestsOf(s) = 1 .. Len(TestsOf(s))
      BY TestsTyped DEF IInv
    <3>3. at[s] - 1 = Len(TestsOf(s))
      BY <3>1, <3>2 DEF IInv, SuiteInv, PlaceInv
    <3>4. results[s] = sr[s]
      BY <3>1 DEF IInv, SuiteInv, CountsInv
    <3>5. ~(sr[s].failed > 0) <=> AllPassed(s, Len(TestsOf(s)))
      BY <3>1, <3>3 DEF IInv, SuiteInv, VerdictInv
    <3>6. QED
      BY <3>2, <3>4, <3>5 DEF AllPassed
  <2>2. exitCode = 0 <=> (\A s \in Suites : ~(results[s].failed > 0)) /\ GateMet
    BY DEF IInv, CodeInv
  <2>3. QED
    BY <2>1, <2>2
<1>2. QED
  BY Invariance, <1>1, PTL
-----------------------------------------------------------------------------
(* What the coverage tracker knows.                                        *)

TestData == [steps : Nat, executed : Nat, ran : BOOLEAN, skipped : BOOLEAN]

\* the tests of suite s that are registered are its first ones
Registered(s) ==
  IF pc[s] \in {"unborn", "start"} THEN 0
  ELSE IF pc[s] = "register" THEN at[s] - 1 ELSE Len(TestsOf(s))

NamesUpTo(s, n) == {TestsOf(s)[t].name : t \in 1 .. n}

\* what the tracker is to record of test t is recorded
Past(s, t) ==
  /\ pc[s] \notin {"unborn", "start", "register"}
  /\ t < at[s] \/ (t = at[s] /\ pc[s] = "report")

\* the most steps that can be recorded for test t
Allowed(s, t) ==
  IF Past(s, t) \/ (t = at[s] /\ pc[s] = "verdict") THEN TestsOf(s)[t].steps
  ELSE IF t = at[s] /\ pc[s] = "step" THEN step[s] ELSE 0

\* what is recorded of a test that is to be skipped or not and past or not
Right(d, skip, past, allowed) ==
  /\ d.ran <=> ~skip /\ past
  /\ d.skipped <=> skip /\ past
  /\ d.executed <= allowed

\* the entry of a suite with so many tests and these names registered
SuiteData(count, names) == [testCount : {count}, tests : [names -> TestData]]

TrackedInv(s) ==
  /\ Registered(s) = 0 => Name(s) \notin DOMAIN tracked
  /\ Registered(s) > 0 =>
       /\ Name(s) \in DOMAIN tracked
       /\ tracked[Name(s)] \in SuiteData(Len(TestsOf(s)), NamesUpTo(s, Registered(s)))
       /\ \A t \in 1 .. Registered(s) :
            Right(tracked[Name(s)].tests[TestsOf(s)[t].name], TestsOf(s)[t].skip, Past(s, t), Allowed(s, t))

CoverageInv == SuitesNamed /\ TestsNamed => \A s \in Suites : TrackedInv(s)

\* u is t after the entry of one test of one suite has become d
Changes(t, u, suite, count, names, test, d) ==
  /\ DOMAIN u = DOMAIN t /\ \A n \in DOMAIN t : n # suite => u[n] = t[n]
  /\ u[suite] \in SuiteData(count, names)
  /\ \A m \in names : u[suite].tests[m] = IF m = test THEN d ELSE t[suite].tests[m]

Fresh(k) == [steps |-> k, executed |-> 0, ran |-> FALSE, skipped |-> FALSE]

\* u is t after one more test of the suite was registered
Registers(t, u, suite, count, names, test, k) ==
  /\ DOMAIN u = DOMAIN t \cup {suite} /\ \A n \in DOMAIN t : n # suite => u[n] = t[n]
  /\ u[suite] \in SuiteData(count, names \cup {test}) /\ u[suite].tests[test] = Fresh(k)
  /\ \A m \in names : u[suite].tests[m] = t[suite].tests[m]

(* RegisterSuite and RegisterTest for the first test of a suite.           *)
LEMMA RegistersFirst ==
  ASSUME NEW t, NEW suite, suite \notin DOMAIN t, NEW count, NEW test, NEW k \in Nat
  PROVE  Registers(t, RegisterTest(RegisterSuite(t, suite, count), suite, test, k), suite, count, {}, test, k)
<1> SUFFICES ASSUME NEW u, u = RegisterTest(RegisterSuite(t, suite, count), suite, test, k)
             PROVE  Registers(t, u, suite, count, {}, test, k)
  OBVIOUS
<1> DEFINE none == [n \in {} |-> {}]
           v == [n \in DOMAIN t \cup {suite} |->
                   IF n = suite THEN [testCount |-> count, tests |-> none] ELSE t[n]]
           one == [n \in DOMAIN v[suite].tests \cup {test} |->
                     IF n = test THEN Fresh(k) ELSE v[suite].tests[n]]
<1>1. RegisterSuite(t, suite, count) = v
  BY DEF RegisterSuite
<1>2. /\ DOMAIN v = DOMAIN t \cup {suite} /\ (\A n \in DOMAIN t : v[n] = t[n])
      /\ v[suite] = [testCount |-> count, tests |-> none] /\ v[suite].tests = none /\ DOMAIN none = {}
  OBVIOUS
<1>3. u = [v EXCEPT ![suite].tests = one]
  BY <1>1, <1>2 DEF RegisterTest, Fresh
<1>4. one \in [{test} -> TestData] /\ one[test] = Fresh(k)
  <2>1. Fresh(k) \in TestData
    BY DEF Fresh, TestData
  <2>2. QED
    BY <1>2, <2>1
<1> HIDE DEF one, v, none
<1>5. u[suite] = [testCount |-> count, tests |-> one]
  BY <1>2, <1>3
<1>6. DOMAIN u = DOMAIN v /\ \A n \in DOMAIN v : n # suite => u[n] = v[n]
  BY <1>3
<1>7. QED
  BY <1>2, <1>4, <1>5, <1>6 DEF SuiteData, Registers

(* The same for a test that is not the first.                              *)
LEMMA RegistersNext ==
  ASSUME NEW t, NEW suite \in DOMAIN t, NEW count, NEW names, t[suite] \in SuiteData(count, names),
         NEW test, test \notin names, NEW k \in Nat
  PROVE  Registers(t, RegisterTest(RegisterSuite(t, suite, count), suite, test, k), suite, count, names, test, k)
<1> SUFFICES ASSUME NEW u, u = RegisterTest(RegisterSuite(t, suite, count), suite, test, k)
             PROVE  Registers(t, u, suite, count, names, test, k)
  OBVIOUS
<1> DEFINE more == [n \in DOMAIN t[suite].tests \cup {test} |->
                      IF n = test THEN Fresh(k) ELSE t[suite].tests[n]]
<1>1. t[suite].tests \in [names -> TestData] /\ t[suite].testCount = count
      /\ t[suite] = [testCount |-> count, tests |-> t[suite].tests]
  BY DEF SuiteData
<1>2. u = [t EXCEPT ![suite].tests = more]
  BY <1>1 DEF RegisterSuite, RegisterTest, Fresh
<1>3. Fresh(k) \in TestData
  BY DEF Fresh, TestData
<1>4. /\ more \in [names \cup {test} -> TestData] /\ more[test] = Fresh(k)
      /\ \A m \in names : more[m] = t[suite].tests[m]
  BY <1>1, <1>3
<1> HIDE DEF more
<1>5. u[suite] = [t[suite] EXCEPT !.tests = more] /\ DOMAIN u = DOMAIN t /\ \A n \in DOMAIN t : n # suite => u[n] = t[n]
  BY <1>2
<1>6. u[suite] = [testCount |-> count, tests |-> more]
  BY <1>1, <1>5
<1>7. QED
  BY <1>4, <1>5, <1>6 DEF SuiteData, Registers

(* RecordTestRun, RecordTestSkip and RecordStep for a registered test.     *)
LEMMA Records ==
  ASSUME NEW t, NEW suite \in DOMAIN t, NEW count, NEW names, t[suite] \in SuiteData(count, names),
         NEW test \in names
  PROVE  LET d == t[suite].tests[test]
         IN  /\ d \in TestData
             /\ Changes(t, RecordTestRun(t, suite, test), suite, count, names, test, [d EXCEPT !.ran = TRUE])
             /\ Changes(t, RecordTestSkip(t, suite, test), suite, count, names, test, [d EXCEPT !.skipped = TRUE])
             /\ Changes(t, RecordStep(t, suite, test), suite, count, names, test, [d EXCEPT !.executed = @ + 1])
<1> DEFINE d == t[suite].tests[test]
<1>1. t[suite].tests \in [names -> TestData] /\ t[suite] = [testCount |-> count, tests |-> t[suite].tests]
  BY DEF SuiteData
<1>2. d \in TestData /\ Found(t, suite, test)
  BY <1>1 DEF Found
<1>3. ASSUME NEW e \in TestData, NEW u, u = [t EXCEPT ![suite].tests[test] = e]
      PROVE  Changes(t, u, suite, count, names, test, e)
  <2> DEFINE f == [t[suite].tests EXCEPT ![test] = e]
  <2>1. f \in [names -> TestData] /\ \A m \in names : f[m] = IF m = test THEN e ELSE t[suite].tests[m]
    BY <1>1
  <2>2. u[suite] = [t[suite] EXCEPT !.tests = f] /\ DOMAIN u = DOMAIN t /\ \A n \in DOMAIN t : n # suite => u[n] = t[n]
    BY <1>3
  <2> HIDE DEF f
  <2>3. u[suite] = [testCount |-> count, tests |-> f]
    BY <1>1, <2>2
  <2>4. QED
    BY <2>1, <2>2, <2>3 DEF Changes, SuiteData
<1>4. /\ [d EXCEPT !.ran = TRUE] \in TestData /\ [d EXCEPT !.skipped = TRUE] \in TestData
      /\ [d EXCEPT !.executed = @ + 1] \in TestData
  <2>1. ASSUME NEW x \in TestData
        PROVE  /\ [x EXCEPT !.ran = TRUE] \in TestData /\ [x EXCEPT !.skipped = TRUE] \in TestData
               /\ [x EXCEPT !.executed = @ + 1] \in TestData
    <3>1. [x EXCEPT !.ran = TRUE] \in TestData /\ [x EXCEPT !.skipped = TRUE] \in TestData
      BY Zenon DEF TestData
    <3>2. [x EXCEPT !.executed = @ + 1] \in TestData
      BY DEF TestData
    <3>3. QED
      BY <3>1, <3>2
  <2> HIDE DEF d
  <2>2. QED
    BY <1>2, <2>1
<1>5. /\ RecordTestRun(t, suite, test) = [t EXCEPT ![suite].tests[test] = [d EXCEPT !.ran = TRUE]]
      /\ RecordTestSkip(t, suite, test) = [t EXCEPT ![suite].tests[test] = [d EXCEPT !.skipped = TRUE]]
      /\ RecordStep(t, suite, test) = [t EXCEPT ![suite].tests[test] = [d EXCEPT !.executed = @ + 1]]
  BY <1>2 DEF RecordTestRun, RecordTestSkip, RecordStep
<1> HIDE DEF d
<1>6. QED
  BY <1>2, <1>3, <1>4, <1>5 DEF d

(* Going on without a word to the tracker.                                 *)
LEMMA TrackedStays ==
  ASSUME NEW s, TrackedInv(s), UNCHANGED <<manifest, tracked>>, Registered(s)' = Registered(s),
         \A t \in 1 .. Registered(s) : Past(s, t)' = Past(s, t),
         \A t \in 1 .. Registered(s) : \A n \in Nat : n <= Allowed(s, t) => n <= Allowed(s, t)'
  PROVE  TrackedInv(s)'
<1>1. TestsOf(s)' = TestsOf(s) /\ Name(s)' = Name(s)
  BY DEF TestsOf, Name
<1>2. NamesUpTo(s, Registered(s))' = NamesUpTo(s, Registered(s))
  BY <1>1 DEF NamesUpTo
<1>3. ASSUME Registered(s) > 0, NEW t \in 1 .. Registered(s)
      PROVE  Right(tracked[Name(s)].tests[TestsOf(s)[t].name], TestsOf(s)[t].skip, Past(s, t)', Allowed(s, t)')
  <2> DEFINE d == tracked[Name(s)].tests[TestsOf(s)[t].name]
  <2>1. d \in TestData /\ Right(d, TestsOf(s)[t].skip, Past(s, t), Allowed(s, t))
    BY <1>3 DEF TrackedInv, SuiteData, NamesUpTo
  <2>2. d.executed \in Nat
    BY <2>1 DEF TestData
  <2> HIDE DEF d
  <2>3. Right(d, TestsOf(s)[t].skip, Past(s, t)', Allowed(s, t)')
    BY <2>1, <2>2 DEF Right
  <2>4. QED
    BY <2>3 DEF d
<1>4. QED
  BY <1>1, <1>2, <1>3, Zenon DEF TrackedInv

(* One method of the tracker for the current test.                         *)
LEMMA TrackedChanges ==
  ASSUME NEW s \in Suites, TrackedInv(s), TestsNamed, UNCHANGED manifest, TypedInv,
         Registered(s) = Len(TestsOf(s)), Registered(s)' = Registered(s),
         NEW a \in 1 .. Len(TestsOf(s)), NEW d,
         Changes(tracked, tracked', Name(s), Len(TestsOf(s)), NamesUpTo(s, Len(TestsOf(s))), TestsOf(s)[a].name, d),
         Right(d, TestsOf(s)[a].skip, Past(s, a)', Allowed(s, a)'),
         \A t \in 1 .. Registered(s) : t # a => Past(s, t)' = Past(s, t),
         \A t \in 1 .. Registered(s) : t # a => \A n \in Nat : n <= Allowed(s, t) => n <= Allowed(s, t)'
  PROVE  TrackedInv(s)'
<1>1. TestsOf(s)' = TestsOf(s) /\ Name(s)' = Name(s) /\ DOMAIN TestsOf(s) = 1 .. Len(TestsOf(s))
      /\ Len(TestsOf(s)) \in Nat /\ Registered(s) > 0
  BY TestsTyped DEF TestsOf, Name
<1>2. NamesUpTo(s, Registered(s))' = NamesUpTo(s, Registered(s))
  BY <1>1 DEF NamesUpTo
<1>3. ASSUME NEW t \in 1 .. Len(TestsOf(s))
      PROVE  Right(tracked'[Name(s)].tests[TestsOf(s)[t].name], TestsOf(s)[t].skip, Past(s, t)', Allowed(s, t)')
  <2> DEFINE e == tracked[Name(s)].tests[TestsOf(s)[t].name]
             x == tracked'[Name(s)].tests[TestsOf(s)[t].name]
  <2>1. TestsOf(s)[t].name \in NamesUpTo(s, Len(TestsOf(s)))
    BY DEF NamesUpTo
  <2>2. x = IF TestsOf(s)[t].name = TestsOf(s)[a].name THEN d ELSE e
    BY <2>1 DEF Changes
  <2>3. CASE t = a
    BY <2>2, <2>3
  <2>4. CASE t # a
    <3>1. TestsOf(s)[t].name # TestsOf(s)[a].name
      BY <1>1, <2>4 DEF TestsNamed
    <3>2. x = e
      BY <2>2, <3>1
    <3>3. e \in TestData /\ Right(e, TestsOf(s)[t].skip, Past(s, t), Allowed(s, t))
      BY <1>1, <2>1 DEF TrackedInv, SuiteData
    <3>4. e.executed \in Nat
      BY <3>3 DEF TestData
    <3> HIDE DEF e, x
    <3>5. Past(s, t)' = Past(s, t) /\ \A n \in Nat : n <= Allowed(s, t) => n <= Allowed(s, t)'
      BY <2>4
    <3>6. Right(x, TestsOf(s)[t].skip, Past(s, t)', Allowed(s, t)')
      BY <3>2, <3>3, <3>4, <3>5 DEF Right
    <3>7. QED
      BY <3>6 DEF x
  <2>5. QED
    BY <2>3, <2>4
<1>4. /\ Name(s) \in DOMAIN tracked'
      /\ tracked'[Name(s)] \in SuiteData(Len(TestsOf(s)), NamesUpTo(s, Len(TestsOf(s))))
  BY <1>1 DEF Changes, TrackedInv
<1>5. QED
  BY <1>1, <1>2, <1>3, <1>4, Zenon DEF TrackedInv

\* the tracker changes at most for suite s
OnlyFor(s) ==
  /\ \A n : n # Name(s) => (n \in DOMAIN tracked' <=> n \in DOMAIN tracked)
  /\ \A n \in DOMAIN tracked : n # Name(s) => tracked'[n] = tracked[n]

(* The steps of a suite's goroutine that do not call the tracker.          *)
LEMMA TrackedByOthers ==
  ASSUME TypedInv, NEW s \in Suites, SuiteInv(s), TrackedInv(s), UNCHANGED <<config, manifest, tracked>>,
         \/ StartSuite(s) \/ StartTest(s) \/ CutTest(s) \/ EndTest(s) \/ EndSuite(s) \/ Store(s) \/ Release(s)
         \/ \E ok \in BOOLEAN : RunStep(s, ok)
  PROVE  TrackedInv(s)'
<1> DEFINE L == Len(TestsOf(s))
           a == at[s]
<1>1. /\ pc \in [Suites -> PCs] /\ at \in [Suites -> Nat \ {0}] /\ step \in [Suites -> Nat]
      /\ L \in Nat /\ a \in Nat /\ a >= 1 /\ step[s] \in Nat
      /\ \A t \in 1 .. L : TestsOf(s)[t].steps \in Nat
  BY TestsTyped DEF TypedInv
<1>2. TestsOf(s)' = TestsOf(s) /\ Test(s) = TestsOf(s)[a]
  BY DEF TestsOf, Test
<1>3. CASE StartSuite(s)
  <2>1. pc[s] = "start" /\ pc'[s] = "register" /\ at'[s] = 1 /\ at[s] = 1
    BY <1>1, <1>3 DEF StartSuite, Goes, SuiteInv, PlaceInv
  <2>2. Registered(s) = 0 /\ Registered(s)' = 0
    BY <2>1 DEF Registered
  <2>3. QED
    BY <2>2, TrackedStays
<1>4. ASSUME pc[s] \in PCs \ {"unborn", "start", "register"}, pc'[s] \in PCs \ {"unborn", "start", "register"},
             at'[s] = a \/ (at'[s] = a + 1 /\ pc[s] = "report" /\ pc'[s] = "test"),
             pc[s] = "report" <=> pc'[s] = "report" \/ at'[s] = a + 1,
             pc'[s] = "step" => step'[s] >= (IF pc[s] = "step" THEN step[s] ELSE 0) /\ step'[s] \in Nat,
             pc[s] = "step" => pc'[s] \in {"step", "verdict"} /\ a \in 1 .. L /\ step[s] <= TestsOf(s)[a].steps,
             pc[s] = "verdict" => pc'[s] = "verdict"
      PROVE  TrackedInv(s)'
  <2>1. Registered(s) = L /\ Registered(s)' = L
    BY <1>2, <1>4 DEF Registered
  <2>2. ASSUME NEW t \in 1 .. L PROVE Past(s, t)' = Past(s, t)
    <3>1. t < a + 1 <=> t < a \/ t = a
      BY <1>1
    <3>2. QED
      BY <1>4, <3>1 DEF Past
  <2>3. ASSUME NEW t \in 1 .. L, NEW n \in Nat, n <= Allowed(s, t) PROVE n <= Allowed(s, t)'
    <3>1. CASE Past(s, t)
      BY <1>2, <2>2, <2>3, <3>1 DEF Allowed
    <3>2. CASE ~Past(s, t) /\ t = a /\ pc[s] = "verdict"
      BY <1>2, <1>4, <2>3, <3>2 DEF Allowed
    <3>3. CASE ~Past(s, t) /\ t = a /\ pc[s] = "step"
      <4>1. n <= step[s] /\ at'[s] = a
        BY <1>4, <2>3, <3>3 DEF Allowed
      <4>2. Allowed(s, t)' = IF pc'[s] = "verdict" THEN TestsOf(s)[t].steps ELSE step'[s]
        BY <1>2, <1>4, <2>2, <3>3, <4>1 DEF Allowed
      <4>3. QED
        BY <1>1, <1>4, <3>3, <4>1, <4>2
    <3>4. CASE ~Past(s, t) /\ ~(t = a /\ pc[s] \in {"verdict", "step"})
      <4>1. n = 0
        BY <2>3, <3>4 DEF Allowed
      <4>2. Allowed(s, t)' \in {TestsOf(s)[t].steps, step'[s], 0} /\ (Allowed(s, t)' # TestsOf(s)[t].steps /\ Allowed(s, t)' # 0 => pc'[s] = "step")
        BY <1>2 DEF Allowed
      <4>3. QED
        BY <1>1, <1>4, <4>1, <4>2
    <3>5. QED
      BY <3>1, <3>2, <3>3, <3>4
  <2>4. QED
    BY <2>1, <2>2, <2>3, TrackedStays
<1>5. CASE StartTest(s)
  <2>1. pc[s] = "test" /\ pc'[s] = "step" /\ at'[s] = a /\ step'[s] = 0
    BY <1>1, <1>5 DEF StartTest, Goes
  <2>2. QED
    BY <1>1, <1>4, <2>1 DEF PCs
<1>6. CASE CutTest(s) \/ \E ok \in BOOLEAN : RunStep(s, ok)
  <2>1. /\ pc[s] = "step" /\ pc'[s] \in {"step", "verdict"} /\ at'[s] = a
        /\ pc'[s] = "step" => step'[s] = step[s] + 1
    BY <1>1, <1>6 DEF CutTest, RunStep, Goes
  <2>2. a \in 1 .. L /\ step[s] < TestsOf(s)[a].steps
    BY <1>1, <1>2, <2>1 DEF SuiteInv, PlaceInv, VerdictInv
  <2>3. step[s] <= TestsOf(s)[a].steps
    BY <1>1, <2>2
  <2>4. QED
    BY <1>1, <1>4, <2>1, <2>2, <2>3 DEF PCs
<1>7. CASE EndTest(s)
  <2>1. pc[s] = "report" /\ pc'[s] = "test" /\ at'[s] = a + 1
    BY <1>1, <1>7 DEF EndTest, Goes
  <2>2. QED
    BY <1>1, <1>4, <2>1 DEF PCs
<1>8. CASE EndSuite(s) \/ Store(s) \/ Release(s)
  <2>1. pc[s] \in {"test", "store", "release"} /\ pc'[s] \in {"store", "release", "gone"} /\ at'[s] = a
    BY <1>1, <1>8 DEF EndSuite, Store, Release, Goes
  <2>2. QED
    BY <1>1, <1>4, <2>1 DEF PCs
<1>9. QED
  BY <1>3, <1>5, <1>6, <1>7, <1>8

(* One round of the registration loop.                                     *)
LEMMA TrackedByRegister ==
  ASSUME TypedInv, TestsNamed, NEW s \in Suites, SuiteInv(s), TrackedInv(s), UNCHANGED <<config, manifest>>, Register(s)
  PROVE  TrackedInv(s)' /\ OnlyFor(s)
<1> SUFFICES ASSUME NEW L, L = Len(TestsOf(s)), NEW a, a = at[s],
                   NEW name, name = TestsOf(s)[a].name, NEW k, k = TestsOf(s)[a].steps
            PROVE  TrackedInv(s)' /\ OnlyFor(s)
  OBVIOUS
<1>1. /\ pc \in [Suites -> PCs] /\ at \in [Suites -> Nat \ {0}]
      /\ L \in Nat /\ L >= 1 /\ a \in Nat /\ a >= 1 /\ DOMAIN TestsOf(s) = 1 .. L
      /\ \A t \in 1 .. L : TestsOf(s)[t].steps \in Nat /\ TestsOf(s)[t].skip \in BOOLEAN
  BY TestsTyped DEF TypedInv
<1>2. TestsOf(s)' = TestsOf(s) /\ Test(s) = TestsOf(s)[a] /\ Name(s)' = Name(s)
  BY DEF TestsOf, Test, Name
<1>3. /\ pc[s] = "register" /\ pc'[s] = IF a < L THEN "register" ELSE "test"
      /\ at'[s] = IF a < L THEN a + 1 ELSE 1
      /\ tracked' = RegisterTest(RegisterSuite(tracked, Name(s), L), Name(s), name, k)
  BY <1>1, <1>2 DEF Register, Goes
<1>4. a \in 1 .. L /\ k \in Nat
  BY <1>1, <1>3 DEF SuiteInv, PlaceInv
<1>5. Registered(s) = a - 1 /\ Registered(s)' = a
  BY <1>1, <1>2, <1>3, <1>4 DEF Registered
<1>6. ASSUME NEW t \in 1 .. a PROVE ~Past(s, t) /\ ~Past(s, t)' /\ Allowed(s, t) = 0 /\ Allowed(s, t)' = 0
  BY <1>1, <1>3 DEF Past, Allowed
<1>7. NamesUpTo(s, a) = NamesUpTo(s, a - 1) \cup {name} /\ name \notin NamesUpTo(s, a - 1)
  <2>1. 1 .. a = 1 .. a - 1 \cup {a} /\ a \notin 1 .. a - 1
    BY <1>1
  <2>2. ASSUME NEW t \in 1 .. a - 1 PROVE t \in 1 .. L /\ TestsOf(s)[t].name # name
    <3>1. t \in 1 .. L /\ t # a
      BY <1>1, <1>4
    <3>2. TestsOf(s)[t].name = TestsOf(s)[a].name => t = a
      BY <1>1, <1>4, <3>1 DEF TestsNamed
    <3>3. QED
      BY <3>1, <3>2
  <2>3. QED
    BY <2>1, <2>2 DEF NamesUpTo
<1>8. /\ Name(s) \in DOMAIN tracked' /\ tracked'[Name(s)] \in SuiteData(L, NamesUpTo(s, a))
      /\ tracked'[Name(s)].tests[name] = Fresh(k)
      /\ \A t \in 1 .. a - 1 :
           tracked'[Name(s)].tests[TestsOf(s)[t].name] = tracked[Name(s)].tests[TestsOf(s)[t].name]
      /\ OnlyFor(s)
  <2>1. Registers(tracked, tracked', Name(s), L, NamesUpTo(s, a - 1), name, k)
    <3>1. CASE a = 1
      <4>1. Name(s) \notin DOMAIN tracked /\ NamesUpTo(s, a - 1) = {}
        BY <1>5, <3>1 DEF TrackedInv, NamesUpTo
      <4>2. Registers(tracked, RegisterTest(RegisterSuite(tracked, Name(s), L), Name(s), name, k), Name(s), L, {}, name, k)
        BY <1>4, <4>1, RegistersFirst, Zenon
      <4>3. QED
        BY <1>3, <4>1, <4>2, Zenon
    <3>2. CASE a # 1
      <4>1. Name(s) \in DOMAIN tracked /\ tracked[Name(s)] \in SuiteData(L, NamesUpTo(s, a - 1))
        BY <1>1, <1>5, <3>2 DEF TrackedInv
      <4>2. Registers(tracked, RegisterTest(RegisterSuite(tracked, Name(s), L), Name(s), name, k), Name(s), L,
                      NamesUpTo(s, a - 1), name, k)
        BY <1>4, <1>7, <4>1, RegistersNext, Zenon
      <4>3. QED
        BY <1>3, <4>2, Zenon
    <3>3. QED
      BY <3>1, <3>2
  <2>2. OnlyFor(s)
    BY <2>1 DEF Registers, OnlyFor
  <2>3. \A t \in 1 .. a - 1 : TestsOf(s)[t].name \in NamesUpTo(s, a - 1)
    BY DEF NamesUpTo
  <2>4. QED
    BY <1>7, <2>1, <2>2, <2>3 DEF Registers
<1>9. ASSUME NEW t \in 1 .. a
      PROVE  Right(tracked'[Name(s)].tests[TestsOf(s)[t].name], TestsOf(s)[t].skip, Past(s, t)', Allowed(s, t)')
  <2>1. CASE t = a
    <3>1. ~Fresh(k).ran /\ ~Fresh(k).skipped /\ Fresh(k).executed = 0
      BY DEF Fresh
    <3>2. QED
      BY <1>6, <1>8, <2>1, <3>1 DEF Right
  <2>2. CASE t # a
    <3>1. t \in 1 .. a - 1
      BY <1>1, <2>2
    <3>2. Right(tracked[Name(s)].tests[TestsOf(s)[t].name], TestsOf(s)[t].skip, Past(s, t), Allowed(s, t))
      BY <1>1, <1>5, <3>1 DEF TrackedInv
    <3>3. QED
      BY <1>6, <1>8, <3>1, <3>2 DEF Right
  <2>3. QED
    BY <2>1, <2>2
<1>10. NamesUpTo(s, Registered(s))' = NamesUpTo(s, a)
  BY <1>2, <1>5 DEF NamesUpTo
<1>11. TrackedInv(s)'
  <2>1. /\ Name(s)' \in DOMAIN tracked'
        /\ tracked'[Name(s)'] \in SuiteData(Len(TestsOf(s)'), NamesUpTo(s, Registered(s))')
    BY <1>2, <1>8, <1>10
  <2>2. \A t \in 1 .. Registered(s)' :
          Right(tracked'[Name(s)'].tests[TestsOf(s)'[t].name], TestsOf(s)'[t].skip, Past(s, t)', Allowed(s, t)')
    BY <1>2, <1>5, <1>9
  <2>3. Registered(s)' # 0
    BY <1>1, <1>5
  <2>4. QED
    BY <2>1, <2>2, <2>3, Zenon DEF TrackedInv
<1>12. QED
  BY <1>8, <1>11
(* What a goroutine records for its current test.                          *)
LEMMA TrackedByRecord ==
  ASSUME TypedInv, TestsNamed, NEW s \in Suites, SuiteInv(s), TrackedInv(s), UNCHANGED <<config, manifest>>,
         \/ SkipTest(s)
         \/ FinishTest(s)
         \/ (\E ok \in BOOLEAN : RunStep(s, ok)) /\ tracked' = RecordStep(tracked, Name(s), Test(s).name)
  PROVE  TrackedInv(s)' /\ OnlyFor(s)
<1> SUFFICES ASSUME NEW L, L = Len(TestsOf(s)), NEW a, a = at[s], NEW name, name = TestsOf(s)[a].name,
                    NEW old, old = tracked[Name(s)].tests[name]
             PROVE  TrackedInv(s)' /\ OnlyFor(s)
  OBVIOUS
<1>1. /\ pc \in [Suites -> PCs] /\ at \in [Suites -> Nat \ {0}] /\ step \in [Suites -> Nat]
      /\ L \in Nat /\ L >= 1 /\ a \in Nat /\ a >= 1 /\ DOMAIN TestsOf(s) = 1 .. L
      /\ \A t \in 1 .. L : TestsOf(s)[t].steps \in Nat /\ TestsOf(s)[t].skip \in BOOLEAN
  BY TestsTyped DEF TypedInv
<1>2. TestsOf(s)' = TestsOf(s) /\ Test(s) = TestsOf(s)[a] /\ Name(s)' = Name(s)
  BY DEF TestsOf, Test, Name
<1>3. a \in 1 .. L /\ pc[s] \in {"test", "step", "verdict"}
  <2>1. CASE SkipTest(s)
    BY <1>1, <2>1 DEF SkipTest, Goes
  <2>2. CASE FinishTest(s) \/ \E ok \in BOOLEAN : RunStep(s, ok)
    <3>1. pc[s] \in {"step", "verdict"}
      BY <2>2 DEF FinishTest, RunStep, Goes
    <3>2. QED
      BY <1>1, <3>1 DEF SuiteInv, PlaceInv
  <2>3. QED
    BY <2>1, <2>2
<1>4. pc'[s] \in {"test", "step", "verdict", "report"} /\ (at'[s] = a \/ (at'[s] = a + 1 /\ pc'[s] = "test" /\ pc[s] = "test"))
  <2>1. CASE SkipTest(s)
    BY <1>1, <2>1 DEF SkipTest, Goes
  <2>2. CASE FinishTest(s)
    BY <1>1, <2>2 DEF FinishTest, Goes
  <2>3. CASE \E ok \in BOOLEAN : RunStep(s, ok)
    BY <1>1, <2>3 DEF RunStep, Goes
  <2>4. QED
    BY <2>1, <2>2, <2>3
<1>5. Registered(s) = L /\ Registered(s)' = L
  BY <1>2, <1>3, <1>4 DEF Registered
<1>6. Name(s) \in DOMAIN tracked /\ tracked[Name(s)] \in SuiteData(L, NamesUpTo(s, L)) /\ name \in NamesUpTo(s, L)
      /\ Right(old, TestsOf(s)[a].skip, Past(s, a), Allowed(s, a))
  BY <1>1, <1>3, <1>5 DEF TrackedInv, NamesUpTo
<1>7. /\ old \in TestData
      /\ Changes(tracked, RecordTestRun(tracked, Name(s), name), Name(s), L, NamesUpTo(s, L), name, [old EXCEPT !.ran = TRUE])
      /\ Changes(tracked, RecordTestSkip(tracked, Name(s), name), Name(s), L, NamesUpTo(s, L), name, [old EXCEPT !.skipped = TRUE])
      /\ Changes(tracked, RecordStep(tracked, Name(s), name), Name(s), L, NamesUpTo(s, L), name, [old EXCEPT !.executed = @ + 1])
  BY <1>6, Records, Zenon
<1>8. ASSUME NEW t \in 1 .. L, t # a
      PROVE  Past(s, t)' = Past(s, t) /\ \A n \in Nat : n <= Allowed(s, t) => n <= Allowed(s, t)'
  <2>1. t < a + 1 <=> t < a
    BY <1>1, <1>8
  <2>2. (Past(s, t) <=> t < a) /\ Past(s, t)' = Past(s, t)
    BY <1>3, <1>4, <1>8, <2>1 DEF Past
  <2>3. Past(s, t)' <=> t < a
    BY <2>2
  <2>4. CASE t < a
    BY <1>2, <2>2, <2>3, <2>4 DEF Allowed
  <2>5. CASE ~(t < a)
    <3>1. Allowed(s, t) = 0
      BY <1>8, <2>2, <2>5 DEF Allowed
    <3>2. Allowed(s, t)' = 0
      <4>1. ~(t = at'[s] /\ pc'[s] \in {"step", "verdict"})
        BY <1>4, <1>8
      <4>2. QED
        BY <2>3, <2>5, <4>1 DEF Allowed
    <3>3. QED
      BY <2>2, <3>1, <3>2
  <2>6. QED
    BY <2>2, <2>3, <2>4, <2>5
<1>9. ASSUME NEW d, Right(d, TestsOf(s)[a].skip, Past(s, a)', Allowed(s, a)'),
             Changes(tracked, tracked', Name(s), L, NamesUpTo(s, L), name, d)
      PROVE  TrackedInv(s)' /\ OnlyFor(s)
  <2>1. OnlyFor(s)
    BY <1>9 DEF Changes, OnlyFor
  <2>2. /\ Changes(tracked, tracked', Name(s), Len(TestsOf(s)), NamesUpTo(s, Len(TestsOf(s))), TestsOf(s)[a].name, d)
        /\ Registered(s) = Len(TestsOf(s)) /\ a \in 1 .. Len(TestsOf(s)) /\ Registered(s)' = Registered(s)
    BY <1>3, <1>5, <1>9
  <2>3. TrackedInv(s)'
    BY <1>5, <1>8, <1>9, <2>2, TrackedChanges, Zenon
  <2>4. QED
    BY <2>1, <2>3
<1>10. CASE SkipTest(s)
  <2>1. /\ tracked' = RecordTestSkip(tracked, Name(s), name)
        /\ pc[s] = "test" /\ pc'[s] = "test" /\ at'[s] = a + 1 /\ TestsOf(s)[a].skip
    BY <1>1, <1>2, <1>10 DEF SkipTest, Goes
  <2>2. ~Past(s, a) /\ Past(s, a)' /\ Allowed(s, a) = 0 /\ Allowed(s, a)' = TestsOf(s)[a].steps
    BY <1>1, <1>2, <2>1 DEF Past, Allowed
  <2>3. ASSUME NEW d, d = [old EXCEPT !.skipped = TRUE]
        PROVE  Right(d, TestsOf(s)[a].skip, Past(s, a)', Allowed(s, a)')
    <3>1. ~d.ran /\ d.skipped /\ d.executed <= 0 /\ d.executed \in Nat
      <4>1. old.executed \in Nat /\ old.executed <= 0 /\ ~old.ran
        BY <1>6, <1>7, <2>1, <2>2 DEF Right, TestData
      <4>2. d.ran = old.ran /\ d.skipped = TRUE /\ d.executed = old.executed
        BY <1>7, <2>3 DEF TestData
      <4>3. QED
        BY <4>1, <4>2
    <3>2. d.executed <= TestsOf(s)[a].steps
      BY <1>1, <1>3, <3>1
    <3>3. QED
      BY <2>1, <2>2, <3>1, <3>2 DEF Right
  <2>4. QED
    BY <1>7, <1>9, <2>1, <2>3
<1>11. CASE FinishTest(s)
  <2>1. /\ tracked' = RecordTestRun(tracked, Name(s), name)
        /\ pc[s] = "verdict" /\ pc'[s] = "report" /\ at'[s] = a
    BY <1>1, <1>2, <1>11 DEF FinishTest, Goes
  <2>2. ~TestsOf(s)[a].skip
    BY <1>2, <2>1 DEF SuiteInv, PlaceInv
  <2>3. ~Past(s, a) /\ Past(s, a)' /\ Allowed(s, a) = TestsOf(s)[a].steps /\ Allowed(s, a)' = TestsOf(s)[a].steps
    BY <1>1, <1>2, <2>1 DEF Past, Allowed
  <2>4. ASSUME NEW d, d = [old EXCEPT !.ran = TRUE]
        PROVE  Right(d, TestsOf(s)[a].skip, Past(s, a)', Allowed(s, a)')
    <3>1. d.ran = TRUE /\ d.skipped = old.skipped /\ d.executed = old.executed
      BY <1>7, <2>4 DEF TestData
    <3>2. QED
      BY <1>6, <2>2, <2>3, <3>1 DEF Right
  <2>5. QED
    BY <1>7, <1>9, <2>1, <2>4
<1>12. CASE (\E ok \in BOOLEAN : RunStep(s, ok)) /\ tracked' = RecordStep(tracked, Name(s), Test(s).name)
  <2>1. /\ tracked' = RecordStep(tracked, Name(s), name)
        /\ pc[s] = "step" /\ pc'[s] \in {"step", "verdict"} /\ at'[s] = a /\ step'[s] = step[s] + 1
    BY <1>1, <1>2, <1>12 DEF RunStep, Goes
  <2>2. step[s] < TestsOf(s)[a].steps /\ ~TestsOf(s)[a].skip
    BY <1>2, <2>1 DEF SuiteInv, PlaceInv, VerdictInv
  <2>3. /\ ~Past(s, a) /\ ~Past(s, a)' /\ Allowed(s, a) = step[s]
        /\ Allowed(s, a)' = IF pc'[s] = "verdict" THEN TestsOf(s)[a].steps ELSE step[s] + 1
    BY <1>1, <1>2, <2>1 DEF Past, Allowed
  <2>4. ASSUME NEW d, d = [old EXCEPT !.executed = @ + 1]
        PROVE  Right(d, TestsOf(s)[a].skip, Past(s, a)', Allowed(s, a)')
    <3>1. d.ran = old.ran /\ d.skipped = old.skipped /\ d.executed = old.executed + 1 /\ old.executed \in Nat
      BY <1>7, <2>4 DEF TestData
    <3>2. old.executed <= step[s] /\ ~old.ran /\ ~old.skipped
      BY <1>6, <2>2, <2>3 DEF Right
    <3>3. d.executed <= step[s] + 1 /\ step[s] + 1 <= TestsOf(s)[a].steps
      <4>1. step[s] \in Nat /\ TestsOf(s)[a].steps \in Nat
        BY <1>1, <1>3 DEF TypedInv
      <4>2. QED
        BY <2>2, <3>1, <3>2, <4>1
    <3>4. d.executed <= Allowed(s, a)'
      BY <1>1, <1>3, <2>2, <2>3, <3>1, <3>3, SMTT(20)
    <3>5. QED
      BY <2>2, <2>3, <3>1, <3>2, <3>4 DEF Right
  <2>5. QED
    BY <1>7, <1>9, <2>1, <2>4
<1>13. QED
  BY <1>10, <1>11, <1>12

(* Every step of a suite's goroutine keeps what is known of its entry, and *)
(* leaves the entries of other names alone.                                *)
LEMMA TrackedByStep ==
  ASSUME TypedInv, TestsNamed, NEW s \in Suites, SuiteInv(s), TrackedInv(s), UNCHANGED <<config, manifest>>, SuiteStep(s)
  PROVE  TrackedInv(s)' /\ OnlyFor(s)
<1>1. CASE Register(s)
  BY <1>1, TrackedByRegister
<1>2. CASE SkipTest(s) \/ FinishTest(s)
  BY <1>2, TrackedByRecord
<1>3. CASE (\E ok \in BOOLEAN : RunStep(s, ok)) /\ tracked' = RecordStep(tracked, Name(s), Test(s).name)
  BY <1>3, TrackedByRecord
<1>4. ASSUME \/ StartSuite(s) \/ StartTest(s) \/ CutTest(s) \/ EndTest(s) \/ EndSuite(s) \/ Store(s) \/ Release(s)
             \/ \E ok \in BOOLEAN : RunStep(s, ok),
             tracked' = tracked
      PROVE  TrackedInv(s)' /\ OnlyFor(s)
  <2>1. OnlyFor(s)
    BY <1>4 DEF OnlyFor
  <2>2. QED
    BY <1>4, <2>1, TrackedByOthers
<1>5. CASE StartSuite(s) \/ StartTest(s) \/ CutTest(s) \/ EndTest(s) \/ EndSuite(s) \/ Store(s) \/ Release(s)
  <2>1. tracked' = tracked
    BY <1>5 DEF StartSuite, StartTest, CutTest, EndTest, EndSuite, Store, Release, sharedVars
  <2>2. QED
    BY <1>4, <1>5, <2>1
<1>6. CASE \E ok \in BOOLEAN : RunStep(s, ok)
  <2>1. tracked' = tracked \/ tracked' = RecordStep(tracked, Name(s), Test(s).name)
    BY <1>6 DEF RunStep
  <2>2. QED
    BY <1>3, <1>4, <1>6, <2>1
<1>7. QED
  BY <1>1, <1>2, <1>5, <1>6 DEF SuiteStep

(* Where the place of a suite and its entry stay, all that is known of it  *)
(* does.                                                                   *)
LEMMA TrackedKept ==
  ASSUME NEW u, TrackedInv(u), UNCHANGED manifest,
         pc'[u] = pc[u] \/ (pc[u] = "unborn" /\ pc'[u] = "start"), at'[u] = at[u], step'[u] = step[u],
         Name(u) \in DOMAIN tracked' <=> Name(u) \in DOMAIN tracked,
         Name(u) \in DOMAIN tracked => tracked'[Name(u)] = tracked[Name(u)]
  PROVE  TrackedInv(u)'
<1>1. TestsOf(u)' = TestsOf(u) /\ Name(u)' = Name(u)
  BY DEF TestsOf, Name
<1>2. Registered(u)' = Registered(u)
  BY <1>1 DEF Registered
<1>3. NamesUpTo(u, Registered(u))' = NamesUpTo(u, Registered(u))
  BY <1>1, <1>2 DEF NamesUpTo
<1>4. ASSUME NEW t \in 1 .. Registered(u)
      PROVE  Past(u, t)' = Past(u, t) /\ Allowed(u, t)' = Allowed(u, t)
  <2>1. Past(u, t)' = Past(u, t)
    BY DEF Past
  <2>2. QED
    BY <1>1, <2>1 DEF Allowed
<1>5. CASE Registered(u) = 0
  BY <1>1, <1>2, <1>5 DEF TrackedInv
<1>6. CASE Registered(u) > 0
  <2>1. Name(u) \in DOMAIN tracked' /\ tracked'[Name(u)] = tracked[Name(u)]
    BY <1>6 DEF TrackedInv
  <2>2. /\ Name(u)' \in DOMAIN tracked'
        /\ tracked'[Name(u)'] \in SuiteData(Len(TestsOf(u)'), NamesUpTo(u, Registered(u))')
    BY <1>1, <1>3, <1>6, <2>1 DEF TrackedInv
  <2>3. \A t \in 1 .. Registered(u)' :
          Right(tracked'[Name(u)'].tests[TestsOf(u)'[t].name], TestsOf(u)'[t].skip, Past(u, t)', Allowed(u, t)')
    BY <1>1, <1>2, <1>4, <1>6, <2>1 DEF TrackedInv
  <2>4. Registered(u)' # 0
    BY <1>2, <1>6
  <2>5. QED
    BY <2>2, <2>3, <2>4, Zenon DEF TrackedInv
<1>7. QED
  BY <1>2, <1>5, <1>6 DEF TrackedInv

(* No step of the run makes the tracker wrong.                             *)
LEMMA CoverageKept ==
  ASSUME IInv, CoverageInv, [Next]_vars
  PROVE  CoverageInv'
<1>1. UNCHANGED <<config, manifest>>
  BY DEF Next, Step, Interrupt, vars
<1>2. Suites' = Suites /\ (SuitesNamed' <=> SuitesNamed) /\ (TestsNamed' <=> TestsNamed)
  BY <1>1 DEF Suites, SuitesNamed, TestsNamed, Name, TestsOf
<1> SUFFICES ASSUME SuitesNamed, TestsNamed, NEW u \in Suites
             PROVE  TrackedInv(u)'
  BY <1>2 DEF CoverageInv
<1>3. TypedInv /\ TrackedInv(u) /\ \A s \in Suites : SuiteInv(s) /\ TrackedInv(s)
  BY DEF IInv, CoverageInv
<1>4. CASE \E s \in Suites : SuiteStep(s)
  <2>1. PICK s \in Suites : SuiteStep(s)
    BY <1>4
  <2>2. TrackedInv(s)' /\ OnlyFor(s)
    BY <1>1, <1>3, <2>1, TrackedByStep
  <2>3. CASE u # s
    <3>1. pc'[u] = pc[u] /\ at'[u] = at[u] /\ step'[u] = step[u]
      BY <1>3, <2>1, <2>3, SuiteFrame
    <3>2. Name(u) # Name(s)
      BY <2>3 DEF SuitesNamed
    <3>3. /\ Name(u) \in DOMAIN tracked' <=> Name(u) \in DOMAIN tracked
          /\ Name(u) \in DOMAIN tracked => tracked'[Name(u)] = tracked[Name(u)]
      BY <2>2, <3>2 DEF OnlyFor
    <3>4. QED
      BY <1>1, <1>3, <3>1, <3>3, TrackedKept
  <2>4. QED
    BY <2>2, <2>3
<1>5. CASE Launch
  <2>1. UNCHANGED <<at, step, tracked>> /\ next \in Suites /\ pc' = [pc EXCEPT ![next] = "start"]
    BY <1>5 DEF Launch, sharedVars
  <2>2. pc[next] = "unborn" /\ pc \in [Suites -> PCs]
    <3>1. next >= next
      BY <2>1 DEF IInv, TypedInv
    <3>2. QED
      BY <2>1, <3>1 DEF IInv, PoolInv, TypedInv
  <2>3. pc'[u] = pc[u] \/ (pc[u] = "unborn" /\ pc'[u] = "start")
    BY <2>1, <2>2
  <2>4. QED
    BY <1>1, <1>3, <2>1, <2>3, TrackedKept
<1>6. CASE UNCHANGED <<suiteVars, sharedVars>>
  <2>1. UNCHANGED <<pc, at, step, tracked>>
    BY <1>6 DEF suiteVars, sharedVars
  <2>2. QED
    BY <1>1, <1>3, <2>1, TrackedKept
<1>7. \/ Launch \/ (\E s \in Suites : SuiteStep(s)) \/ UNCHANGED <<suiteVars, sharedVars>>
  BY DEF Next, Step, MainStep, PoolDone, ComputeExitCode, CheckGate, Interrupt, vars
<1>8. QED
  BY <1>4, <1>5, <1>6, <1>7

(* Before the first suite is launched the tracker is empty.                *)
LEMMA CoverageAtInit == Init => CoverageInv
<1> SUFFICES ASSUME Init, NEW s \in Suites PROVE TrackedInv(s)
  BY DEF CoverageInv
<1>1. pc[s] = "unborn" /\ tracked = [n \in {} |-> {}]
  BY DEF Init, NewTracker
<1>2. Registered(s) = 0 /\ DOMAIN tracked = {}
  BY <1>1 DEF Registered
<1>3. QED
  BY <1>2 DEF TrackedInv

(* Tests of distinct names are as many as their names.                     *)
LEMMA AsManyNames ==
  ASSUME TestsNamed, NEW s \in Suites, NEW T \in SUBSET DOMAIN TestsOf(s), IsFiniteSet(T)
  PROVE  Cardinality({TestsOf(s)[t].name : t \in T}) = Cardinality(T)
<1> DEFINE names == {TestsOf(s)[t].name : t \in T}
           f == [t \in T |-> TestsOf(s)[t].name]
<1>1. \A t, w \in T : f[t] = f[w] => t = w
  BY DEF TestsNamed
<1>2. f \in [T -> names] /\ (\A n \in names : \E t \in T : f[t] = n)
  OBVIOUS
<1>3. DOMAIN f = T
  OBVIOUS
<1> HIDE DEF f, names
<1>4. f \in Injection(T, names)
  BY <1>1, <1>2, <1>3 DEF Injection, IsInjective
<1>5. f \in Surjection(T, names)
  BY <1>2 DEF Surjection
<1>6. ExistsBijection(T, names)
  BY <1>4, <1>5 DEF ExistsBijection, Bijection
<1>7. QED
  BY <1>6, FS_Bijection DEF names

(* In a run with suites and tests of distinct names the coverage counts    *)
(* are those of what was to be run and what was to be skipped, whatever    *)
(* the order in which the goroutines called the tracker.                   *)
THEOREM CoverageIsExact == Spec => []CoverageAddsUp
<1>1. IInv /\ CoverageInv => CoverageAddsUp
  <2> SUFFICES ASSUME IInv, CoverageInv, SuitesNamed, TestsNamed, main # "launch", NEW s \in Suites
               PROVE  /\ Name(s) \in DOMAIN tracked
                      /\ TotalTests(tracked, Name(s)) = Len(TestsOf(s))
                      /\ RanTests(tracked, Name(s)) = Cardinality(PlacesToRun(s))
                      /\ SkippedTests(tracked, Name(s)) = Len(TestsOf(s)) - Cardinality(PlacesToRun(s))
                      /\ \A t \in DOMAIN TestsOf(s) :
                           tracked[Name(s)].tests[TestsOf(s)[t].name].executed <= TestsOf(s)[t].steps
    BY DEF CoverageAddsUp
  <2> DEFINE L == Len(TestsOf(s))
             entry == tracked[Name(s)]
             T == PlacesToRun(s)
             U == (1 .. L) \ T
  <2>1. L \in Nat /\ L >= 1 /\ DOMAIN TestsOf(s) = 1 .. L /\ pc[s] = "gone" /\ at[s] = L + 1
    BY TestsTyped DEF IInv, PoolInv, SuiteInv, PlaceInv
  <2>2. Registered(s) = L /\ Registered(s) > 0
    BY <2>1 DEF Registered
  <2>3. Name(s) \in DOMAIN tracked /\ entry \in SuiteData(L, NamesUpTo(s, L))
    BY <2>2 DEF CoverageInv, TrackedInv
  <2>4. ASSUME NEW t \in 1 .. L
        PROVE  LET d == entry.tests[TestsOf(s)[t].name]
               IN  (d.ran <=> t \in T) /\ (d.skipped <=> t \notin T) /\ d.executed <= TestsOf(s)[t].steps
    <3>1. Past(s, t) /\ Allowed(s, t) = TestsOf(s)[t].steps
      BY <2>1 DEF Past, Allowed
    <3>2. Right(entry.tests[TestsOf(s)[t].name], TestsOf(s)[t].skip, Past(s, t), Allowed(s, t))
      BY <2>2 DEF CoverageInv, TrackedInv
    <3>3. t \in T <=> ~TestsOf(s)[t].skip
      BY <2>1 DEF PlacesToRun
    <3>4. QED
      BY <3>1, <3>2, <3>3 DEF Right
  <2>5. entry.testCount = L /\ DOMAIN entry.tests = {TestsOf(s)[t].name : t \in 1 .. L}
    BY <2>3 DEF SuiteData, NamesUpTo
  <2>6. T \subseteq 1 .. L
    BY <2>1 DEF PlacesToRun
  <2>7. /\ IsFiniteSet(T) /\ IsFiniteSet(U)
        /\ Cardinality(U) = L - Cardinality(T)
    <3>1. IsFiniteSet(1 .. L) /\ Cardinality(1 .. L) = L
      BY <2>1, CountUpTo
    <3>2. (1 .. L) \cap T = T /\ IsFiniteSet(T) /\ IsFiniteSet(U)
      BY <2>6, <3>1, FS_Subset
    <3>3. Cardinality(U) = Cardinality(1 .. L) - Cardinality((1 .. L) \cap T)
      BY <3>1, FS_Difference
    <3>4. QED
      BY <3>1, <3>2, <3>3
  <2> HIDE DEF entry, L, T, U
  <2>8. /\ {n \in DOMAIN entry.tests : entry.tests[n].ran} = {TestsOf(s)[t].name : t \in T}
        /\ {n \in DOMAIN entry.tests : entry.tests[n].skipped} = {TestsOf(s)[t].name : t \in U}
    BY <2>4, <2>5, <2>6 DEF U
  <2>9. /\ Cardinality({n \in DOMAIN entry.tests : entry.tests[n].ran}) = Cardinality(T)
        /\ Cardinality({n \in DOMAIN entry.tests : entry.tests[n].skipped}) = Cardinality(U)
    BY <2>1, <2>6, <2>7, <2>8, AsManyNames DEF U
  <2>10. /\ TotalTests(tracked, Name(s)) = L
         /\ RanTests(tracked, Name(s)) = Cardinality(T) /\ SkippedTests(tracked, Name(s)) = L - Cardinality(T)
    BY <2>5, <2>7, <2>9 DEF TotalTests, RanTests, SkippedTests, entry
  <2>11. QED
    BY <2>1, <2>3, <2>4, <2>10 DEF entry, L, T
<1>2. IInv /\ CoverageInv /\ [Next]_vars => CoverageInv'
  BY CoverageKept
<1>3. QED
  BY Invariance, CoverageAtInit, <1>1, <1>2, PTL DEF Spec
-----------------------------------------------------------------------------
(* What the JSON reporter is told, with one suite at a time.               *)

Entry == [name : STRING, steps : Seq(BOOLEAN), passed : BOOLEAN]
SuiteEntry == [name : STRING, summary : Seq(Nat), tests : Seq(Entry)]

Shaped(r) ==
  /\ r = [suites |-> r.suites, tests |-> r.tests, testOrder |-> r.testOrder]
  /\ r.suites \in Seq(SuiteEntry)

\* of some tests, those up to the n-th that are to be run, and the place of the t-th among them
Ran(tests, n) == {t \in 1 .. n : ~tests[t].skip}
PlaceOf(tests, t) == Cardinality(Ran(tests, t))

Distinct(tests) == \A t, u \in DOMAIN tests : tests[t].name = tests[u].name => t = u

AllTrueFor(n) == [i \in 1 .. n |-> TRUE]

KeyAt(suite, tests, t) == Key(suite, tests[t].name)
KeysTo(suite, tests, n) == {KeyAt(suite, tests, t) : t \in Ran(tests, n)}

\* the entry tells of the test that it had this verdict
Tells(entry, test, verdict) ==
  /\ entry.name = test.name
  /\ entry.passed = verdict
  /\ Len(entry.steps) <= test.steps
  /\ entry.passed => entry.steps = AllTrueFor(test.steps)

\* the reporter has an entry for each test up to the n-th, in order
Ordered(r, suite, tests, n) ==
  /\ r.tests \in [KeysTo(suite, tests, n) -> Entry]
  /\ r.testOrder \in Seq(KeysTo(suite, tests, n))
  /\ Len(r.testOrder) = PlaceOf(tests, n)
  /\ \A t \in Ran(tests, n) : r.testOrder[PlaceOf(tests, t)] = KeyAt(suite, tests, t)

\* and those up to the n-th tell of these verdicts
Told(r, suite, tests, flags, n) ==
  \A t \in Ran(tests, n) : Tells(r.tests[KeyAt(suite, tests, t)], tests[t], flags[PlaceOf(tests, t)])

\* the entry of a test that is being run
Midway(entry, test, place, n, ok) ==
  /\ entry.name = test.name /\ Len(entry.steps) <= test.steps
  /\ place = "step" => entry.steps = AllTrueFor(n)
  /\ place # "step" /\ ok => entry.steps = AllTrueFor(test.steps)

\* the entry of a suite that is over
Closed(entry, tests, flags) ==
  /\ Len(entry.tests) = PlaceOf(tests, Len(tests))
  /\ \A t \in Ran(tests, Len(tests)) : Tells(entry.tests[PlaceOf(tests, t)], tests[t], flags[PlaceOf(tests, t)])

\* the tests of suite s that are over, and those that were started
Over(s) == IF pc[s] = "register" THEN 0 ELSE at[s] - 1
Started(s) == IF pc[s] \in {"step", "verdict", "report"} THEN at[s] ELSE Over(s)

\* while suite s is at work, and when it is over
RunningInv(s) ==
  /\ report.suites[s].tests = <<>>
  /\ Ordered(report, Name(s), TestsOf(s), Started(s))
  /\ Told(report, Name(s), TestsOf(s), sr[s].results, Over(s))
  /\ pc[s] \in {"step", "verdict", "report"} =>
       Midway(report.tests[KeyAt(Name(s), TestsOf(s), at[s])], Test(s), pc[s], step[s], passing[s])
  /\ pc[s] = "report" => sr[s].results[PlaceOf(TestsOf(s), at[s])] = passing[s]

ClosedInv(s) ==
  /\ report.suites[s].summary = Counts(sr[s])
  /\ Closed(report.suites[s], TestsOf(s), sr[s].results)

EntriesInv(s) ==
  /\ pc[s] \in {"register", "test", "step", "verdict", "report"} => RunningInv(s)
  /\ pc[s] \in {"store", "release", "gone"} => ClosedInv(s)

Begun(s) == pc[s] \notin {"unborn", "start"}

\* suites come one after the other and each has its place in the report
OrderInv ==
  /\ \A s \in Suites : s < next - 1 => pc[s] = "gone"
  /\ Shaped(report) /\ Len(report.suites) <= Len(manifest)
  /\ \A s \in Suites : Begun(s) <=> s <= Len(report.suites)
  /\ \A s \in Suites : Begun(s) => report.suites[s].name = Name(s)

Sequential == config.reporter = "json" /\ Size = 1 /\ TestsNamed

ReportInv == Sequential => OrderInv /\ \A s \in Suites : EntriesInv(s)

(* Going one test on.                                                      *)
LEMMA RanOn ==
  ASSUME NEW tests, NEW n \in Nat
  PROVE  /\ IsFiniteSet(Ran(tests, n)) /\ PlaceOf(tests, n) \in Nat
         /\ n = 0 => Ran(tests, n) = {} /\ PlaceOf(tests, n) = 0
         /\ tests[n + 1].skip => Ran(tests, n + 1) = Ran(tests, n) /\ PlaceOf(tests, n + 1) = PlaceOf(tests, n)
         /\ ~tests[n + 1].skip =>
              /\ Ran(tests, n + 1) = Ran(tests, n) \cup {n + 1} /\ n + 1 \notin Ran(tests, n)
              /\ PlaceOf(tests, n + 1) = PlaceOf(tests, n) + 1
<1>1. IsFiniteSet(Ran(tests, n))
  <2>1. IsFiniteSet(1 .. n) /\ Ran(tests, n) \subseteq 1 .. n
    BY FS_Interval DEF Ran
  <2>2. QED
    BY <2>1, FS_Subset
<1>2. PlaceOf(tests, n) \in Nat
  BY <1>1, FS_CardinalityType DEF PlaceOf
<1>3. n = 0 => Ran(tests, n) = {} /\ PlaceOf(tests, n) = 0
  <2>1. n = 0 => Ran(tests, n) = {}
    BY DEF Ran
  <2>2. QED
    BY <2>1, FS_EmptySet DEF PlaceOf
<1>4. 1 .. n + 1 = 1 .. n \cup {n + 1} /\ n + 1 \notin 1 .. n
  OBVIOUS
<1>5. CASE tests[n + 1].skip
  <2>1. Ran(tests, n + 1) = Ran(tests, n)
    BY <1>4, <1>5 DEF Ran
  <2>2. QED
    BY <1>1, <1>2, <1>3, <1>5, <2>1 DEF PlaceOf
<1>6. CASE ~tests[n + 1].skip
  <2>1. Ran(tests, n + 1) = Ran(tests, n) \cup {n + 1} /\ n + 1 \notin Ran(tests, n)
    BY <1>4, <1>6 DEF Ran
  <2>2. PlaceOf(tests, n + 1) = PlaceOf(tests, n) + 1
    BY <1>1, <2>1, OneMore DEF PlaceOf
  <2>3. QED
    BY <1>1, <1>2, <1>3, <1>6, <2>1, <2>2
<1>7. QED
  BY <1>5, <1>6

(* The places of the tests to be run are within the count of them.         *)
LEMMA RanPlaces ==
  ASSUME NEW tests, NEW n \in Nat, NEW t \in Ran(tests, n)
  PROVE  t \in 1 .. n /\ ~tests[t].skip /\ PlaceOf(tests, t) \in 1 .. PlaceOf(tests, n)
<1>1. t \in 1 .. n /\ ~tests[t].skip
  BY DEF Ran
<1>2. t \in Ran(tests, t) /\ Ran(tests, t) \subseteq Ran(tests, n)
  BY <1>1 DEF Ran
<1>3. IsFiniteSet(Ran(tests, n)) /\ IsFiniteSet(Ran(tests, t)) /\ PlaceOf(tests, t) \in Nat /\ PlaceOf(tests, n) \in Nat
  BY <1>1, RanOn
<1>4. PlaceOf(tests, t) <= PlaceOf(tests, n)
  BY <1>2, <1>3, FS_Subset DEF PlaceOf
<1>5. PlaceOf(tests, t) # 0
  BY <1>2, <1>3, FS_EmptySet DEF PlaceOf
<1>6. QED
  BY <1>1, <1>3, <1>4, <1>5

(* OnTestStart for the next test that is to be run.                        *)
LEMMA Starts ==
  ASSUME NEW r, Shaped(r), NEW suite, NEW tests \in Seq(TestRecord), Distinct(tests), NEW flags,
         NEW n \in 1 .. Len(tests), ~tests[n].skip, Ordered(r, suite, tests, n - 1), Told(r, suite, tests, flags, n - 1)
  PROVE  LET u == OnTestStart(r, suite, tests[n].name)
         IN  /\ Shaped(u) /\ u.suites = r.suites
             /\ Ordered(u, suite, tests, n) /\ Told(u, suite, tests, flags, n - 1)
             /\ u.tests[KeyAt(suite, tests, n)] = [name |-> tests[n].name, steps |-> <<>>, passed |-> FALSE]
<1> DEFINE key == KeyAt(suite, tests, n)
           new == [name |-> tests[n].name, steps |-> <<>>, passed |-> FALSE]
           more == [k \in DOMAIN r.tests \cup {key} |-> IF k = key THEN new ELSE r.tests[k]]
           order == Append(r.testOrder, key)
           u == OnTestStart(r, suite, tests[n].name)
           K == KeysTo(suite, tests, n - 1)
<1>1. n - 1 \in Nat /\ (n - 1) + 1 = n /\ tests[n].name \in STRING
  <2>1. tests[n] \in TestRecord
    OBVIOUS
  <2>2. QED
    BY <2>1 DEF TestRecord
<1>2. /\ Ran(tests, n) = Ran(tests, n - 1) \cup {n} /\ PlaceOf(tests, n) = PlaceOf(tests, n - 1) + 1
      /\ PlaceOf(tests, n - 1) \in Nat
  BY <1>1, RanOn
<1>3. KeysTo(suite, tests, n) = K \cup {key}
  BY <1>2 DEF KeysTo
<1>4. \A t \in Ran(tests, n - 1) : KeyAt(suite, tests, t) # key /\ KeyAt(suite, tests, t) \in K
  <2>1. \A t \in Ran(tests, n - 1) : t \in DOMAIN tests /\ t # n /\ n \in DOMAIN tests
    BY <1>1 DEF Ran
  <2>2. QED
    BY <2>1 DEF KeyAt, Key, Distinct, KeysTo
<1>5. u = [r EXCEPT !.tests = more, !.testOrder = order]
  BY DEF OnTestStart, KeyAt
<1>6. /\ r.tests \in [K -> Entry] /\ r.testOrder \in Seq(K) /\ Len(r.testOrder) = PlaceOf(tests, n - 1)
      /\ \A t \in Ran(tests, n - 1) : r.testOrder[PlaceOf(tests, t)] = KeyAt(suite, tests, t)
  BY DEF Ordered
<1>7. new \in Entry
  BY <1>1 DEF Entry
<1> HIDE DEF key, new, u, K
<1>8. more \in [K \cup {key} -> Entry] /\ more[key] = new /\ \A k \in K : k # key => more[k] = r.tests[k]
  BY <1>6, <1>7
<1>9. /\ order \in Seq(K \cup {key}) /\ Len(order) = PlaceOf(tests, n) /\ order[PlaceOf(tests, n)] = key
      /\ \A i \in 1 .. PlaceOf(tests, n - 1) : order[i] = r.testOrder[i]
  BY <1>2, <1>6
<1> HIDE DEF more, order
<1>10. u = [suites |-> r.suites, tests |-> more, testOrder |-> order]
  BY <1>5 DEF Shaped
<1>11. u.suites = r.suites /\ u.tests = more /\ u.testOrder = order /\ Shaped(u)
  BY <1>10 DEF Shaped
<1>12. Ordered(u, suite, tests, n)
  <2>1. ASSUME NEW t \in Ran(tests, n) PROVE order[PlaceOf(tests, t)] = KeyAt(suite, tests, t)
    <3>1. CASE t = n
      BY <1>9, <3>1 DEF key
    <3>2. CASE t \in Ran(tests, n - 1)
      <4>1. PlaceOf(tests, t) \in 1 .. PlaceOf(tests, n - 1)
        BY <1>1, <3>2, RanPlaces
      <4>2. QED
        BY <1>6, <1>9, <3>2, <4>1
    <3>3. QED
      BY <1>2, <3>1, <3>2
  <2>2. QED
    BY <1>3, <1>8, <1>9, <1>11, <2>1 DEF Ordered
<1>13. Told(u, suite, tests, flags, n - 1)
  <2>1. \A t \in Ran(tests, n - 1) : u.tests[KeyAt(suite, tests, t)] = r.tests[KeyAt(suite, tests, t)]
    BY <1>4, <1>8, <1>11
  <2>2. QED
    BY <2>1 DEF Told
<1>14. QED
  BY <1>8, <1>11, <1>12, <1>13 DEF u, key, new

\* r with another entry for the key
With(r, key, entry) == [r EXCEPT !.tests[key] = entry]

\* u is r with this entry for the n-th test
AfterEntry(r, u, suite, tests, flags, n, entry) ==
  /\ Shaped(u) /\ u.suites = r.suites
  /\ Ordered(u, suite, tests, n) /\ Told(u, suite, tests, flags, n - 1)
  /\ u.tests[KeyAt(suite, tests, n)] = entry

(* The entry of the test at work becomes another one.                      *)
LEMMA Enters ==
  ASSUME NEW r, Shaped(r), NEW suite, NEW tests \in Seq(TestRecord), Distinct(tests), NEW flags,
         NEW n \in 1 .. Len(tests), ~tests[n].skip, Ordered(r, suite, tests, n), Told(r, suite, tests, flags, n - 1),
         NEW entry \in Entry
  PROVE  AfterEntry(r, With(r, KeyAt(suite, tests, n), entry), suite, tests, flags, n, entry)
<1> SUFFICES ASSUME NEW u, u = [r EXCEPT !.tests[KeyAt(suite, tests, n)] = entry]
             PROVE  AfterEntry(r, u, suite, tests, flags, n, entry)
  BY DEF With
<1> DEFINE key == KeyAt(suite, tests, n)
           more == [r.tests EXCEPT ![key] = entry]
           K == KeysTo(suite, tests, n)
<1>1. n \in Ran(tests, n) /\ key \in K
  BY DEF Ran, KeysTo
<1>2. \A t \in Ran(tests, n - 1) : KeyAt(suite, tests, t) # key /\ KeyAt(suite, tests, t) \in K
  <2>1. \A t \in Ran(tests, n - 1) : t \in DOMAIN tests /\ t # n /\ n \in DOMAIN tests /\ t \in Ran(tests, n)
    BY DEF Ran
  <2>2. QED
    BY <2>1 DEF KeyAt, Key, Distinct, KeysTo
<1>3. r.tests \in [K -> Entry]
  BY DEF Ordered
<1> HIDE DEF key, K
<1>4. more \in [K -> Entry] /\ more[key] = entry /\ \A k \in K : k # key => more[k] = r.tests[k]
  BY <1>1, <1>3
<1>5. u = [r EXCEPT !.tests = more]
  <2>1. u = [r EXCEPT !.tests[key] = entry]
    BY DEF key
  <2>2. QED
    BY <2>1 DEF Shaped
<1> HIDE DEF more
<1>6. u = [suites |-> r.suites, tests |-> more, testOrder |-> r.testOrder]
  BY <1>5 DEF Shaped
<1>7. u.suites = r.suites /\ u.tests = more /\ u.testOrder = r.testOrder /\ Shaped(u)
  <2>1. u.suites = r.suites /\ u.tests = more /\ u.testOrder = r.testOrder
    BY <1>6
  <2>2. QED
    BY <1>6, <2>1, Zenon DEF Shaped
<1>8. Ordered(u, suite, tests, n)
  BY <1>4, <1>7 DEF Ordered, K
<1>9. Told(u, suite, tests, flags, n - 1)
  <2>1. \A t \in Ran(tests, n - 1) : u.tests[KeyAt(suite, tests, t)] = r.tests[KeyAt(suite, tests, t)]
    BY <1>2, <1>4, <1>7
  <2>2. QED
    BY <2>1 DEF Told
<1>10. QED
  BY <1>4, <1>7, <1>8, <1>9 DEF key, AfterEntry

\* an entry with one more step, and with its verdict
WithStep(e, b) == [name |-> e.name, steps |-> Append(e.steps, b), passed |-> e.passed]
WithVerdict(e, b) == [name |-> e.name, steps |-> e.steps, passed |-> b]

(* OnStepResult and OnTestEnd for the test at work.                        *)
LEMMA EntryMethods ==
  ASSUME NEW r, NEW suite, NEW tests, NEW n, n \in Ran(tests, n), Ordered(r, suite, tests, n), NEW b \in BOOLEAN,
         NEW key, key = KeyAt(suite, tests, n), NEW e, e = r.tests[key]
  PROVE  /\ e \in Entry
         /\ OnStepResult(r, suite, tests[n].name, b) = With(r, key, WithStep(e, b))
         /\ OnTestEnd(r, suite, tests[n].name, b) = With(r, key, WithVerdict(e, b))
<1>1. key \in DOMAIN r.tests /\ e \in Entry /\ key = Key(suite, tests[n].name)
  BY DEF Ordered, KeysTo, KeyAt
<1>2. /\ OnStepResult(r, suite, tests[n].name, b) = With(r, key, [e EXCEPT !.steps = Append(@, b)])
      /\ OnTestEnd(r, suite, tests[n].name, b) = With(r, key, [e EXCEPT !.passed = b])
  BY <1>1 DEF OnStepResult, OnTestEnd, With
<1>3. [e EXCEPT !.steps = Append(@, b)] = WithStep(e, b)
  <2>1. ASSUME NEW y PROVE [e EXCEPT !.steps = y] = [name |-> e.name, steps |-> y, passed |-> e.passed]
    BY <1>1 DEF Entry
  <2>2. QED
    BY <2>1, Zenon DEF WithStep
<1>4. [e EXCEPT !.passed = b] = WithVerdict(e, b)
  BY <1>1 DEF Entry, WithVerdict
<1>5. QED
  BY <1>1, <1>2, <1>3, <1>4

(* One more test is over.                                                  *)
LEMMA ToldFurther ==
  ASSUME NEW r, NEW suite, NEW tests, NEW flags, NEW n \in Nat \ {0}, Told(r, suite, tests, flags, n - 1),
         \/ tests[n].skip
         \/ Tells(r.tests[KeyAt(suite, tests, n)], tests[n], flags[PlaceOf(tests, n)])
  PROVE  Told(r, suite, tests, flags, n)
<1>1. n - 1 \in Nat /\ (n - 1) + 1 = n
  OBVIOUS
<1>2. Ran(tests, n) \subseteq Ran(tests, n - 1) \cup {n} /\ (tests[n].skip => n \notin Ran(tests, n))
  BY <1>1 DEF Ran
<1>3. QED
  BY <1>2 DEF Told

(* Of the verdicts only those of the tests to be run count.                *)
LEMMA ToldSame ==
  ASSUME NEW r, NEW suite, NEW tests, NEW flags, NEW n \in Nat, Told(r, suite, tests, flags, n),
         NEW more, \A i \in 1 .. PlaceOf(tests, n) : more[i] = flags[i]
  PROVE  Told(r, suite, tests, more, n)
<1>1. \A t \in Ran(tests, n) : PlaceOf(tests, t) \in 1 .. PlaceOf(tests, n)
  BY RanPlaces
<1>2. QED
  BY <1>1 DEF Told

(* One more step that passed.                                              *)
LEMMA AllTrueOn ==
  ASSUME NEW n \in Nat
  PROVE  /\ AllTrueFor(n) \in Seq(BOOLEAN) /\ Len(AllTrueFor(n)) = n /\ AllTrueFor(0) = <<>>
         /\ Append(AllTrueFor(n), TRUE) = AllTrueFor(n + 1)
<1>1. AllTrueFor(n) \in [1 .. n -> BOOLEAN]
  BY DEF AllTrueFor
<1>2. AllTrueFor(n) \in Seq(BOOLEAN) /\ Len(AllTrueFor(n)) = n
  BY <1>1
<1>3. AllTrueFor(0) = <<>>
  BY DEF AllTrueFor
<1>4. Append(AllTrueFor(n), TRUE) = AllTrueFor(n + 1)
  <2> DEFINE more == Append(AllTrueFor(n), TRUE)
  <2>1. ASSUME NEW q \in Seq(BOOLEAN), NEW b \in BOOLEAN, Len(q) = n
        PROVE  /\ Append(q, b) \in Seq(BOOLEAN) /\ Len(Append(q, b)) = n + 1
               /\ (\A i \in 1 .. n : Append(q, b)[i] = q[i]) /\ Append(q, b)[n + 1] = b
    BY <2>1
  <2>2. more \in Seq(BOOLEAN) /\ Len(more) = n + 1 /\ (\A i \in 1 .. n : more[i] = AllTrueFor(n)[i]) /\ more[n + 1] = TRUE
    <3>1. TRUE \in BOOLEAN
      OBVIOUS
    <3> HIDE DEF more
    <3>2. QED
      BY <1>2, <2>1, <3>1, Zenon DEF more
  <2>3. \A i \in 1 .. n : AllTrueFor(n)[i] = TRUE
    BY DEF AllTrueFor
  <2> HIDE DEF more
  <2>4. \A i \in 1 .. n + 1 : more[i] = TRUE
    <3>1. \A i \in 1 .. n + 1 : i \in 1 .. n \/ i = n + 1
      OBVIOUS
    <3>2. QED
      BY <2>2, <2>3, <3>1, Zenon
  <2>5. more = [i \in 1 .. n + 1 |-> more[i]]
    BY <2>2
  <2>6. QED
    BY <2>4, <2>5 DEF AllTrueFor, more
<1>5. QED
  BY <1>2, <1>3, <1>4

(* OnSuiteEnd takes an entry for each key of testOrder, in its order, when *)
(* all of them have one.                                                   *)
LEMMA Collects ==
  ASSUME NEW r, NEW K, r.tests \in [K -> Entry], r.testOrder \in Seq(K)
  PROVE  Entries(r) = [m \in 1 .. Len(r.testOrder) |-> r.tests[r.testOrder[m]]]
<1> DEFINE N == Len(r.testOrder)
           taken == [n \in 0 .. N |-> [m \in 1 .. n |-> r.tests[r.testOrder[m]]]]
           Is(f) == f = [n \in 0 .. N |->
                           IF n = 0 THEN <<>>
                           ELSE IF r.testOrder[n] \in DOMAIN r.tests THEN Append(f[n - 1], r.tests[r.testOrder[n]])
                           ELSE f[n - 1]]
<1>1. N \in Nat /\ \A n \in 1 .. N : r.testOrder[n] \in DOMAIN r.tests /\ r.tests[r.testOrder[n]] \in Entry
  OBVIOUS
<1>2. taken[0] = <<>>
  BY <1>1
<1>3. ASSUME NEW n \in 1 .. N PROVE taken[n] = Append(taken[n - 1], r.tests[r.testOrder[n]])
  <2> DEFINE old == [m \in 1 .. n - 1 |-> r.tests[r.testOrder[m]]]
  <2>1. taken[n - 1] = old /\ taken[n] = [m \in 1 .. n |-> r.tests[r.testOrder[m]]]
    BY <1>1
  <2>2. old \in Seq(Entry) /\ Len(old) = n - 1
    BY <1>1
  <2>3. Append(old, r.tests[r.testOrder[n]]) = [m \in 1 .. n |-> r.tests[r.testOrder[m]]]
    BY <1>1, <2>2
  <2>4. QED
    BY <2>1, <2>3
<1>4. ASSUME NEW f, Is(f) PROVE f[N] = taken[N]
  <2> DEFINE T == {n \in 0 .. N : f[n] = taken[n]}
  <2>1. f[0] = <<>> /\ \A n \in 1 .. N : f[n] = Append(f[n - 1], r.tests[r.testOrder[n]])
    <3>1. 0 \in 0 .. N /\ \A n \in 1 .. N : n \in 0 .. N /\ n # 0
      BY <1>1
    <3> HIDE DEF N
    <3>2. \A n \in 0 .. N : f[n] = IF n = 0 THEN <<>>
                                  ELSE IF r.testOrder[n] \in DOMAIN r.tests THEN Append(f[n - 1], r.tests[r.testOrder[n]])
                                  ELSE f[n - 1]
      BY <1>4
    <3>3. QED
      BY <1>1, <3>1, <3>2, Zenon
  <2> HIDE DEF taken
  <2>2. 0 \in T
    BY <1>1, <1>2, <2>1
  <2>3. ASSUME NEW k \in 0 .. N - 1, k \in T PROVE k + 1 \in T
    <3>1. k + 1 \in 1 .. N /\ (k + 1) - 1 = k
      BY <1>1
    <3>2. f[k + 1] = taken[k + 1]
      BY <1>3, <2>1, <2>3, <3>1
    <3>3. QED
      BY <3>1, <3>2
  <2> HIDE DEF T
  <2>4. 0 .. N \subseteq T
    BY <1>1, <2>2, <2>3, IntervalInduction
  <2>5. QED
    BY <1>1, <2>4 DEF T
<1>5. Is(taken)
  <2> DEFINE g == [n \in 0 .. N |->
                     IF n = 0 THEN <<>>
                     ELSE IF r.testOrder[n] \in DOMAIN r.tests THEN Append(taken[n - 1], r.tests[r.testOrder[n]])
                     ELSE taken[n - 1]]
  <2>1. \A n \in 0 .. N : g[n] = taken[n]
    <3> HIDE DEF taken, N
    <3> SUFFICES ASSUME NEW n \in 0 .. N PROVE g[n] = taken[n]
      OBVIOUS
    <3>1. g[n] = IF n = 0 THEN <<>>
                 ELSE IF r.testOrder[n] \in DOMAIN r.tests THEN Append(taken[n - 1], r.tests[r.testOrder[n]])
                 ELSE taken[n - 1]
      OBVIOUS
    <3>2. n = 0 \/ n \in 1 .. N
      BY <1>1
    <3> HIDE DEF g
    <3>3. QED
      BY <1>1, <1>2, <1>3, <3>1, <3>2, Zenon
  <2>2. taken = g
    <3>1. DOMAIN g = 0 .. N /\ DOMAIN taken = 0 .. N
      OBVIOUS
    <3> HIDE DEF g
    <3>2. taken = [n \in 0 .. N |-> g[n]]
      BY <2>1
    <3>3. g = [n \in 0 .. N |-> g[n]]
      BY <3>1 DEF g
    <3>4. QED
      BY <3>2, <3>3
  <2>3. QED
    BY <2>2
<1>6. Entries(r) = (CHOOSE f : Is(f))[N]
  BY DEF Entries
<1>7. Is(CHOOSE f : Is(f))
  <2> HIDE DEF Is, taken
  <2>1. QED
    BY <1>5
<1>8. (CHOOSE f : Is(f))[N] = taken[N]
  <2> HIDE DEF Is, taken
  <2>1. QED
    BY <1>4, <1>7
<1>9. QED
  BY <1>1, <1>6, <1>8

(* OnSuiteEnd when all tests of the suite begun last are over: its entry is*)
(* closed, with one test entry for each test that was to be run.           *)
LEMMA Closes ==
  ASSUME NEW r, Shaped(r), NEW suite, NEW tests \in Seq(TestRecord), NEW flags,
         Ordered(r, suite, tests, Len(tests)), Told(r, suite, tests, flags, Len(tests)),
         NEW last, last = Len(r.suites), last >= 1, r.suites[last].tests = <<>>, NEW summary \in Seq(Nat)
  PROVE  LET u == OnSuiteEnd(r, summary)
         IN  /\ Shaped(u) /\ Len(u.suites) = last
             /\ \A k \in 1 .. last - 1 : u.suites[k] = r.suites[k]
             /\ u.suites[last].name = r.suites[last].name /\ u.suites[last].summary = summary
             /\ Closed(u.suites[last], tests, flags)
<1> DEFINE L == Len(tests)
           taken == Entries(r)
           old == r.suites[last]
           new == [name |-> old.name, summary |-> summary, tests |-> taken]
           u == OnSuiteEnd(r, summary)
<1>1. L \in Nat /\ r.suites \in Seq(SuiteEntry) /\ r.suites # <<>> /\ last \in 1 .. Len(r.suites)
  BY DEF Shaped
<1>2. old \in SuiteEntry /\ old.tests = <<>>
  BY <1>1
<1>3. /\ r.tests \in [KeysTo(suite, tests, L) -> Entry] /\ r.testOrder \in Seq(KeysTo(suite, tests, L))
      /\ Len(r.testOrder) = PlaceOf(tests, L)
      /\ \A t \in Ran(tests, L) : r.testOrder[PlaceOf(tests, t)] = KeyAt(suite, tests, t)
  BY DEF Ordered
<1>4. taken = [m \in 1 .. Len(r.testOrder) |-> r.tests[r.testOrder[m]]]
  BY <1>3, Collects
<1> HIDE DEF taken, L, u
<1>5. taken \in Seq(Entry) /\ Len(taken) = PlaceOf(tests, L)
  <2>1. Len(r.testOrder) \in Nat /\ \A m \in 1 .. Len(r.testOrder) : r.tests[r.testOrder[m]] \in Entry
    BY <1>3
  <2>2. taken \in [1 .. Len(r.testOrder) -> Entry]
    BY <1>4, <2>1, Zenon
  <2>3. ASSUME NEW N \in Nat, NEW q \in [1 .. N -> Entry] PROVE q \in Seq(Entry) /\ Len(q) = N
    OBVIOUS
  <2>4. taken \in Seq(Entry) /\ Len(taken) = Len(r.testOrder)
    BY <2>1, <2>2, <2>3, Zenon
  <2>5. QED
    BY <1>3, <2>4
<1>6. \A t \in Ran(tests, L) : taken[PlaceOf(tests, t)] = r.tests[KeyAt(suite, tests, t)]
  <2>1. \A t \in Ran(tests, L) : PlaceOf(tests, t) \in 1 .. PlaceOf(tests, L)
    BY <1>1, RanPlaces
  <2>2. QED
    BY <1>3, <1>4, <2>1
<1>7. u = [r EXCEPT !.suites[last].summary = summary, !.suites[last].tests = taken]
  <2>1. <<>> \o taken = taken
    BY <1>5
  <2>2. u = [r EXCEPT !.suites[last].summary = summary, !.suites[last].tests = @ \o taken]
    BY <1>1 DEF OnSuiteEnd, u, taken
  <2>3. [r EXCEPT !.suites[last].summary = summary, !.suites[last].tests = @ \o taken]
          = [r EXCEPT !.suites[last].summary = summary, !.suites[last].tests = taken]
    BY <1>1, <1>2, <2>1 DEF Shaped
  <2>4. QED
    BY <2>2, <2>3
<1>8. u = [suites |-> [r.suites EXCEPT ![last] = new], tests |-> r.tests, testOrder |-> r.testOrder]
  <2> DEFINE suites == [r.suites EXCEPT ![last].summary = summary, ![last].tests = taken]
  <2>1. [old EXCEPT !.summary = summary, !.tests = taken] = new
    <3>1. ASSUME NEW x \in SuiteEntry
          PROVE  [x EXCEPT !.summary = summary, !.tests = taken] = [name |-> x.name, summary |-> summary, tests |-> taken]
      <4>1. x = [name |-> x.name, summary |-> x.summary, tests |-> x.tests]
        BY DEF SuiteEntry
      <4>2. [x EXCEPT !.summary = summary] = [name |-> x.name, summary |-> summary, tests |-> x.tests]
        BY <4>1
      <4>3. [[name |-> x.name, summary |-> summary, tests |-> x.tests] EXCEPT !.tests = taken]
              = [name |-> x.name, summary |-> summary, tests |-> taken]
        OBVIOUS
      <4>4. [x EXCEPT !.summary = summary, !.tests = taken] = [[x EXCEPT !.summary = summary] EXCEPT !.tests = taken]
        OBVIOUS
      <4>5. QED
        BY <4>2, <4>3, <4>4
    <3> HIDE DEF old
    <3>2. QED
      BY <1>2, <3>1
  <2>2. suites = [r.suites EXCEPT ![last] = [old EXCEPT !.summary = summary, !.tests = taken]]
    BY <1>1
  <2>3. u = [r EXCEPT !.suites = suites]
    BY <1>1, <1>7 DEF Shaped
  <2> HIDE DEF suites, new
  <2>4. u = [suites |-> suites, tests |-> r.tests, testOrder |-> r.testOrder]
    BY <2>3 DEF Shaped
  <2>5. QED
    BY <2>1, <2>2, <2>4
<1>9. new \in SuiteEntry
  BY <1>2, <1>5 DEF SuiteEntry
<1>10. new.name = old.name /\ new.summary = summary /\ new.tests = taken
  OBVIOUS
<1> HIDE DEF new, old
<1>11. /\ [r.suites EXCEPT ![last] = new] \in Seq(SuiteEntry) /\ Len([r.suites EXCEPT ![last] = new]) = last
       /\ [r.suites EXCEPT ![last] = new][last] = new
       /\ \A k \in 1 .. last - 1 : [r.suites EXCEPT ![last] = new][k] = r.suites[k]
  BY <1>1, <1>9
<1>12. Shaped(u) /\ Len(u.suites) = last /\ u.suites[last] = new /\ \A k \in 1 .. last - 1 : u.suites[k] = r.suites[k]
  BY <1>8, <1>11 DEF Shaped
<1>13. Closed(new, tests, flags)
  BY <1>5, <1>6, <1>10 DEF Closed, Told, L
<1>14. QED
  BY <1>10, <1>12, <1>13 DEF u, old

Ready(s) == IInv /\ Sequential /\ OrderInv /\ EntriesInv(s)

(* The pool has one slot, so that a suite at work is the one launched last,*)
(* those before it are over and those after it have not begun.             *)
LEMMA OneAtATime ==
  ASSUME IInv, Size = 1, OrderInv, NEW s \in Suites, pc[s] \notin {"unborn", "gone"}
  PROVE  /\ s = next - 1 /\ Running = {s}
         /\ \A u \in Suites : (u < s => pc[u] = "gone") /\ (u > s => pc[u] = "unborn")
         /\ Len(report.suites) = IF pc[s] = "start" THEN s - 1 ELSE s
<1>1. /\ Suites = 1 .. Len(manifest) /\ Len(manifest) \in Nat /\ next \in 1 .. Len(manifest) + 1
      /\ s \in 1 .. Len(manifest) /\ Len(report.suites) \in Nat
  BY DEF IInv, TypedInv, Suites, OrderInv, Shaped
<1>2. s = next - 1
  <2>1. s < next /\ ~(s < next - 1)
    BY <1>1 DEF IInv, PoolInv, OrderInv
  <2>2. QED
    BY <1>1, <2>1
<1>3. \A u \in Suites : (u < s => pc[u] = "gone") /\ (u > s => pc[u] = "unborn")
  BY <1>1, <1>2 DEF IInv, PoolInv, OrderInv
<1>4. Running = {s}
  BY <1>1, <1>3 DEF Running
<1>5. Begun(s) <=> pc[s] # "start"
  BY DEF Begun
<1>6. ASSUME NEW u \in Suites PROVE u <= Len(report.suites) <=> (u < s \/ (u = s /\ pc[s] # "start"))
  <2>1. u <= Len(report.suites) <=> Begun(u)
    BY DEF OrderInv
  <2>2. Begun(u) <=> (u < s \/ (u = s /\ pc[s] # "start"))
    BY <1>1, <1>3, <1>5 DEF Begun
  <2>3. QED
    BY <2>1, <2>2
<1>7. Len(report.suites) = IF pc[s] = "start" THEN s - 1 ELSE s
  <2>1. Len(report.suites) <= Len(manifest)
    BY DEF OrderInv
  <2>2. Len(report.suites) = 0 \/ Len(report.suites) \in Suites
    BY <1>1, <2>1
  <2>3. s + 1 \in Suites => ~(s + 1 <= Len(report.suites))
    BY <1>1, <1>6
  <2>4. s - 1 = 0 \/ s - 1 <= Len(report.suites)
    BY <1>1, <1>6
  <2>5. QED
    BY <1>1, <1>6, <2>1, <2>2, <2>3, <2>4
<1>8. QED
  BY <1>2, <1>3, <1>4, <1>7

\* what a step of suite s leaves as it is in the report
Extends(s) ==
  /\ Shaped(report')
  /\ pc[s] = "start" => Len(report'.suites) = s /\ report'.suites[s].name = Name(s)
  /\ pc[s] # "start" => Len(report'.suites) = s /\ report'.suites[s].name = report.suites[s].name
  /\ \A k \in 1 .. s - 1 : report'.suites[k] = report.suites[k]

(* What holds wherever a goroutine goes on.                                *)
LEMMA ReportFrame ==
  ASSUME NEW s \in Suites, Ready(s), UNCHANGED <<config, manifest>>, pc[s] \notin {"unborn", "gone"}
  PROVE  /\ TypedInv /\ SuiteInv(s) /\ config.reporter = "json"
         /\ Name(s)' = Name(s) /\ TestsOf(s)' = TestsOf(s) /\ Test(s) = TestsOf(s)[at[s]] /\ Test(s)' = TestsOf(s)[at'[s]]
         /\ TestsOf(s) \in Seq(TestRecord) /\ Len(TestsOf(s)) \in Nat /\ Distinct(TestsOf(s)) /\ Name(s) \in STRING
         /\ s \in Nat /\ s >= 1 /\ at[s] \in Nat /\ at[s] >= 1 /\ pc[s] \in PCs /\ step[s] \in Nat /\ passing[s] \in BOOLEAN
         /\ sr[s] \in SuiteResult /\ sr[s].results \in Seq(BOOLEAN)
         /\ Shaped(report) /\ Len(report.suites) = IF pc[s] = "start" THEN s - 1 ELSE s
<1>1. TypedInv /\ SuiteInv(s) /\ config.reporter = "json" /\ Shaped(report)
  BY DEF Ready, IInv, Sequential, OrderInv
<1>2. /\ Name(s)' = Name(s) /\ TestsOf(s)' = TestsOf(s) /\ Test(s) = TestsOf(s)[at[s]] /\ Test(s)' = TestsOf(s)[at'[s]]
  BY DEF Name, TestsOf, Test
<1>3. TestsOf(s) \in Seq(TestRecord) /\ Name(s) \in STRING
  <2>1. manifest[s] \in SuiteRecord
    BY <1>1 DEF TypedInv, Suites
  <2>2. QED
    BY <2>1 DEF SuiteRecord, TestsOf, Name
<1>4. Distinct(TestsOf(s))
  BY DEF Ready, Sequential, TestsNamed, Distinct
<1>5. Len(report.suites) = IF pc[s] = "start" THEN s - 1 ELSE s
  BY OneAtATime DEF Ready, Sequential
<1>6. s \in Nat /\ s >= 1
  BY <1>1 DEF TypedInv, Suites
<1>7. /\ at[s] \in Nat /\ at[s] >= 1 /\ pc[s] \in PCs /\ step[s] \in Nat /\ passing[s] \in BOOLEAN /\ sr[s] \in SuiteResult
  BY <1>1 DEF TypedInv
<1>8. Len(TestsOf(s)) \in Nat
  BY <1>3
<1>9. sr[s].results \in Seq(BOOLEAN)
  BY <1>7 DEF SuiteResult
<1>10. QED
  BY <1>1, <1>2, <1>3, <1>4, <1>5, <1>6, <1>7, <1>8, <1>9

(* A step without a call of the reporter.                                  *)
LEMMA SaysNothing ==
  ASSUME NEW s \in Suites, Ready(s), UNCHANGED <<config, manifest, report>>, pc[s] \notin {"unborn", "start", "gone"}
  PROVE  Extends(s)
BY ReportFrame DEF Extends

(* OnSuiteStart.                                                           *)
LEMMA ReportStartSuite ==
  ASSUME NEW s \in Suites, Ready(s), UNCHANGED <<config, manifest>>, StartSuite(s)
  PROVE  EntriesInv(s)' /\ Extends(s)
<1> DEFINE new == [name |-> Name(s), summary |-> <<>>, tests |-> <<>>]
<1>1. pc[s] = "start" /\ pc'[s] = "register" /\ report' = OnSuiteStart(report, Name(s))
  BY DEF StartSuite, Goes, Report, Ready, Sequential, IInv, TypedInv
<1>2. /\ Shaped(report) /\ Len(report.suites) = s - 1 /\ s \in Nat /\ s >= 1 /\ Name(s) \in STRING
      /\ Name(s)' = Name(s) /\ TestsOf(s)' = TestsOf(s)
  BY <1>1, ReportFrame
<1>3. new \in SuiteEntry /\ new.name = Name(s) /\ new.tests = <<>>
  BY <1>2 DEF SuiteEntry
<1> HIDE DEF new
<1>4. report' = [suites |-> Append(report.suites, new), tests |-> [k \in {} |-> {}], testOrder |-> <<>>]
  BY <1>1 DEF OnSuiteStart, NewReport, new
<1>5. /\ report'.suites \in Seq(SuiteEntry) /\ Len(report'.suites) = s /\ report'.suites[s] = new
      /\ \A k \in 1 .. s - 1 : report'.suites[k] = report.suites[k]
  BY <1>2, <1>3, <1>4 DEF Shaped
<1>6. Extends(s)
  BY <1>1, <1>3, <1>4, <1>5 DEF Extends, Shaped
<1>7. Over(s)' = 0 /\ Started(s)' = 0
  BY <1>1 DEF Over, Started
<1>8. Ran(TestsOf(s), 0) = {} /\ PlaceOf(TestsOf(s), 0) = 0 /\ KeysTo(Name(s), TestsOf(s), 0) = {}
  BY RanOn DEF KeysTo
<1>9. Ordered(report', Name(s), TestsOf(s), 0) /\ Told(report', Name(s), TestsOf(s), sr'[s].results, 0)
  BY <1>4, <1>8 DEF Ordered, Told
<1>10. QED
  BY <1>1, <1>2, <1>3, <1>5, <1>6, <1>7, <1>9 DEF EntriesInv, RunningInv

(* Registration, and a test that is skipped.                               *)
LEMMA ReportRegister ==
  ASSUME NEW s \in Suites, Ready(s), UNCHANGED <<config, manifest>>, Register(s) \/ SkipTest(s)
  PROVE  EntriesInv(s)' /\ Extends(s)
<1>1. /\ report' = report /\ pc[s] \in {"register", "test"} /\ pc'[s] \in {"register", "test"}
      /\ sr'[s].results = sr[s].results
  <2>1. pc \in [Suites -> PCs] /\ sr \in [Suites -> SuiteResult] /\ sr[s] \in SuiteResult
    BY DEF Ready, IInv, TypedInv
  <2>2. CASE Register(s)
    BY <2>1, <2>2 DEF Register, Goes
  <2>3. CASE SkipTest(s)
    BY <2>1, <2>3 DEF SkipTest, Goes, SuiteResult
  <2>4. QED
    BY <2>2, <2>3
<1>2. Extends(s)
  BY <1>1, SaysNothing
<1>3. /\ Name(s)' = Name(s) /\ TestsOf(s)' = TestsOf(s) /\ at[s] \in Nat /\ at[s] >= 1 /\ sr[s].results \in Seq(BOOLEAN)
      /\ Test(s) = TestsOf(s)[at[s]]
  BY <1>1, ReportFrame
<1>4. RunningInv(s)
  BY <1>1 DEF Ready, EntriesInv
<1>5. CASE Register(s)
  <2>1. pc[s] = "register" /\ (pc'[s] = "test" => at'[s] = 1)
    BY <1>5 DEF Register, Goes, Ready, IInv, TypedInv
  <2>2. Over(s) = 0 /\ Started(s) = 0 /\ Over(s)' = 0 /\ Started(s)' = 0
    BY <1>1, <2>1 DEF Over, Started
  <2>3. QED
    BY <1>1, <1>2, <1>3, <1>4, <2>2 DEF EntriesInv, RunningInv
<1>6. CASE SkipTest(s)
  <2>1. pc[s] = "test" /\ pc'[s] = "test" /\ at'[s] = at[s] + 1 /\ Test(s).skip
    BY <1>6 DEF SkipTest, Goes, Ready, IInv, TypedInv
  <2>2. Over(s) = at[s] - 1 /\ Started(s) = at[s] - 1 /\ Over(s)' = at[s] /\ Started(s)' = at[s]
    BY <1>3, <2>1 DEF Over, Started
  <2>3. Ran(TestsOf(s), at[s]) = Ran(TestsOf(s), at[s] - 1) /\ PlaceOf(TestsOf(s), at[s]) = PlaceOf(TestsOf(s), at[s] - 1)
    <3>1. at[s] - 1 \in Nat /\ (at[s] - 1) + 1 = at[s]
      BY <1>3
    <3>2. QED
      BY <1>3, <2>1, <3>1, RanOn
  <2>4. /\ Ordered(report, Name(s), TestsOf(s), at[s]) /\ Told(report, Name(s), TestsOf(s), sr[s].results, at[s])
    BY <1>4, <2>2, <2>3 DEF RunningInv, Ordered, Told, KeysTo
  <2>5. QED
    BY <1>1, <1>2, <1>3, <1>4, <2>1, <2>2, <2>4 DEF EntriesInv, RunningInv
<1>7. QED
  BY <1>5, <1>6

(* OnTestStart.                                                            *)
LEMMA ReportStartTest ==
  ASSUME NEW s \in Suites, Ready(s), UNCHANGED <<config, manifest>>, StartTest(s)
  PROVE  EntriesInv(s)' /\ Extends(s)
<1> SUFFICES ASSUME NEW a, a = at[s], NEW tests, tests = TestsOf(s), NEW key, key = KeyAt(Name(s), tests, a)
             PROVE  EntriesInv(s)' /\ Extends(s)
  OBVIOUS
<1>1. /\ pc[s] = "test" /\ pc'[s] = "step" /\ at' = at /\ step'[s] = 0 /\ sr' = sr
      /\ a <= Len(tests) /\ ~Test(s).skip
  BY DEF StartTest, Goes, Ready, IInv, TypedInv
<1>2. /\ config.reporter = "json" /\ Name(s)' = Name(s) /\ TestsOf(s)' = tests /\ Test(s) = tests[a] /\ Test(s)' = tests[a]
      /\ a \in Nat /\ a >= 1 /\ tests \in Seq(TestRecord) /\ Distinct(tests) /\ Shaped(report) /\ Len(tests) \in Nat
      /\ Len(report.suites) = s /\ s \in Nat
  BY <1>1, ReportFrame
<1>3. report' = OnTestStart(report, Name(s), tests[a].name)
  BY <1>2 DEF StartTest, Report
<1>4. RunningInv(s) /\ Over(s) = a - 1 /\ Started(s) = a - 1
  BY <1>1 DEF Ready, EntriesInv, Over, Started
<1>5. Ordered(report, Name(s), tests, a - 1) /\ Told(report, Name(s), tests, sr[s].results, a - 1)
      /\ report.suites[s].tests = <<>>
  BY <1>4 DEF RunningInv
<1>6. a \in 1 .. Len(tests) /\ ~tests[a].skip
  BY <1>1, <1>2
<1>7. /\ Shaped(report') /\ report'.suites = report.suites
      /\ Ordered(report', Name(s), tests, a) /\ Told(report', Name(s), tests, sr[s].results, a - 1)
      /\ report'.tests[key] = [name |-> tests[a].name, steps |-> <<>>, passed |-> FALSE]
  BY <1>2, <1>3, <1>5, <1>6, Starts
<1>8. Extends(s)
  BY <1>1, <1>2, <1>7 DEF Extends
<1>9. Midway(report'.tests[key], tests[a], "step", 0, passing'[s])
  <2>1. AllTrueFor(0) = <<>>
    BY AllTrueOn
  <2>2. tests[a].steps \in Nat
    <3>1. tests[a] \in TestRecord
      BY <1>2, <1>6
    <3>2. QED
      BY <3>1 DEF TestRecord
  <2>3. Len(<<>>) <= tests[a].steps
    BY <2>2
  <2>4. QED
    BY <1>7, <2>1, <2>3 DEF Midway
<1>10. Over(s)' = a - 1 /\ Started(s)' = a
  BY <1>1 DEF Over, Started
<1>11. RunningInv(s)'
  BY <1>1, <1>2, <1>5, <1>7, <1>9, <1>10 DEF RunningInv
<1>12. QED
  BY <1>1, <1>8, <1>11 DEF EntriesInv

\* what is known of the report while a test is at work
AtWork(s) ==
  /\ Ordered(report, Name(s), TestsOf(s), at[s]) /\ Told(report, Name(s), TestsOf(s), sr[s].results, at[s] - 1)
  /\ report.suites[s].tests = <<>>
  /\ Midway(report.tests[KeyAt(Name(s), TestsOf(s), at[s])], Test(s), pc[s], step[s], passing[s])

(* The test at work.                                                       *)
LEMMA TestAtWork ==
  ASSUME NEW s \in Suites, Ready(s), UNCHANGED <<config, manifest>>, pc[s] \in {"step", "verdict", "report"}
  PROVE  /\ AtWork(s) /\ at[s] \in 1 .. Len(TestsOf(s)) /\ ~TestsOf(s)[at[s]].skip /\ at[s] \in Nat \ {0}
         /\ at[s] \in Ran(TestsOf(s), at[s]) /\ TestsOf(s)[at[s]].steps \in Nat
<1>1. RunningInv(s) /\ Over(s) = at[s] - 1 /\ Started(s) = at[s]
  BY DEF Ready, EntriesInv, Over, Started
<1>2. AtWork(s)
  BY <1>1 DEF AtWork, RunningInv
<1>3. at[s] <= Len(TestsOf(s)) /\ ~Test(s).skip
  BY ReportFrame DEF SuiteInv, PlaceInv
<1>4. at[s] \in 1 .. Len(TestsOf(s)) /\ ~TestsOf(s)[at[s]].skip /\ at[s] \in Nat \ {0}
  BY <1>3, ReportFrame
<1>5. TestsOf(s)[at[s]].steps \in Nat
  BY <1>4, TestsTyped, ReportFrame
<1>6. at[s] \in Ran(TestsOf(s), at[s])
  BY <1>4 DEF Ran
<1>7. QED
  BY <1>2, <1>4, <1>5, <1>6

(* The context is done before a step, or the test is over and its result   *)
(* appended: the reporter is told of neither.                              *)
LEMMA ReportVerdict ==
  ASSUME NEW s \in Suites, Ready(s), UNCHANGED <<config, manifest>>, CutTest(s) \/ FinishTest(s)
  PROVE  EntriesInv(s)' /\ Extends(s)
<1> SUFFICES ASSUME NEW a, a = at[s], NEW tests, tests = TestsOf(s), NEW key, key = KeyAt(Name(s), tests, a),
                    NEW flags, flags = sr[s].results
             PROVE  EntriesInv(s)' /\ Extends(s)
  OBVIOUS
<1>1. report' = report /\ at' = at /\ step' = step /\ pc[s] \in {"step", "verdict"}
  BY DEF CutTest, FinishTest, Goes, sharedVars
<1>2. /\ Name(s)' = Name(s) /\ TestsOf(s)' = tests /\ Test(s) = tests[a] /\ Test(s)' = tests[a]
      /\ flags \in Seq(BOOLEAN) /\ passing[s] \in BOOLEAN /\ SuiteInv(s)
  BY <1>1, ReportFrame
<1>3. Extends(s)
  BY <1>1, SaysNothing
<1>4. /\ Ordered(report, Name(s), tests, a) /\ Told(report, Name(s), tests, flags, a - 1) /\ report.suites[s].tests = <<>>
      /\ Midway(report.tests[key], tests[a], pc[s], step[s], passing[s])
      /\ ~tests[a].skip /\ a \in Nat \ {0}
  BY <1>1, <1>2, TestAtWork DEF AtWork
<1>5. CASE CutTest(s)
  <2>1. pc'[s] = "verdict" /\ sr' = sr /\ ~passing'[s]
    BY <1>5 DEF CutTest, Goes, Ready, IInv, TypedInv
  <2>2. Over(s)' = a - 1 /\ Started(s)' = a
    BY <1>1, <2>1 DEF Over, Started
  <2>3. Midway(report.tests[key], tests[a], "verdict", step'[s], passing'[s])
    BY <1>4, <2>1 DEF Midway
  <2>4. RunningInv(s)'
    BY <1>1, <1>2, <1>4, <2>1, <2>2, <2>3 DEF RunningInv
  <2>5. QED
    BY <1>3, <2>1, <2>4 DEF EntriesInv
<1>6. CASE FinishTest(s)
  <2>1. pc[s] = "verdict" /\ pc'[s] = "report" /\ passing' = passing /\ sr'[s].results = Append(flags, passing[s])
    BY <1>6 DEF FinishTest, Goes, Ready, IInv, TypedInv, SuiteResult
  <2>2. Over(s)' = a - 1 /\ Started(s)' = a
    BY <1>1, <2>1 DEF Over, Started
  <2>3. Len(flags) = PlaceOf(tests, a - 1)
    BY <1>2, <2>1 DEF SuiteInv, CountsInv, PlaceOf, Ran, RunUpTo
  <2>4. /\ Told(report, Name(s), tests, Append(flags, passing[s]), a - 1)
        /\ Append(flags, passing[s])[PlaceOf(tests, a)] = passing[s]
    <3>1. a - 1 \in Nat /\ PlaceOf(tests, a) = Len(flags) + 1
      <4>1. a - 1 \in Nat /\ (a - 1) + 1 = a
        BY <1>4
      <4>2. QED
        BY <1>4, <2>3, <4>1, RanOn
    <3>2. /\ \A i \in 1 .. PlaceOf(tests, a - 1) : Append(flags, passing[s])[i] = flags[i]
          /\ Append(flags, passing[s])[PlaceOf(tests, a)] = passing[s]
      <4>1. ASSUME NEW b \in BOOLEAN
            PROVE  (\A i \in 1 .. Len(flags) : Append(flags, b)[i] = flags[i]) /\ Append(flags, b)[Len(flags) + 1] = b
        BY <1>2
      <4>2. QED
        BY <1>2, <2>3, <3>1, <4>1, Zenon
    <3>3. Told(report, Name(s), tests, Append(flags, passing[s]), a - 1)
      BY <1>4, <3>1, <3>2, ToldSame
    <3>4. QED
      BY <3>2, <3>3
  <2>5. Midway(report.tests[key], tests[a], "report", step'[s], passing'[s])
    BY <1>4, <2>1 DEF Midway
  <2>6. RunningInv(s)'
    BY <1>1, <1>2, <1>4, <2>1, <2>2, <2>4, <2>5 DEF RunningInv
  <2>7. QED
    BY <1>3, <2>1, <2>6 DEF EntriesInv
<1>7. QED
  BY <1>5, <1>6

(* OnStepResult.                                                           *)
LEMMA ReportStep ==
  ASSUME NEW s \in Suites, Ready(s), UNCHANGED <<config, manifest>>, NEW ok \in BOOLEAN, RunStep(s, ok)
  PROVE  EntriesInv(s)' /\ Extends(s)
<1> SUFFICES ASSUME NEW a, a = at[s], NEW tests, tests = TestsOf(s), NEW key, key = KeyAt(Name(s), tests, a),
                    NEW e, e = report.tests[key], NEW n, n = step[s]
             PROVE  EntriesInv(s)' /\ Extends(s)
  OBVIOUS
<1>1. /\ pc[s] = "step" /\ pc'[s] = (IF ok /\ n + 1 < Test(s).steps THEN "step" ELSE "verdict")
      /\ at' = at /\ sr' = sr /\ step'[s] = n + 1 /\ passing'[s] = ok
  BY DEF RunStep, Goes, Ready, IInv, TypedInv
<1>2. /\ config.reporter = "json" /\ Name(s)' = Name(s) /\ TestsOf(s)' = tests /\ Test(s) = tests[a] /\ Test(s)' = tests[a]
      /\ n \in Nat /\ SuiteInv(s) /\ Shaped(report) /\ Len(report.suites) = s /\ s \in Nat
      /\ tests \in Seq(TestRecord) /\ Distinct(tests)
  BY <1>1, ReportFrame
<1>3. report' = OnStepResult(report, Name(s), tests[a].name, ok)
  BY <1>2 DEF RunStep, Report
<1>4. /\ Ordered(report, Name(s), tests, a) /\ Told(report, Name(s), tests, sr[s].results, a - 1) /\ report.suites[s].tests = <<>>
      /\ Midway(e, tests[a], "step", n, passing[s])
      /\ a \in 1 .. Len(tests) /\ ~tests[a].skip /\ a \in Ran(tests, a) /\ tests[a].steps \in Nat
  BY <1>1, <1>2, TestAtWork DEF AtWork
<1>5. n < tests[a].steps
  BY <1>1, <1>2 DEF SuiteInv, VerdictInv
<1>6. e.name = tests[a].name /\ e.steps = AllTrueFor(n)
  BY <1>4 DEF Midway
<1>7. /\ e \in Entry
      /\ report' = With(report, key, WithStep(e, ok))
  BY <1>2, <1>3, <1>4, EntryMethods
<1>8. PICK new : new = WithStep(e, ok)
  OBVIOUS
<1>9. /\ new.name = tests[a].name /\ new.steps \in Seq(BOOLEAN) /\ Len(new.steps) = n + 1
      /\ (ok => new.steps = AllTrueFor(n + 1)) /\ new \in Entry
  <2>1. e.name \in STRING /\ e.passed \in BOOLEAN
    BY <1>7 DEF Entry
  <2>2. Append(e.steps, ok) \in Seq(BOOLEAN) /\ Len(Append(e.steps, ok)) = n + 1
    <3>1. ASSUME NEW q \in Seq(BOOLEAN), NEW b \in BOOLEAN, Len(q) = n
          PROVE  Append(q, b) \in Seq(BOOLEAN) /\ Len(Append(q, b)) = n + 1
      BY <1>2, <3>1
    <3>2. e.steps \in Seq(BOOLEAN) /\ Len(e.steps) = n
      BY <1>2, <1>6, AllTrueOn
    <3>3. QED
      BY <3>1, <3>2, Zenon
  <2>3. ok => Append(e.steps, ok) = AllTrueFor(n + 1)
    <3>1. ok => ok = TRUE
      OBVIOUS
    <3>2. Append(AllTrueFor(n), TRUE) = AllTrueFor(n + 1)
      BY <1>2, AllTrueOn
    <3>3. QED
      BY <1>6, <3>1, <3>2, Zenon
  <2>4. new.name = e.name /\ new.steps = Append(e.steps, ok) /\ new.passed = e.passed
    BY <1>8, Zenon DEF WithStep
  <2>5. new \in Entry
    BY <1>8, <2>1, <2>2, Zenon DEF Entry, WithStep
  <2>6. QED
    BY <1>6, <2>2, <2>3, <2>4, <2>5, Zenon
<1>10. /\ Shaped(report') /\ report'.suites = report.suites
       /\ Ordered(report', Name(s), tests, a) /\ Told(report', Name(s), tests, sr[s].results, a - 1)
       /\ report'.tests[key] = new
  <2>1. report' = With(report, key, new)
    BY <1>7, <1>8, Zenon
  <2>2. AfterEntry(report, With(report, key, new), Name(s), tests, sr[s].results, a, new)
    BY <1>2, <1>4, <1>9, Enters
  <2>3. QED
    BY <2>1, <2>2 DEF AfterEntry
<1>11. Midway(new, tests[a], pc'[s], n + 1, ok)
  <2>1. n + 1 <= tests[a].steps /\ (~(n + 1 < tests[a].steps) => n + 1 = tests[a].steps)
    BY <1>2, <1>4, <1>5
  <2>2. (pc'[s] = "step" => ok) /\ (pc'[s] # "step" /\ ok => n + 1 = tests[a].steps)
    BY <1>1, <1>2, <2>1
  <2>3. QED
    BY <1>9, <2>1, <2>2 DEF Midway
<1>12. Over(s)' = a - 1 /\ Started(s)' = a /\ pc'[s] \in {"step", "verdict"}
  BY <1>1 DEF Over, Started
<1>13. RunningInv(s)'
  BY <1>1, <1>2, <1>4, <1>10, <1>11, <1>12 DEF RunningInv
<1>14. Extends(s)
  BY <1>1, <1>2, <1>10 DEF Extends
<1>15. QED
  BY <1>12, <1>13, <1>14 DEF EntriesInv

(* OnTestEnd.                                                              *)
LEMMA ReportEndTest ==
  ASSUME NEW s \in Suites, Ready(s), UNCHANGED <<config, manifest>>, EndTest(s)
  PROVE  EntriesInv(s)' /\ Extends(s)
<1> SUFFICES ASSUME NEW a, a = at[s], NEW tests, tests = TestsOf(s), NEW key, key = KeyAt(Name(s), tests, a),
                    NEW e, e = report.tests[key], NEW ok, ok = passing[s]
             PROVE  EntriesInv(s)' /\ Extends(s)
  BY Zenon
<1>1. pc[s] = "report" /\ pc'[s] = "test" /\ at'[s] = a + 1 /\ sr' = sr
  BY DEF EndTest, Goes, Ready, IInv, TypedInv
<1>2. /\ config.reporter = "json" /\ Name(s)' = Name(s) /\ TestsOf(s)' = tests /\ Test(s) = tests[a]
      /\ Shaped(report) /\ Len(report.suites) = s /\ s \in Nat /\ tests \in Seq(TestRecord) /\ Distinct(tests)
  BY <1>1, ReportFrame
<1>3. report' = OnTestEnd(report, Name(s), tests[a].name, ok) /\ ok \in BOOLEAN
  <2>1. ok \in BOOLEAN
    BY <1>1, ReportFrame, Zenon
  <2>2. QED
    BY <1>2, <2>1, Zenon DEF EndTest, Report
<1>4. /\ Ordered(report, Name(s), tests, a) /\ Told(report, Name(s), tests, sr[s].results, a - 1) /\ report.suites[s].tests = <<>>
      /\ Midway(e, tests[a], "report", step[s], ok)
      /\ a \in 1 .. Len(tests) /\ ~tests[a].skip /\ a \in Ran(tests, a) /\ a \in Nat \ {0}
  BY <1>1, <1>2, TestAtWork DEF AtWork
<1>5. sr[s].results[PlaceOf(tests, a)] = ok
  BY <1>1 DEF Ready, EntriesInv, RunningInv
<1>6. /\ e \in Entry
      /\ report' = With(report, key, WithVerdict(e, ok))
  BY <1>2, <1>3, <1>4, EntryMethods
<1>7. PICK new : new = WithVerdict(e, ok)
  OBVIOUS
<1>8. new.name = e.name /\ new.steps = e.steps /\ new.passed = ok /\ new \in Entry
  <2>1. e.name \in STRING /\ e.steps \in Seq(BOOLEAN)
    BY <1>6 DEF Entry
  <2>2. QED
    BY <1>3, <1>7, <2>1, Zenon DEF Entry, WithVerdict
<1>9. /\ Shaped(report') /\ report'.suites = report.suites
      /\ Ordered(report', Name(s), tests, a) /\ Told(report', Name(s), tests, sr[s].results, a - 1)
      /\ report'.tests[key] = new
  <2>1. report' = With(report, key, new)
    BY <1>6, <1>7, Zenon
  <2>2. AfterEntry(report, With(report, key, new), Name(s), tests, sr[s].results, a, new)
    BY <1>2, <1>4, <1>8, Enters
  <2>3. QED
    BY <2>1, <2>2 DEF AfterEntry
<1>10. Tells(new, tests[a], sr[s].results[PlaceOf(tests, a)])
  BY <1>4, <1>5, <1>8, Zenon DEF Tells, Midway
<1>11. Told(report', Name(s), tests, sr[s].results, a)
  BY <1>4, <1>9, <1>10, ToldFurther
<1>12. Over(s)' = a /\ Started(s)' = a
  BY <1>1, <1>4 DEF Over, Started
<1>13. RunningInv(s)'
  BY <1>1, <1>2, <1>4, <1>9, <1>11, <1>12 DEF RunningInv
<1>14. Extends(s)
  BY <1>1, <1>2, <1>9 DEF Extends
<1>15. QED
  BY <1>1, <1>13, <1>14 DEF EntriesInv

(* OnSuiteEnd, and what comes after it.                                    *)
LEMMA ReportEndSuite ==
  ASSUME NEW s \in Suites, Ready(s), UNCHANGED <<config, manifest>>, EndSuite(s) \/ Store(s) \/ Release(s)
  PROVE  EntriesInv(s)' /\ Extends(s)
<1> SUFFICES ASSUME NEW tests, tests = TestsOf(s), NEW flags, flags = sr[s].results
             PROVE  EntriesInv(s)' /\ Extends(s)
  OBVIOUS
<1>1. pc[s] \in {"test", "store", "release"}
  BY DEF EndSuite, Store, Release, Goes
<1>2. /\ config.reporter = "json" /\ Name(s)' = Name(s) /\ TestsOf(s)' = tests
      /\ Shaped(report) /\ Len(report.suites) = s /\ s \in Nat /\ s >= 1 /\ tests \in Seq(TestRecord) /\ Len(tests) \in Nat
      /\ at[s] \in Nat /\ sr[s] \in SuiteResult /\ SuiteInv(s)
  BY <1>1, ReportFrame
<1>3. CASE EndSuite(s)
  <2>1. /\ pc[s] = "test" /\ pc'[s] = "store" /\ at[s] > Len(tests) /\ sr'[s] = Summarised(sr[s])
        /\ report' = OnSuiteEnd(report, Counts(sr'[s]))
    BY <1>2, <1>3 DEF EndSuite, Goes, Report, Ready, IInv, TypedInv
  <2>2. Over(s) = Len(tests) /\ Started(s) = Len(tests)
    <3>1. at[s] - 1 = Len(tests)
      BY <1>2, <2>1 DEF SuiteInv, PlaceInv
    <3>2. QED
      BY <2>1, <3>1 DEF Over, Started
  <2>3. /\ Ordered(report, Name(s), tests, Len(tests)) /\ Told(report, Name(s), tests, flags, Len(tests))
        /\ report.suites[s].tests = <<>>
    BY <2>1, <2>2 DEF Ready, EntriesInv, RunningInv
  <2>4. Counts(sr'[s]) \in Seq(Nat) /\ sr'[s].results = flags
    <3>1. sr'[s] \in SuiteResult /\ sr'[s].results = flags
      BY <1>2, <2>1, SummaryTyped
    <3>2. sr'[s].passed \in Nat /\ sr'[s].failed \in Nat /\ sr'[s].skipped \in Nat
      BY <3>1 DEF SuiteResult
    <3>3. QED
      BY <3>1, <3>2 DEF Counts
  <2>5. /\ Shaped(report') /\ Len(report'.suites) = s
        /\ \A k \in 1 .. s - 1 : report'.suites[k] = report.suites[k]
        /\ report'.suites[s].name = report.suites[s].name /\ report'.suites[s].summary = Counts(sr'[s])
        /\ Closed(report'.suites[s], tests, flags)
    BY <1>2, <2>1, <2>3, <2>4, Closes
  <2>6. ClosedInv(s)'
    BY <1>2, <2>4, <2>5 DEF ClosedInv
  <2>7. Extends(s)
    BY <2>1, <2>5 DEF Extends
  <2>8. QED
    BY <2>1, <2>6, <2>7 DEF EntriesInv
<1>4. CASE Store(s) \/ Release(s)
  <2>1. /\ pc[s] \in {"store", "release"} /\ pc'[s] \in {"release", "gone"} /\ sr' = sr /\ report' = report
    BY <1>4 DEF Store, Release, Goes, Ready, IInv, TypedInv, sharedVars
  <2>2. ClosedInv(s)
    BY <2>1 DEF Ready, EntriesInv
  <2>3. ClosedInv(s)'
    BY <1>2, <2>1, <2>2 DEF ClosedInv
  <2>4. Extends(s)
    BY <2>1, SaysNothing
  <2>5. QED
    BY <2>1, <2>3, <2>4 DEF EntriesInv
<1>5. QED
  BY <1>3, <1>4

(* Whatever the goroutine at work does.                                    *)
LEMMA ReportByStep ==
  ASSUME NEW s \in Suites, Ready(s), UNCHANGED <<config, manifest>>, SuiteStep(s)
  PROVE  EntriesInv(s)' /\ Extends(s) /\ pc'[s] \notin {"unborn", "start"}
<1>1. EntriesInv(s)' /\ Extends(s)
  BY ReportStartSuite, ReportRegister, ReportStartTest, ReportStep, ReportVerdict, ReportEndTest, ReportEndSuite
     DEF SuiteStep
<1>2. pc'[s] \notin {"unborn", "start"}
  <2> USE DEF Goes, Ready, IInv, TypedInv
  <2>1. CASE StartSuite(s) \/ Register(s) \/ SkipTest(s) \/ StartTest(s)
    BY <2>1 DEF StartSuite, Register, SkipTest, StartTest
  <2>2. CASE (\E ok \in BOOLEAN : RunStep(s, ok)) \/ CutTest(s) \/ FinishTest(s) \/ EndTest(s)
    BY <2>2 DEF RunStep, CutTest, FinishTest, EndTest
  <2>3. CASE EndSuite(s) \/ Store(s) \/ Release(s)
    BY <2>3 DEF EndSuite, Store, Release
  <2>4. QED
    BY <2>1, <2>2, <2>3 DEF SuiteStep
<1>3. QED
  BY <1>1, <1>2

(* A suite that nothing happens to keeps its entries.                      *)
LEMMA EntriesStay ==
  ASSUME NEW u, EntriesInv(u), UNCHANGED <<manifest, report>>,
         pc'[u] = pc[u], at'[u] = at[u], step'[u] = step[u], passing'[u] = passing[u], sr'[u] = sr[u]
  PROVE  EntriesInv(u)'
<1>1. Name(u)' = Name(u) /\ TestsOf(u)' = TestsOf(u) /\ Test(u)' = Test(u)
  BY DEF Name, TestsOf, Test
<1>2. Over(u)' = Over(u) /\ Started(u)' = Started(u)
  BY DEF Over, Started
<1>3. RunningInv(u) => RunningInv(u)'
  BY <1>1, <1>2 DEF RunningInv
<1>4. ClosedInv(u) => ClosedInv(u)'
  BY <1>1 DEF ClosedInv
<1>5. QED
  BY <1>3, <1>4 DEF EntriesInv

(* A step of a suite keeps the order of the report.                        *)
LEMMA OrderKept ==
  ASSUME NEW s \in Suites, Ready(s), UNCHANGED <<config, manifest>>, SuiteStep(s)
  PROVE  OrderInv'
<1>1. /\ Extends(s) /\ pc'[s] \notin {"unborn", "start"} /\ Suites' = Suites
      /\ pc[s] \notin {"unborn", "gone"} /\ next' = next
      /\ \A u \in Suites : u # s => pc'[u] = pc[u]
  BY ReportByStep, SuiteFrame DEF Ready, IInv, Suites
<1>2. /\ s = next - 1 /\ Len(report.suites) = IF pc[s] = "start" THEN s - 1 ELSE s
      /\ \A u \in Suites : (u < s => pc[u] = "gone") /\ (u > s => pc[u] = "unborn")
  BY <1>1, OneAtATime DEF Ready, Sequential
<1>3. Suites = 1 .. Len(manifest) /\ Len(manifest) \in Nat
  BY DEF Ready, IInv, TypedInv, Suites
<1>4. Shaped(report') /\ Len(report'.suites) = s
  BY <1>1 DEF Extends
<1>5. ASSUME NEW u \in Suites PROVE Begun(u)' <=> u <= s
  <2>1. CASE u = s
    BY <1>1, <1>3, <2>1 DEF Begun
  <2>2. CASE u # s
    BY <1>1, <1>2, <1>3, <2>2 DEF Begun
  <2>3. QED
    BY <2>1, <2>2
<1>6. ASSUME NEW u \in Suites, u <= s PROVE report'.suites[u].name = Name(u)
  <2>1. CASE u = s
    <3>1. pc[s] # "start" => report.suites[s].name = Name(s)
      BY <1>1 DEF Ready, OrderInv, Begun
    <3>2. QED
      BY <1>1, <2>1, <3>1 DEF Extends
  <2>2. CASE u # s
    <3>1. u \in 1 .. s - 1 /\ Begun(u)
      BY <1>2, <1>3, <1>6, <2>2 DEF Begun
    <3>2. QED
      BY <1>1, <3>1 DEF Ready, OrderInv, Extends
  <2>3. QED
    BY <2>1, <2>2
<1>7. \A u \in Suites : Name(u)' = Name(u)
  BY DEF Name
<1>8. \A u \in Suites : u < next' - 1 => pc'[u] = "gone"
  BY <1>1, <1>2, <1>3
<1>9. QED
  BY <1>1, <1>3, <1>4, <1>5, <1>6, <1>7, <1>8 DEF OrderInv

(* No step of the run makes the report wrong, if one suite runs at a time. *)
LEMMA ReportKept ==
  ASSUME IInv, ReportInv, [Next]_vars
  PROVE  ReportInv'
<1>1. UNCHANGED <<config, manifest>>
  BY DEF Next, Step, Interrupt, vars
<1>2. Suites' = Suites /\ (Sequential' <=> Sequential)
  BY <1>1 DEF Suites, Sequential, Size, TestsNamed, TestsOf
<1> SUFFICES ASSUME Sequential PROVE OrderInv' /\ \A u \in Suites : EntriesInv(u)'
  BY <1>2 DEF ReportInv
<1>3. OrderInv /\ \A u \in Suites : EntriesInv(u)
  BY DEF ReportInv
<1>4. TypedInv /\ Suites = 1 .. Len(manifest) /\ Len(manifest) \in Nat /\ next \in 1 .. Len(manifest) + 1
  BY DEF IInv, TypedInv, Suites
<1>5. CASE \E s \in Suites : SuiteStep(s)
  <2>1. PICK s \in Suites : SuiteStep(s)
    BY <1>5
  <2>2. Ready(s)
    BY <1>3 DEF Ready
  <2>3. OrderInv' /\ EntriesInv(s)' /\ Extends(s)
    BY <1>1, <2>1, <2>2, OrderKept, ReportByStep
  <2>4. ASSUME NEW u \in Suites, u # s PROVE EntriesInv(u)'
    <3>1. pc'[u] = pc[u] /\ sr'[u] = sr[u] /\ pc[s] \notin {"unborn", "gone"}
      BY <1>4, <2>1, <2>4, SuiteFrame
    <3>2. (u < s /\ pc[u] = "gone") \/ (u > s /\ pc[u] = "unborn")
      BY <1>3, <1>4, <2>4, <3>1, OneAtATime DEF Sequential
    <3>3. CASE u < s /\ pc[u] = "gone"
      <4>1. report'.suites[u] = report.suites[u] /\ TestsOf(u)' = TestsOf(u)
        BY <1>1, <1>4, <2>3, <3>3 DEF Extends, TestsOf
      <4>2. ClosedInv(u)
        BY <1>3, <3>3 DEF EntriesInv
      <4>3. ClosedInv(u)'
        BY <3>1, <4>1, <4>2 DEF ClosedInv
      <4>4. QED
        BY <3>1, <3>3, <4>3 DEF EntriesInv
    <3>4. CASE u > s /\ pc[u] = "unborn"
      BY <3>1, <3>4 DEF EntriesInv
    <3>5. QED
      BY <3>2, <3>3, <3>4
  <2>5. QED
    BY <2>3, <2>4
<1>6. CASE Launch
  <2>1. /\ next \in Suites /\ sem < Size /\ next' = next + 1 /\ pc' = [pc EXCEPT ![next] = "start"]
        /\ UNCHANGED <<at, step, passing, sr, report>>
    BY <1>6 DEF Launch, sharedVars
  <2>2. \A u \in Suites : pc[u] \in {"unborn", "gone"}
    <3>1. Cardinality(Running) = 0 /\ IsFiniteSet(Running)
      BY <1>4, <2>1, RunningFinite DEF IInv, PoolInv, PoolBound, Sequential
    <3>2. Running = {}
      BY <3>1, FS_EmptySet
    <3>3. QED
      BY <3>2 DEF Running
  <2>3. \A u \in Suites : pc[u] = "unborn" <=> u >= next
    BY DEF IInv, PoolInv
  <2>4. \A u \in Suites : pc'[u] = IF u = next THEN "start" ELSE pc[u]
    BY <1>4, <2>1 DEF TypedInv
  <2>5. ASSUME NEW u \in Suites PROVE EntriesInv(u)'
    <3>1. CASE u = next
      BY <2>4, <3>1 DEF EntriesInv
    <3>2. CASE u # next
      BY <1>1, <1>3, <2>1, <2>4, <3>2, EntriesStay
    <3>3. QED
      BY <3>1, <3>2
  <2>6. \A u \in Suites : (Begun(u)' <=> Begun(u)) /\ Name(u)' = Name(u)
    BY <1>1, <1>4, <2>1, <2>3, <2>4 DEF Begun, Name
  <2>7. \A u \in Suites : u < next' - 1 => pc'[u] = "gone"
    BY <1>4, <2>1, <2>2, <2>3, <2>4
  <2>8. OrderInv'
    BY <1>1, <1>2, <1>3, <2>1, <2>6, <2>7 DEF OrderInv
  <2>9. QED
    BY <2>5, <2>8
<1>7. CASE UNCHANGED <<next, suiteVars, sharedVars>>
  <2>1. UNCHANGED <<next, pc, at, step, passing, sr, report>>
    BY <1>7 DEF suiteVars, sharedVars
  <2>2. \A u \in Suites : EntriesInv(u)'
    BY <1>1, <1>3, <2>1, EntriesStay
  <2>3. OrderInv'
    BY <1>1, <1>2, <1>3, <2>1 DEF OrderInv, Begun, Name
  <2>4. QED
    BY <2>2, <2>3
<1>8. Launch \/ (\E s \in Suites : SuiteStep(s)) \/ UNCHANGED <<next, suiteVars, sharedVars>>
  BY DEF Next, Step, MainStep, PoolDone, ComputeExitCode, CheckGate, Interrupt, vars, poolVars
<1>9. QED
  BY <1>5, <1>6, <1>7, <1>8

(* An empty report is right before the first suite.                        *)
LEMMA ReportAtInit == Init => ReportInv
<1> SUFFICES ASSUME Init PROVE OrderInv /\ \A s \in Suites : EntriesInv(s)
  BY DEF ReportInv
<1>1. manifest \in Seq(SuiteRecord) /\ Suites = 1 .. Len(manifest)
  BY ManifestsAssumption DEF Init, Suites
<1>2. /\ \A s \in Suites : pc[s] = "unborn" /\ ~Begun(s)
      /\ next = 1 /\ report = [suites |-> <<>>, tests |-> [k \in {} |-> {}], testOrder |-> <<>>]
  BY DEF Init, Begun, NewReport
<1>3. Shaped(report) /\ Len(report.suites) = 0
  BY <1>2 DEF Shaped
<1>4. OrderInv
  BY <1>1, <1>2, <1>3 DEF OrderInv
<1>5. QED
  BY <1>2, <1>4 DEF EntriesInv

(* With one suite at a time the JSON report lists every suite and test with*)
(* the verdict, the counts and the steps that they had: what reporter.go   *)
(* promises of the order of events holds then.                             *)
THEOREM ReportIsFaithful == Spec => []SequentialReportFaithful
<1>1. IInv /\ ReportInv => SequentialReportFaithful
  <2> SUFFICES ASSUME IInv, ReportInv, Reported, Size = 1, TestsNamed PROVE ReportMatches
    BY DEF SequentialReportFaithful
  <2>1. OrderInv /\ \A s \in Suites : EntriesInv(s) /\ SuiteInv(s) /\ pc[s] = "gone"
    BY DEF ReportInv, Sequential, Reported, IInv, PoolInv
  <2>2. Suites = 1 .. Len(manifest) /\ Len(manifest) \in Nat /\ Len(report.suites) \in Nat
        /\ DOMAIN report.suites = 1 .. Len(report.suites)
    BY <2>1 DEF IInv, TypedInv, Suites, OrderInv, Shaped
  <2>3. Len(report.suites) = Len(manifest)
    <3>1. \A s \in Suites : s <= Len(report.suites)
      BY <2>1 DEF OrderInv, Begun
    <3>2. Len(report.suites) <= Len(manifest)
      BY <2>1 DEF OrderInv
    <3>3. Len(manifest) = 0 \/ Len(manifest) \in Suites
      BY <2>2
    <3>4. QED
      BY <2>2, <3>1, <3>2, <3>3
  <2>4. ASSUME NEW s \in Suites
        PROVE  LET entry == report.suites[s] IN
               /\ s \in DOMAIN report.suites /\ entry.name = Name(s) /\ entry.summary = Counts(results[s])
               /\ Len(entry.tests) = Cardinality(PlacesToRun(s))
               /\ \A t \in PlacesToRun(s) : Tells(entry.tests[Rank(s, t)], TestsOf(s)[t], results[s].results[Rank(s, t)])
    <3>1. ClosedInv(s) /\ results[s] = sr[s] /\ report.suites[s].name = Name(s)
      BY <2>1 DEF EntriesInv, SuiteInv, CountsInv, OrderInv, Begun
    <3>2. Len(TestsOf(s)) \in Nat /\ DOMAIN TestsOf(s) = 1 .. Len(TestsOf(s))
      BY TestsTyped DEF IInv
    <3>3. PlacesToRun(s) = Ran(TestsOf(s), Len(TestsOf(s)))
      BY <3>2 DEF PlacesToRun, Ran
    <3>4. \A t \in PlacesToRun(s) : Rank(s, t) = PlaceOf(TestsOf(s), t)
      <4>1. \A t \in PlacesToRun(s) : {u \in PlacesToRun(s) : u <= t} = Ran(TestsOf(s), t)
        BY <3>2 DEF PlacesToRun, Ran
      <4>2. QED
        BY <4>1 DEF Rank, PlaceOf
    <3>5. Closed(report.suites[s], TestsOf(s), results[s].results) /\ report.suites[s].summary = Counts(results[s])
      BY <3>1 DEF ClosedInv
    <3>6. Len(report.suites[s].tests) = Cardinality(PlacesToRun(s))
      BY <3>3, <3>5 DEF Closed, PlaceOf
    <3>7. \A t \in PlacesToRun(s) :
            Tells(report.suites[s].tests[Rank(s, t)], TestsOf(s)[t], results[s].results[Rank(s, t)])
      BY <3>3, <3>4, <3>5 DEF Closed
    <3>8. QED
      BY <2>2, <2>3, <3>1, <3>5, <3>6, <3>7
  <2>5. QED
    BY <2>3, <2>4 DEF ReportMatches, Tells, AllTrueFor
<1>2. IInv /\ ReportInv /\ [Next]_vars => ReportInv'
  BY ReportKept
<1>3. QED
  BY Invariance, ReportAtInit, <1>1, <1>2, PTL DEF Spec
=============================================================================
