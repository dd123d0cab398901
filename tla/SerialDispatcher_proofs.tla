------------------------ MODULE SerialDispatcher_proofs ------------------------
(***************************************************************************)
(* Proofs about SerialDispatcher for every Count, every weight vector and  *)
(* every selection of its modes.                                           *)
(*                                                                         *)
(* RightItemsRun follows from three facts kept by every step: the array    *)
(* that is shuffled has every item in it exactly once (ArrayInv), what has *)
(* been worked on is a prefix of it (RunInv), and a draw by weight finds   *)
(* an item that has one (DrawHasWeight).  The refinement needs in addition *)
(* that a start after the cancellation is the last one (LateInv).          *)
(***************************************************************************)
EXTENDS SerialDispatcher, Induction, FiniteSetTheorems

PCs == {"shuffle", "total", "check", "calling", "working", "unwinding", "panicked", "returned"}

\* where the variables of a call range
TypedInv ==
  /\ mode \in {"sequential", "random", "weighted"}
  /\ weights \in Seq(Nat)
  /\ ctxDone \in BOOLEAN
  /\ pc \in PCs
  /\ i \in Int /\ i <= Count
  /\ pc = "shuffle" => mode = "random" /\ i < Count
  /\ pc # "shuffle" => i >= 0
  /\ pc = "total" => mode = "weighted" /\ i = 0
  /\ pc \in {"calling", "working", "unwinding", "panicked"} => i < Count

\* every item is at one place of the array, which only the random mode changes
ArrayInv ==
  /\ indices \in [Items -> Items]
  /\ \A a, b \in Items : indices[a] = indices[b] => a = b
  /\ \A x \in Items : \E a \in Items : indices[a] = x
  /\ mode = "sequential" => \A a \in Items : indices[a] = a

HasWeight(x) == x \in 0 .. (Len(weights) - 1) /\ weights[x + 1] > 0

\* which items have been begun, and which one is next
RunInv ==
  /\ runs \in Seq(Int)
  /\ Len(runs) = IF pc = "shuffle" THEN 0
                 ELSE IF pc \in {"working", "unwinding", "panicked"} THEN i + 1 ELSE i
  /\ mode # "weighted" =>
       /\ \A n \in DOMAIN runs : runs[n] = indices[n - 1]
       /\ pc = "calling" => item = indices[i]
  /\ mode = "weighted" =>
       /\ \A n \in DOMAIN runs : HasWeight(runs[n])
       /\ pc = "calling" => HasWeight(item)
       /\ pc \notin {"total", "returned"} => TotalWeight > 0
  /\ pc = "returned" => i >= Count \/ ctxDone \/ (mode = "weighted" /\ TotalWeight = 0 /\ i = 0)

IInv == TypedInv /\ ArrayInv /\ RunInv

\* a start that came late is the last one, and a panic is the one of the last pick
LateInv ==
  /\ late # {} => ctxDone /\ pc # "calling"
  /\ crashed = IF pc \in {"unwinding", "panicked"} THEN {i} ELSE {}
-----------------------------------------------------------------------------
(* The operators.                                                          *)

(* The running sums of the weights do not fall, and each weight is what    *)
(* its sum adds.                                                           *)
LEMMA WeightsAdd ==
  ASSUME weights \in Seq(Nat)
  PROVE  /\ Len(weights) \in Nat
         /\ \A n \in 0 .. Len(weights) : CumulativeWeight[n] \in Nat
         /\ CumulativeWeight[0] = 0
         /\ \A n \in 1 .. Len(weights) : CumulativeWeight[n] = CumulativeWeight[n - 1] + weights[n]
<1> DEFINE L == Len(weights)
           F(g) == [n \in 0 .. Len(weights) |-> IF n = 0 THEN 0 ELSE g[n - 1] + weights[n]]
<1>1. L \in Nat /\ weights \in [1 .. L -> Nat]
  OBVIOUS
<1>2. PICK g : g = F(g)
  <2> HIDE DEF L
  <2>1. \E g : g = [n \in 0 .. L |-> IF n = 0 THEN 0 ELSE g[n - 1] + weights[n]]
    BY <1>1, SumExists
  <2>2. QED
    BY <2>1 DEF L
<1>3. CumulativeWeight = F(CumulativeWeight)
  BY <1>2, Zenon DEF CumulativeWeight
<1>4. \A n \in 0 .. L : CumulativeWeight[n] = IF n = 0 THEN 0 ELSE CumulativeWeight[n - 1] + weights[n]
  BY <1>3, Zenon
<1>5. QED
  <2>1. \A n \in 0 .. L : CumulativeWeight[n] = IF n = 0 THEN 0 ELSE CumulativeWeight[n - 1] + weights[n]
    BY <1>4
  <2> HIDE DEF L
  <2>2. /\ CumulativeWeight[0] = 0 /\ \A n \in 1 .. L : CumulativeWeight[n] = CumulativeWeight[n - 1] + weights[n]
        /\ \A n \in 0 .. L : CumulativeWeight[n] \in Nat
    BY <1>1, <2>1, SumTyped
  <2>3. QED
    BY <1>1, <2>2, Zenon DEF L

(* A number below the total is drawn somewhere, and what is drawn is an    *)
(* item that has a weight (selectByWeight).                                *)
LEMMA DrawHasWeight ==
  ASSUME weights \in Seq(Nat), NEW r \in Nat, r < TotalWeight
  PROVE  HasWeight(SelectByWeight(r))
<1> DEFINE L == Len(weights)
           c == CumulativeWeight
           T == {k \in 0 .. L : r >= c[k]}
<1>1. /\ L \in Nat /\ (\A n \in 0 .. L : c[n] \in Nat) /\ c[0] = 0
      /\ \A n \in 1 .. L : c[n] = c[n - 1] + weights[n]
  BY WeightsAdd
<1>2. r < c[L]
  BY DEF TotalWeight
<1> HIDE DEF L, c
<1>3. PICK k \in 0 .. L - 1 : r < c[k + 1] /\ \A j \in 0 .. k - 1 : r >= c[j + 1]
  <2>1. SUFFICES ASSUME \A k \in 0 .. L - 1 : ~(r < c[k + 1] /\ \A j \in 0 .. k - 1 : r >= c[j + 1])
                 PROVE  FALSE
    OBVIOUS
  <2> DEFINE U == {k \in 0 .. L : \A j \in 0 .. k : r >= c[j]}
  <2>2. 0 \in U
    BY <1>1
  <2>3. ASSUME NEW k \in 0 .. L - 1, k \in U PROVE k + 1 \in U
    <3>1. \A j \in 0 .. k - 1 : r >= c[j + 1]
      BY <2>3
    <3>2. ~(r < c[k + 1])
      BY <2>1, <3>1
    <3>3. k + 1 \in 0 .. L /\ c[k + 1] \in Nat
      BY <1>1
    <3>4. \A j \in 0 .. k + 1 : r >= c[j]
      BY <1>1, <2>3, <3>2, <3>3
    <3>5. QED
      BY <3>3, <3>4
  <2> HIDE DEF U
  <2>4. 0 .. L \subseteq U
    BY <1>1, <2>2, <2>3, IntervalInduction
  <2>5. L \in U
    BY <1>1, <2>4
  <2>6. QED
    BY <1>1, <1>2, <2>5 DEF U
<1> DEFINE Drawn(x) == r < c[x + 1] /\ \A j \in 0 .. (x - 1) : r >= c[j + 1]
           d == CHOOSE x \in 0 .. (L - 1) : Drawn(x)
<1>4. SelectByWeight(r) = d
  BY Zenon DEF SelectByWeight, c, L
<1>5. d \in 0 .. (L - 1) /\ Drawn(d)
  <2>1. \E x \in 0 .. (L - 1) : Drawn(x)
    BY <1>3
  <2> HIDE DEF Drawn
  <2>2. QED
    BY <2>1, Zenon
<1>6. r >= c[d]
  <2> HIDE DEF d
  <2>1. CASE d = 0
    BY <1>1, <2>1
  <2>2. CASE d # 0
    <3>1. d - 1 \in 0 .. (d - 1) /\ (d - 1) + 1 = d
      BY <1>5, <2>2
    <3>2. QED
      BY <1>5, <3>1
  <2>3. QED
    BY <2>1, <2>2
<1>7. weights[d + 1] > 0
  <2> HIDE DEF d
  <2>1. d + 1 \in 1 .. L /\ c[d + 1] = c[(d + 1) - 1] + weights[d + 1] /\ (d + 1) - 1 = d
    BY <1>1, <1>5
  <2>2. c[d] \in Nat /\ c[d + 1] \in Nat /\ weights[d + 1] \in Nat
    <3>1. d \in 0 .. L /\ d + 1 \in 0 .. L
      BY <1>1, <1>5
    <3>2. weights[d + 1] \in Nat
      BY <2>1 DEF L
    <3>3. QED
      BY <1>1, <3>1, <3>2
  <2>3. r < c[d + 1]
    BY <1>5
  <2>4. QED
    BY <1>6, <2>1, <2>2, <2>3
<1>8. QED
  BY <1>4, <1>5, <1>7 DEF HasWeight, L

(* Swapping two entries of an array leaves every item in it once.          *)
LEMMA SwapKeeps ==
  ASSUME NEW S, NEW f \in [S -> S], NEW a \in S, NEW b \in S,
         \A x, y \in S : f[x] = f[y] => x = y,
         \A z \in S : \E x \in S : f[x] = z,
         NEW g, g = [f EXCEPT ![a] = f[b], ![b] = f[a]]
  PROVE  /\ g \in [S -> S]
         /\ \A x, y \in S : g[x] = g[y] => x = y
         /\ \A z \in S : \E x \in S : g[x] = z
<1>1. \A x \in S : g[x] = IF x = b THEN f[a] ELSE IF x = a THEN f[b] ELSE f[x]
  OBVIOUS
<1>2. g \in [S -> S]
  OBVIOUS
<1>3. \A x, y \in S : g[x] = g[y] => x = y
  BY <1>1
<1>4. ASSUME NEW z \in S PROVE \E x \in S : g[x] = z
  <2>1. PICK x \in S : f[x] = z
    OBVIOUS
  <2>2. g[IF x = a THEN b ELSE IF x = b THEN a ELSE x] = z
    BY <1>1, <2>1
  <2>3. QED
    BY <2>2
<1>5. QED
  BY <1>2, <1>3, <1>4

-----------------------------------------------------------------------------
(* The invariants.                                                         *)

(* The array begins as the identity, and nothing has been picked.          *)
LEMMA InitIInv == Init => IInv /\ LateInv
<1> SUFFICES ASSUME Init PROVE IInv /\ LateInv
  OBVIOUS
<1> USE CountAssumption DEF Init
<1>1. mode \in {"sequential", "random", "weighted"} /\ weights \in Seq(Nat)
  BY ModesAssumption, WeightsAssumption
<1>2. pc = IF mode = "random" THEN "shuffle" ELSE IF mode = "weighted" THEN "total" ELSE "check"
  BY <1>1
<1>3. TypedInv
  <2>1. ctxDone \in BOOLEAN
    OBVIOUS
  <2>2. i = IF mode = "random" THEN Count - 1 ELSE 0
    BY Zenon
  <2>3. QED
    BY ONLY <1>1, <1>2, <2>1, <2>2, CountAssumption DEF TypedInv, PCs
<1>4. ArrayInv
  BY DEF ArrayInv
<1>5. RunInv
  BY <1>1, <1>2 DEF RunInv
<1>6. LateInv
  BY <1>2 DEF LateInv
<1>7. QED
  BY <1>3, <1>4, <1>5, <1>6 DEF IInv

(* Only a round of the shuffle touches the array, and it swaps two entries.*)
LEMMA ArrayKeeps == ASSUME IInv, [Next]_vars PROVE ArrayInv'
<1>1. CASE Shuffle /\ i > 0
  <2>1. mode' = mode /\ mode = "random" /\ i \in Items
    BY <1>1, CountAssumption DEF Shuffle, IInv, TypedInv, Items
  <2>2. PICK j \in 0 .. i : indices' = [indices EXCEPT ![i] = indices[j], ![j] = indices[i]]
    BY <1>1 DEF Shuffle
  <2>3. j \in Items
    BY <2>1, CountAssumption DEF Items
  <2>4. QED
    BY <2>1, <2>2, <2>3, SwapKeeps DEF IInv, ArrayInv
<1>2. CASE ~(Shuffle /\ i > 0)
  <2>1. indices' = indices /\ mode' = mode
    BY <1>2 DEF Next, Step, Shuffle, SumWeights, Return, PassCheck, StartWork, EndWork, PanicWork, Unwind,
                Cancel, vars
  <2>2. QED
    BY <2>1 DEF IInv, ArrayInv
<1>3. QED
  BY <1>1, <1>2

(* Where the call is, and how far its loops have come.                     *)
LEMMA TypedKeeps == ASSUME IInv, [Next]_vars PROVE TypedInv'
<1> USE CountAssumption DEF IInv, TypedInv, PCs
<1>1. CASE Shuffle \/ SumWeights \/ Return
  BY <1>1 DEF Shuffle, SumWeights, Return
<1>2. CASE PassCheck \/ StartWork \/ EndWork
  BY <1>2 DEF PassCheck, StartWork, EndWork
<1>3. CASE PanicWork \/ Unwind \/ Cancel \/ UNCHANGED vars
  BY <1>3 DEF PanicWork, Unwind, Cancel, vars
<1>4. QED
  BY <1>1, <1>2, <1>3 DEF Next, Step

(* What has been begun is what the array, or a draw, has said.             *)
LEMMA RunKeeps == ASSUME IInv, [Next]_vars PROVE RunInv'
<1> USE DEF IInv, RunInv
<1>1. /\ weights' = weights /\ mode' = mode /\ CumulativeWeight' = CumulativeWeight
      /\ TotalWeight' = TotalWeight
  <2>1. weights' = weights /\ mode' = mode
    BY DEF Next, Step, Shuffle, SumWeights, Return, PassCheck, StartWork, EndWork, PanicWork, Unwind,
           Cancel, vars
  <2>2. CumulativeWeight' = CumulativeWeight
    BY <2>1, Zenon DEF CumulativeWeight
  <2>3. QED
    BY <2>1, <2>2 DEF TotalWeight
<1>2. \A x : HasWeight(x)' <=> HasWeight(x)
  BY <1>1 DEF HasWeight
<1>3. /\ i \in Int /\ i <= Count /\ Count \in Nat /\ weights \in Seq(Nat) /\ TotalWeight \in Nat
      /\ Len(runs) \in Nat /\ DOMAIN runs = 1 .. Len(runs)
  BY CountAssumption, WeightsAdd DEF TypedInv, TotalWeight
<1>4. CASE Shuffle
  BY <1>1, <1>3, <1>4 DEF Shuffle, TypedInv
<1>5. CASE SumWeights
  BY <1>1, <1>2, <1>3, <1>5 DEF SumWeights, TypedInv
<1>6. CASE Return
  BY <1>1, <1>2, <1>3, <1>6 DEF Return
<1>7. CASE PassCheck
  <2>1. pc = "check" /\ pc' = "calling" /\ item' \in Picked /\ UNCHANGED <<indices, i, runs>>
    BY <1>7 DEF PassCheck
  <2>2. mode = "weighted" => HasWeight(item')
    <3> SUFFICES ASSUME mode = "weighted" PROVE HasWeight(item')
      OBVIOUS
    <3>1. PICK r \in 0 .. (TotalWeight - 1) : item' = SelectByWeight(r)
      BY <2>1 DEF Picked
    <3>2. r \in Nat /\ r < TotalWeight
      BY <1>3
    <3>3. QED
      BY <1>3, <3>1, <3>2, DrawHasWeight
  <2>3. mode # "weighted" => item' = indices[i]
    BY <2>1 DEF Picked
  <2>4. QED
    BY <1>1, <1>2, <1>3, <2>1, <2>2, <2>3
<1>8. CASE StartWork
  <2>1. pc = "calling" /\ pc' = "working" /\ runs' = Append(runs, item) /\ UNCHANGED <<indices, i, item>>
    BY <1>8 DEF StartWork
  <2>2. item \in Int /\ i \in Items
    <3>1. i \in Items
      BY <1>3, <2>1 DEF TypedInv, Items
    <3>2. mode # "weighted" => item \in Int
      BY <2>1, <3>1 DEF ArrayInv, Items
    <3>3. mode = "weighted" => item \in Int
      BY <2>1 DEF HasWeight
    <3>4. QED
      BY <3>1, <3>2, <3>3
  <2>3. /\ runs' \in Seq(Int) /\ Len(runs') = i + 1 /\ DOMAIN runs' = 1 .. i + 1
        /\ \A n \in 1 .. i : runs'[n] = runs[n]
        /\ runs'[i + 1] = item
        /\ Len(runs) = i
    BY <1>3, <2>1, <2>2
  <2>4. \A n \in 1 .. i + 1 : n \in 1 .. i \/ n = i + 1
    BY <1>3
  <2>5. mode # "weighted" => \A n \in 1 .. i + 1 : runs'[n] = indices[n - 1]
    <3>1. ASSUME mode # "weighted", NEW n \in 1 .. i PROVE runs'[n] = indices[n - 1]
      BY <2>3, <3>1, <1>3
    <3>2. mode # "weighted" => runs'[i + 1] = indices[(i + 1) - 1]
      BY <1>3, <2>1, <2>3
    <3>3. QED
      BY <2>4, <3>1, <3>2
  <2>6. mode = "weighted" => \A n \in 1 .. i + 1 : HasWeight(runs'[n])
    BY <1>3, <2>1, <2>3, <2>4
  <2>7. QED
    BY <1>1, <1>2, <2>1, <2>3, <2>5, <2>6
<1>9. CASE EndWork \/ PanicWork \/ Unwind
  BY <1>1, <1>2, <1>3, <1>9 DEF EndWork, PanicWork, Unwind
<1>10. CASE Cancel \/ UNCHANGED vars
  BY <1>1, <1>2, <1>3, <1>10 DEF Cancel, vars
<1>11. QED
  BY <1>4, <1>5, <1>6, <1>7, <1>8, <1>9, <1>10 DEF Next, Step

(* A start after the cancellation is followed by the look at the context.  *)
LEMMA LateKeeps == ASSUME IInv, LateInv, [Next]_vars PROVE LateInv'
<1> USE DEF LateInv
<1>1. CASE Shuffle \/ SumWeights \/ Return \/ PassCheck
  BY <1>1 DEF Shuffle, SumWeights, Return, PassCheck
<1>2. CASE StartWork \/ EndWork
  BY <1>2 DEF StartWork, EndWork
<1>3. CASE PanicWork \/ Unwind \/ Cancel \/ UNCHANGED vars
  BY <1>3 DEF PanicWork, Unwind, Cancel, vars
<1>4. QED
  BY <1>1, <1>2, <1>3 DEF Next, Step

(* Every step of the dispatcher keeps both invariants.                     *)
LEMMA NextIInv == IInv /\ LateInv /\ [Next]_vars => IInv' /\ LateInv'
  BY ArrayKeeps, TypedKeeps, RunKeeps, LateKeeps DEF IInv

(* The invariants hold throughout.                                         *)
THEOREM Invariance == Spec => [](IInv /\ LateInv)
  BY InitIInv, NextIInv, PTL DEF Spec

(* SequentialDispatcher and RandomDispatcher work on an item at most once, *)
(* on every item when they return uncancelled, and the first of them in    *)
(* the order of the items; WeightedDispatcher never draws an item without  *)
(* weight.                                                                 *)
THEOREM RightItems == Spec => []RightItemsRun
<1>1. IInv => RightItemsRun
  <2> SUFFICES ASSUME IInv PROVE RightItemsRun
    OBVIOUS
  <2>1. mode = "weighted" => \A n \in DOMAIN runs : weights[runs[n] + 1] > 0
    BY DEF IInv, RunInv, HasWeight
  <2> SUFFICES ASSUME mode # "weighted"
               PROVE  /\ \A m, n \in DOMAIN runs : runs[m] = runs[n] => m = n
                      /\ pc = "returned" /\ ~ctxDone => {runs[n] : n \in DOMAIN runs} = Items
                      /\ mode = "sequential" => \A n \in DOMAIN runs : runs[n] = n - 1
    BY <2>1 DEF RightItemsRun
  <2>2. /\ DOMAIN runs = 1 .. Len(runs) /\ Len(runs) \in Nat /\ Len(runs) <= Count /\ Count \in Nat
        /\ \A n \in DOMAIN runs : runs[n] = indices[n - 1]
    BY CountAssumption DEF IInv, TypedInv, RunInv
  <2>3. \A n \in DOMAIN runs : n - 1 \in Items
    BY <2>2 DEF Items
  <2>4. \A m, n \in DOMAIN runs : runs[m] = runs[n] => m = n
    BY <2>2, <2>3 DEF IInv, ArrayInv
  <2>5. ASSUME pc = "returned", ~ctxDone PROVE {runs[n] : n \in DOMAIN runs} = Items
    <3>1. Len(runs) = Count
      BY <2>2, <2>5 DEF IInv, TypedInv, RunInv
    <3>2. ASSUME NEW x \in Items PROVE \E n \in DOMAIN runs : runs[n] = x
      <4>1. PICK a \in Items : indices[a] = x
        BY DEF IInv, ArrayInv
      <4>2. a + 1 \in DOMAIN runs /\ (a + 1) - 1 = a
        BY <2>2, <3>1, <4>1 DEF Items
      <4>3. QED
        BY <2>2, <4>1, <4>2
    <3>3. \A n \in DOMAIN runs : runs[n] \in Items
      BY <2>2, <2>3 DEF IInv, ArrayInv
    <3>4. QED
      BY <3>2, <3>3
  <2>6. QED
    BY <2>2, <2>3, <2>4, <2>5 DEF IInv, ArrayInv
<1>2. QED
  BY <1>1, Invariance, PTL

-----------------------------------------------------------------------------
(* The promise of the Dispatcher interface.                                *)

\* what the caller sees: the terms of the refinement mapping
AbsPicks == IF mode = "weighted" /\ TotalWeight = 0 THEN {} ELSE Items
AbsFinished == IF pc = "working" THEN Begun \ {i} ELSE Begun
AbsOutcome == IF Returned THEN pc ELSE "running"

Unseen == UNCHANGED <<AbsPicks, Begun, AbsFinished, crashed, late, ctxDone, AbsOutcome>>

(* The weights are those of the call throughout.                           *)
LEMMA SamePicks == ASSUME [Next]_vars PROVE AbsPicks' = AbsPicks
<1>1. weights' = weights /\ mode' = mode
  BY DEF Next, Step, Shuffle, SumWeights, Return, PassCheck, StartWork, EndWork, PanicWork, Unwind,
         Cancel, vars
<1>2. CumulativeWeight' = CumulativeWeight
  BY <1>1, Zenon DEF CumulativeWeight
<1>3. QED
  BY <1>1, <1>2 DEF AbsPicks, TotalWeight

(* Once work is under way, the picks are one for each of the count.        *)
LEMMA AllPicks ==
  ASSUME IInv, pc \in {"calling", "working"}
  PROVE  AbsPicks = Items /\ i \in Items /\ i \in Nat
<1>1. weights \in Seq(Nat) /\ i \in Int /\ i >= 0 /\ i < Count
  BY DEF IInv, TypedInv
<1>2. mode = "weighted" => TotalWeight > 0
  BY DEF IInv, RunInv
<1>3. TotalWeight \in Nat
  BY <1>1, WeightsAdd DEF TotalWeight
<1>4. QED
  BY <1>1, <1>2, <1>3, CountAssumption DEF AbsPicks, Items

(* The shuffle, a total that is not zero and the look at the context are   *)
(* nothing to the caller.                                                  *)
LEMMA PreparingUnseen ==
  ASSUME [Next]_vars, Shuffle \/ PassCheck \/ (SumWeights /\ TotalWeight # 0)
  PROVE  Unseen
<1>1. AbsPicks' = AbsPicks
  BY SamePicks
<1>2. QED
  BY <1>1 DEF Shuffle, PassCheck, SumWeights, Unseen, Begun, AbsFinished, AbsOutcome, Returned

(* The call of the work function is a start of the next pick.              *)
LEMMA StartIsStart ==
  ASSUME IInv, LateInv, [Next]_vars, StartWork
  PROVE  \E p \in AbsPicks : Abstract!AbsStart(p)
<1>1. /\ pc = "calling" /\ pc' = "working" /\ UNCHANGED <<ctxDone, i, crashed>>
      /\ late' = IF ctxDone THEN late \cup {i} ELSE late
  BY DEF StartWork
<1>2. /\ i \in Items /\ i \in Nat /\ Len(runs) = i /\ Len(runs') = i + 1 /\ AbsPicks = Items
  <2>1. i \in Items /\ i \in Nat /\ Len(runs) = i /\ AbsPicks = Items
    BY <1>1, AllPicks DEF IInv, RunInv
  <2>2. Len(runs') = i + 1
    BY <1>1, RunKeeps, <2>1 DEF RunInv
  <2>3. QED
    BY <2>1, <2>2
<1>3. Begun = 0 .. (i - 1) /\ Begun' = Begun \cup {i} /\ i \notin Begun
  BY <1>1, <1>2 DEF Begun
<1>4. AbsFinished = Begun /\ AbsFinished' = Begun
  BY <1>1, <1>3 DEF AbsFinished
<1>5. late = {} /\ AbsOutcome = "running" /\ AbsOutcome' = AbsOutcome
  BY <1>1 DEF LateInv, AbsOutcome, Returned
<1>6. Cardinality(Begun \ AbsFinished) < 1 /\ Cardinality(late) < 1
  BY <1>4, <1>5, FS_EmptySet
<1>7. Abstract!Cardinality(Begun \ AbsFinished) < 1 /\ Abstract!Cardinality(late) < 1
  BY <1>6 DEF Abstract!Cardinality, Cardinality
<1>8. AbsPicks' = AbsPicks
  BY SamePicks
<1>9. Abstract!AbsStart(i)
  BY <1>1, <1>3, <1>4, <1>5, <1>7, <1>8 DEF Abstract!AbsStart, AbsPicks, AbsFinished, AbsOutcome
<1>10. QED
  BY <1>2, <1>9

(* Its end, by a return or by a panic, is a finish of it.                  *)
LEMMA EndIsFinish ==
  ASSUME IInv, LateInv, [Next]_vars, EndWork \/ PanicWork
  PROVE  \E p \in AbsPicks : Abstract!AbsFinish(p)
<1>1. /\ pc = "working" /\ pc' \in {"check", "unwinding"}
      /\ UNCHANGED <<ctxDone, late, runs>>
      /\ crashed' \in {crashed, crashed \cup {i}}
  BY DEF EndWork, PanicWork
<1>2. i \in Items /\ Len(runs) = i + 1 /\ i \in Nat /\ AbsPicks = Items
  BY <1>1, AllPicks DEF IInv, RunInv
<1>3. i \in Begun /\ Begun' = Begun
  BY <1>1, <1>2 DEF Begun
<1>4. AbsFinished = Begun \ {i} /\ AbsFinished' = AbsFinished \cup {i} /\ i \in Begun \ AbsFinished
  BY <1>1, <1>3 DEF AbsFinished
<1>5. AbsOutcome' = AbsOutcome
  BY <1>1 DEF AbsOutcome, Returned
<1>6. AbsPicks' = AbsPicks
  BY SamePicks
<1>7. Abstract!AbsFinish(i)
  BY <1>1, <1>3, <1>4, <1>5, <1>6 DEF Abstract!AbsFinish, AbsPicks, AbsFinished, AbsOutcome
<1>8. QED
  BY <1>2, <1>7

(* The end of the loop, a total of zero and the unwinding are the return.  *)
LEMMA ReturnIsReturn ==
  ASSUME IInv, LateInv, [Next]_vars, Return \/ Unwind \/ (SumWeights /\ TotalWeight = 0)
  PROVE  Abstract!AbsReturn
<1>1. AbsPicks' = AbsPicks
  BY SamePicks
<1>2. /\ UNCHANGED <<ctxDone, late, crashed, runs, i>> /\ pc # "working" /\ pc' # "working" /\ ~Returned
  BY DEF Return, Unwind, SumWeights, Returned
<1>3. Begun' = Begun /\ AbsFinished = Begun /\ AbsFinished' = Begun /\ AbsOutcome = "running"
  BY <1>2 DEF Begun, AbsFinished, AbsOutcome
<1>4. CASE Return
  <2>1. pc = "check" /\ pc' = "returned" /\ (i >= Count \/ ctxDone) /\ crashed = {}
    BY <1>4 DEF Return, LateInv
  <2>2. Begun = AbsPicks \/ ctxDone
    BY <2>1, CountAssumption DEF IInv, TypedInv, RunInv, Begun, AbsPicks, Items
  <2>3. AbsOutcome' = "returned"
    BY <2>1 DEF AbsOutcome, Returned
  <2>4. QED
    BY <1>1, <1>2, <1>3, <2>1, <2>2, <2>3 DEF Abstract!AbsReturn, AbsPicks, AbsFinished, AbsOutcome
<1>5. CASE Unwind
  <2>1. pc = "unwinding" /\ pc' = "panicked" /\ crashed # {}
    BY <1>5 DEF Unwind, LateInv
  <2>2. AbsOutcome' = "panicked"
    BY <2>1 DEF AbsOutcome, Returned
  <2>3. QED
    BY <1>1, <1>2, <1>3, <2>1, <2>2 DEF Abstract!AbsReturn, AbsPicks, AbsFinished, AbsOutcome
<1>6. CASE SumWeights /\ TotalWeight = 0
  <2>1. pc = "total" /\ pc' = "returned" /\ crashed = {} /\ mode = "weighted" /\ i = 0 /\ Len(runs) = 0
    BY <1>6 DEF SumWeights, LateInv, IInv, TypedInv, RunInv
  <2>2. Begun = {} /\ AbsPicks = {}
    BY <1>6, <2>1 DEF Begun, AbsPicks
  <2>3. AbsOutcome' = "returned"
    BY <2>1 DEF AbsOutcome, Returned
  <2>4. QED
    BY <1>1, <1>2, <1>3, <2>1, <2>2, <2>3 DEF Abstract!AbsReturn, AbsPicks, AbsFinished, AbsOutcome
<1>7. QED
  BY <1>4, <1>5, <1>6

(* Every step is a step of the interface, or one its caller does not see.  *)
LEMMA StepRefines == IInv /\ LateInv /\ [Next]_vars => [Abstract!AbsNext]_(Abstract!absVars)
<1> SUFFICES ASSUME IInv, LateInv, [Next]_vars PROVE Abstract!AbsNext \/ UNCHANGED Abstract!absVars
  OBVIOUS
<1>1. Unseen => UNCHANGED Abstract!absVars
  BY DEF Unseen, Abstract!absVars, AbsPicks, AbsFinished, AbsOutcome
<1>2. CASE Shuffle \/ PassCheck \/ (SumWeights /\ TotalWeight # 0)
  BY <1>1, <1>2, PreparingUnseen
<1>3. CASE StartWork \/ EndWork \/ PanicWork
  BY <1>3, StartIsStart, EndIsFinish DEF Abstract!AbsNext, AbsPicks
<1>4. CASE Return \/ Unwind \/ (SumWeights /\ TotalWeight = 0)
  BY <1>4, ReturnIsReturn DEF Abstract!AbsNext
<1>5. CASE Cancel
  <2>1. Abstract!AbsCancel
    <3>1. AbsPicks' = AbsPicks
      BY SamePicks
    <3>2. QED
      BY <1>5, <3>1 DEF Cancel, Abstract!AbsCancel, AbsPicks, Begun, Returned
  <2>2. QED
    BY <2>1 DEF Abstract!AbsNext
<1>6. CASE UNCHANGED vars
  <2>1. AbsPicks' = AbsPicks
    BY SamePicks
  <2>2. Unseen
    BY <1>6, <2>1 DEF vars, Unseen, Begun, AbsFinished, AbsOutcome, Returned
  <2>3. QED
    BY <1>1, <2>2
<1>7. QED
  BY <1>2, <1>3, <1>4, <1>5, <1>6 DEF Next, Step

(* A call of a dispatcher that works in the caller's goroutine keeps the   *)
(* promise of the Dispatcher interface, one pick at a time, and starts one *)
(* pick at most after a cancellation.                                      *)
THEOREM Refinement == Spec => ImplementsDispatch
<1>1. Init => Abstract!AbsInit
  <2> SUFFICES ASSUME Init PROVE Abstract!AbsInit
    OBVIOUS
  <2>1. pc \in {"shuffle", "total", "check"} /\ runs = <<>> /\ late = {} /\ crashed = {} /\ ctxDone = FALSE
    BY DEF Init
  <2>2. Begun = {}
    BY <2>1 DEF Begun
  <2>3. QED
    BY <2>1, <2>2 DEF Abstract!AbsInit, Returned
<1>2. QED
  BY <1>1, InitIInv, NextIInv, StepRefines, PTL DEF Spec, ImplementsDispatch, Abstract!AbsSpec
=============================================================================
