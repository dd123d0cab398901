-------------------------- MODULE SerialDispatcher --------------------------
(***************************************************************************)
(* One call of Dispatch on the dispatchers that work in the caller's       *)
(* goroutine: SequentialDispatcher, RandomDispatcher and                   *)
(* WeightedDispatcher (core/engine/dispatcher.go:22-54 and 128-167).       *)
(* They differ only in which item a pick is: the pick's own index, the     *)
(* entry of a shuffled array, or a draw by weight.                         *)
(***************************************************************************)
EXTENDS Naturals, Integers, Sequences, FiniteSets

CONSTANTS Count,          \* the count argument of Dispatch
          WeightVectors,  \* weights to consider, weights[k] for item k-1
          Modes           \* the dispatchers to consider

ASSUME CountAssumption == Count \in Nat
ASSUME WeightsAssumption == WeightVectors \subseteq Seq(Nat)
ASSUME ModesAssumption == Modes \subseteq {"sequential", "random", "weighted"}

Items == 0 .. (Count - 1)

VARIABLES mode,     \* which dispatcher it is
          weights,  \* the weights it was made with
          ctxDone,  \* ctx.Err() # nil
          pc,       \* where the call is
          indices,  \* RandomDispatcher's array; the identity for the others
          i,        \* the loop variable, of the shuffle and then of the run
          item,     \* the item being worked on
          runs,     \* history: the items worked on, in order
          late,     \* history: picks whose work began after the cancellation
          crashed   \* history: picks whose work panicked

vars == <<mode, weights, ctxDone, pc, indices, i, item, runs, late, crashed>>

\* the sum of the first n weights
CumulativeWeight[n \in 0 .. Len(weights)] ==
  IF n = 0 THEN 0 ELSE CumulativeWeight[n - 1] + weights[n]

TotalWeight == CumulativeWeight[Len(weights)]

\* selectByWeight: the first index whose cumulative weight exceeds r
SelectByWeight(r) ==
  CHOOSE k \in 0 .. (Len(weights) - 1) :
    /\ r < CumulativeWeight[k + 1]
    /\ \A j \in 0 .. (k - 1) : r >= CumulativeWeight[j + 1]

Init ==
  /\ mode \in Modes
  /\ weights \in WeightVectors
  /\ ctxDone = FALSE
  /\ indices = [k \in Items |-> k]
  /\ i = IF mode = "random" THEN Count - 1 ELSE 0
  /\ pc = CASE mode = "random" -> "shuffle"
            [] mode = "weighted" -> "total"
            [] OTHER -> "check"
  /\ item = 0
  /\ runs = <<>>
  /\ late = {}
  /\ crashed = {}

\* variant: the entry drawn is copied, not swapped
ShuffleCopy ==
  /\ pc = "shuffle"
  /\ IF i > 0
     THEN /\ \E j \in 0 .. i : indices' = [indices EXCEPT ![i] = indices[j]]
          /\ i' = i - 1
          /\ UNCHANGED pc
     ELSE /\ i' = 0
          /\ pc' = "check"
          /\ UNCHANGED indices
  /\ UNCHANGED <<mode, weights, ctxDone, item, runs, late, crashed>>

\* one round of the Fisher-Yates shuffle, the context is not looked at
Shuffle ==
  /\ pc = "shuffle"
  /\ IF i > 0
     THEN /\ \E j \in 0 .. i :
               indices' = [indices EXCEPT ![i] = indices[j], ![j] = indices[i]]
          /\ i' = i - 1
          /\ UNCHANGED pc
     ELSE /\ i' = 0
          /\ pc' = "check"
          /\ UNCHANGED indices
  /\ UNCHANGED <<mode, weights, ctxDone, item, runs, late, crashed>>

\* variant: no test for a total of zero
SumWeightsUntested ==
  /\ pc = "total"
  /\ pc' = "check"
  /\ UNCHANGED <<mode, weights, ctxDone, indices, i, item, runs, late, crashed>>

\* WeightedDispatcher sums its weights first and gives up on a total of zero
SumWeights ==
  /\ pc = "total"
  /\ pc' = IF TotalWeight = 0 THEN "returned" ELSE "check"
  /\ UNCHANGED <<mode, weights, ctxDone, indices, i, item, runs, late, crashed>>

\* the loop is over, or ctx.Err() is not nil at the top of the body
Return ==
  /\ pc = "check"
  /\ i >= Count \/ ctxDone
  /\ pc' = "returned"
  /\ UNCHANGED <<mode, weights, ctxDone, indices, i, item, runs, late, crashed>>

\* the item of this pick
Picked ==
  IF mode = "weighted"
  THEN {SelectByWeight(r) : r \in 0 .. (TotalWeight - 1)}
  ELSE {indices[i]}

\* variant: the context is looked at before the first item only
PassCheckOnce ==
  /\ pc = "check"
  /\ i < Count /\ (i = 0 => ~ctxDone)
  /\ item' \in Picked
  /\ pc' = "calling"
  /\ UNCHANGED <<mode, weights, ctxDone, indices, i, runs, late, crashed>>

\* past the check the work function is called; a cancellation may come
\* between the two
PassCheck ==
  /\ pc = "check"
  /\ i < Count /\ ~ctxDone
  /\ item' \in Picked
  /\ pc' = "calling"
  /\ UNCHANGED <<mode, weights, ctxDone, indices, i, runs, late, crashed>>

StartWork ==
  /\ pc = "calling"
  /\ pc' = "working"
  /\ runs' = Append(runs, item)
  /\ late' = IF ctxDone THEN late \cup {i} ELSE late
  /\ UNCHANGED <<mode, weights, ctxDone, indices, i, item, crashed>>

EndWork ==
  /\ pc = "working"
  /\ pc' = "check"
  /\ i' = i + 1
  /\ UNCHANGED <<mode, weights, ctxDone, indices, item, runs, late, crashed>>

PanicWork ==
  /\ pc = "working"
  /\ pc' = "unwinding"
  /\ crashed' = crashed \cup {i}
  /\ UNCHANGED <<mode, weights, ctxDone, indices, i, item, runs, late>>

\* nothing here recovers: the panic goes on to the caller
Unwind ==
  /\ pc = "unwinding"
  /\ pc' = "panicked"
  /\ UNCHANGED <<mode, weights, ctxDone, indices, i, item, runs, late, crashed>>

Cancel ==
  /\ ~ctxDone
  /\ ctxDone' = TRUE
  /\ UNCHANGED <<mode, weights, pc, indices, i, item, runs, late, crashed>>

Step ==
  \/ Shuffle \/ SumWeights \/ Return \/ PassCheck
  \/ StartWork \/ EndWork \/ PanicWork \/ Unwind

Next == Step \/ Cancel

\* the caller's goroutine goes on and its work functions end
Spec == Init /\ [][Next]_vars /\ WF_vars(Step)
-----------------------------------------------------------------------------
Returned == pc \in {"returned", "panicked"}

(* Manifest and random order work on an item at most once, and on every    *)
(* item when the call returns uncancelled; manifest order is the order of  *)
(* the items (dispatcher.go:22-54).  An item of weight zero is never drawn *)
(* (dispatcher_test.go:171-181).                                           *)
RightItemsRun ==
  IF mode = "weighted" THEN \A n \in DOMAIN runs : weights[runs[n] + 1] > 0
  ELSE /\ \A m, n \in DOMAIN runs : runs[m] = runs[n] => m = n
       /\ pc = "returned" /\ ~ctxDone => {runs[n] : n \in DOMAIN runs} = Items
       /\ mode = "sequential" => \A n \in DOMAIN runs : runs[n] = n - 1

\* the picks begun so far: 0 .. Len(runs) - 1
Begun == 0 .. (Len(runs) - 1)

\* A weighted call without any weight has no picks to make.
Abstract == INSTANCE Dispatch WITH
  picks <- IF mode = "weighted" /\ TotalWeight = 0 THEN {} ELSE Items,
  MaxRunning <- 1,
  started <- Begun,
  finished <- IF pc = "working" THEN Begun \ {i} ELSE Begun,
  failed <- crashed,
  cancelled <- ctxDone,
  outcome <- IF Returned THEN pc ELSE "running"

(* The three dispatchers keep the promise of the Dispatcher interface, one *)
(* pick at a time and one start at most after a cancellation.              *)
ImplementsDispatch == Abstract!AbsSpec

(* They always come back, cancelled or not.                                *)
AlwaysReturns == <>Returned
=============================================================================
