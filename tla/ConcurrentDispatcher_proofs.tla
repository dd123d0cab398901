--------------------- MODULE ConcurrentDispatcher_proofs ---------------------
(***************************************************************************)
(* Proofs about ConcurrentDispatcher for every Count and Concurrency.      *)
(*                                                                         *)
(* SlotAccounting is not inductive alone.  IInv adds what the loop knows   *)
(* about the items it has launched (LoopInv), that the WaitGroup counts    *)
(* the goroutines not yet done (WgInv), and that no more goroutines than   *)
(* Slots hold one, which a lost slot would otherwise hide (HoldersBound).  *)
(* The refinement of Dispatch rests on IInv and on RInv, further below.    *)
(***************************************************************************)
EXTENDS ConcurrentDispatcher, FiniteSetTheorems, TLAPS

\* goroutines the WaitGroup still counts
Alive == At({"spawned", "ready", "working", "recovering", "releasing", "counting"})

LoopInv ==
  /\ main \in {"select", "recheck"} => next < Count
  /\ main = "drain" => ctxDone
  /\ \A k \in Items : work[k] = "unborn" <=> k >= next

WgInv ==
  /\ wg = Cardinality(Alive)
  /\ Returned => wg = 0

HoldersBound == Cardinality(Holders) <= Slots

IInv == TypeOK /\ LoopInv /\ WgInv /\ HoldersBound /\ SlotAccounting
-----------------------------------------------------------------------------
(* Slots is a positive number, whatever concurrency was asked for.         *)
LEMMA SlotsPositive == Slots \in Nat /\ Slots >= 1
  BY ConcurrencyAssumption DEF Slots

(* There are Count items.                                                  *)
LEMMA ItemsFinite == IsFiniteSet(Items) /\ Cardinality(Items) = Count
<1>1. IsFiniteSet(0 .. (Count - 1))
  BY CountAssumption, FS_Interval
<1>2. Cardinality(0 .. (Count - 1)) = IF 0 > Count - 1 THEN 0 ELSE (Count - 1) - 0 + 1
  BY CountAssumption, FS_Interval
<1>3. QED
  BY <1>1, <1>2, CountAssumption DEF Items

(* One goroutine more in a set of states.                                  *)
LEMMA OneMore ==
  ASSUME NEW A \in SUBSET Items, NEW k \in Items \ A
  PROVE  Cardinality(A \cup {k}) = Cardinality(A) + 1
  BY ItemsFinite, FS_Subset, FS_AddElement

(* The same for one that leaves the set.                                  *)
LEMMA OneLess ==
  ASSUME NEW A \in SUBSET Items, NEW k \in A
  PROVE  Cardinality(A \ {k}) = Cardinality(A) - 1
  BY ItemsFinite, FS_Subset, FS_RemoveElement

(* A move between two states of S, or of its complement, changes nothing.  *)
LEMMA MoveWithin ==
  ASSUME NEW w \in [Items -> WorkStates], NEW k \in Items, NEW t, NEW S,
         w[k] \in S <=> t \in S
  PROVE  {j \in Items : [w EXCEPT ![k] = t][j] \in S} = {j \in Items : w[j] \in S}
  OBVIOUS

(* The items in given states are between none and Count.                   *)
LEMMA AtBounded ==
  ASSUME NEW w \in [Items -> WorkStates], NEW S
  PROVE  Cardinality({j \in Items : w[j] \in S}) \in 0 .. Count
<1>1. {j \in Items : w[j] \in S} \subseteq Items
  OBVIOUS
<1>2. /\ IsFiniteSet({j \in Items : w[j] \in S})
      /\ Cardinality({j \in Items : w[j] \in S}) <= Count
  BY <1>1, ItemsFinite, FS_Subset
<1>3. QED
  BY <1>2, FS_CardinalityType, CountAssumption

(* Nothing is launched at first.                                           *)
LEMMA InitIInv == Init => IInv
<1> SUFFICES ASSUME Init PROVE IInv
  OBVIOUS
<1>1. TypeOK
  <2>1. panics \in Seq(Items)
    BY DEF Init
  <2>2. work \in [Items -> WorkStates]
    BY DEF Init, WorkStates
  <2>3. next \in 0 .. Count /\ sem \in 0 .. Slots /\ wg \in 0 .. Count
    BY CountAssumption, SlotsPositive DEF Init
  <2>4. ctxDone \in BOOLEAN /\ main \in MainStates /\ begun \subseteq Items /\ late \subseteq begun
    BY DEF Init, MainStates
  <2>5. QED
    BY <2>1, <2>2, <2>3, <2>4 DEF TypeOK
<1>2. Alive = {} /\ Holders = {}
  BY DEF Init, Alive, Holders, At
<1>3. Cardinality(Alive) = 0 /\ Cardinality(Holders) = 0
  BY <1>2, FS_EmptySet
<1>4. LoopInv
  BY CountAssumption DEF Init, LoopInv, Items
<1>5. WgInv /\ HoldersBound /\ SlotAccounting
  BY <1>3, SlotsPositive DEF Init, WgInv, Returned, HoldersBound, SlotAccounting
<1>6. QED
  BY <1>1, <1>4, <1>5 DEF IInv

(* Steps of the dispatching goroutine that launch nothing leave the        *)
(* goroutines, and so the counts of them, alone.                           *)
LEMMA MainKeepsIInv ==
  ASSUME IInv, CheckLoop \/ Acquire \/ NoticeDone \/ GiveUp \/ Drain \/ Finish
  PROVE  IInv'
<1> USE CountAssumption, SlotsPositive DEF MainGoes
<1>1. UNCHANGED <<ctxDone, next, wg, work, panics, begun, late>>
  BY DEF CheckLoop, Acquire, NoticeDone, GiveUp, Drain, Finish
<1>2. Alive' = Alive /\ Holders' = Holders
  BY <1>1 DEF Alive, Holders, At
<1>3. Cardinality(Holders) \in 0 .. Count
  BY AtBounded DEF IInv, TypeOK, Holders, At
<1>4. TypeOK'
  BY <1>1 DEF IInv, TypeOK, MainStates, CheckLoop, Acquire, NoticeDone, GiveUp, Drain, Finish
<1>5. LoopInv'
  BY <1>1 DEF IInv, TypeOK, LoopInv, CheckLoop, Acquire, NoticeDone, GiveUp, Drain, Finish
<1>6. WgInv'
  BY <1>1, <1>2 DEF IInv, WgInv, Returned, CheckLoop, Acquire, NoticeDone, GiveUp, Drain, Finish
<1>7. HoldersBound'
  BY <1>2 DEF IInv, HoldersBound
<1>8. SlotAccounting'
  <2> USE <1>1, <1>2, <1>3 DEF IInv, SlotAccounting, TypeOK
  <2>1. CASE CheckLoop BY <2>1 DEF CheckLoop
  <2>2. CASE Acquire BY <2>2 DEF Acquire
  <2>3. CASE NoticeDone BY <2>3 DEF NoticeDone
  <2>4. CASE GiveUp BY <2>4 DEF GiveUp
  <2>5. CASE Drain BY <2>5 DEF Drain, LoopInv
  <2>6. CASE Finish BY <2>6 DEF Finish
  <2>7. QED BY <2>1, <2>2, <2>3, <2>4, <2>5, <2>6
<1>9. QED
  BY <1>4, <1>5, <1>6, <1>7, <1>8 DEF IInv

(* Launching the next item: it takes over the slot acquired for it.        *)
LEMMA SpawnKeepsIInv == ASSUME IInv, Spawn PROVE IInv'
<1> USE CountAssumption, SlotsPositive DEF Spawn, MainGoes
<1>1. next \in Items /\ work[next] = "unborn"
  BY DEF IInv, TypeOK, LoopInv, Items
<1>2. work \in [Items -> WorkStates] /\ "spawned" \in WorkStates
  BY DEF IInv, TypeOK, WorkStates
<1>3. Cardinality(Alive') = Cardinality(Alive) + 1
  <2>1. Alive' = Alive \cup {next} /\ next \notin Alive /\ Alive \subseteq Items
    BY <1>1, <1>2 DEF Alive, At
  <2>2. QED
    BY <1>1, <1>2, <2>1, OneMore
<1>4. Cardinality(Holders') = Cardinality(Holders) + 1
  <2>1. Holders' = Holders \cup {next} /\ next \notin Holders /\ Holders \subseteq Items
    BY <1>1, <1>2 DEF Holders, At
  <2>2. QED
    BY <1>1, <1>2, <2>1, OneMore
<1>5. Cardinality(Holders) \in 0 .. Count
  BY <1>2, AtBounded DEF Holders, At
<1>6. work' \in [Items -> WorkStates]
  BY <1>1, <1>2
<1>7. Cardinality(Alive') \in 0 .. Count
  BY <1>6, AtBounded DEF Alive, At
<1>8. TypeOK'
  BY <1>3, <1>6, <1>7 DEF IInv, TypeOK, LoopInv, WgInv, MainStates
<1>9. LoopInv'
  BY <1>1, <1>2 DEF IInv, TypeOK, LoopInv, Items
<1>10. WgInv'
  BY <1>3 DEF IInv, WgInv, Returned
<1>11. HoldersBound' /\ SlotAccounting'
  BY <1>4, <1>5 DEF IInv, TypeOK, HoldersBound, SlotAccounting
<1>12. QED
  BY <1>8, <1>9, <1>10, <1>11 DEF IInv

(* Steps of a goroutine that neither give its slot back nor end it.        *)
LEMMA WorkKeepsIInv ==
  ASSUME IInv, NEW k \in Items,
         CheckCtx(k) \/ StartWork(k) \/ EndWork(k) \/ PanicWork(k) \/ RecoverPanic(k)
  PROVE  IInv'
<1> DEFINE H == {"spawned", "ready", "working", "recovering", "releasing"}
<1>1. PICK t \in H : work[k] \in H /\ work' = [work EXCEPT ![k] = t]
  BY DEF CheckCtx, StartWork, EndWork, PanicWork, RecoverPanic, WorkGoes
<1>2. work \in [Items -> WorkStates] /\ t \in WorkStates
  BY <1>1 DEF IInv, TypeOK, WorkStates
<1>3. UNCHANGED <<ctxDone, next, main, sem, wg>>
  BY DEF CheckCtx, StartWork, EndWork, PanicWork, RecoverPanic
<1>4. Alive' = Alive /\ Holders' = Holders
  BY <1>1, <1>2, MoveWithin DEF Alive, Holders, At
<1>5. TypeOK'
  <2>1. panics' \in Seq(Items)
    BY DEF IInv, TypeOK, CheckCtx, StartWork, EndWork, PanicWork, RecoverPanic
  <2>2. begun' \subseteq Items /\ late' \subseteq begun'
    BY DEF IInv, TypeOK, CheckCtx, StartWork, EndWork, PanicWork, RecoverPanic
  <2>3. QED
    BY <1>1, <1>2, <1>3, <2>1, <2>2 DEF IInv, TypeOK
<1>6. LoopInv'
  BY <1>1, <1>2, <1>3 DEF IInv, LoopInv
<1>7. WgInv' /\ HoldersBound' /\ SlotAccounting'
  BY <1>3, <1>4 DEF IInv, WgInv, Returned, HoldersBound, SlotAccounting
<1>8. QED
  BY <1>5, <1>6, <1>7 DEF IInv

(* Giving a slot back.                                                     *)
LEMMA ReleaseKeepsIInv == ASSUME IInv, NEW k \in Items, Release(k) PROVE IInv'
<1> USE SlotsPositive DEF Release, WorkGoes
<1>1. work \in [Items -> WorkStates] /\ "counting" \in WorkStates
  BY DEF IInv, TypeOK, WorkStates
<1>2. Alive' = Alive
  BY <1>1, MoveWithin DEF Alive, At
<1>3. Cardinality(Holders') = Cardinality(Holders) - 1
  <2>1. Holders' = Holders \ {k} /\ k \in Holders /\ Holders \subseteq Items
    BY <1>1 DEF Holders, At
  <2>2. QED
    BY <1>1, <2>1, OneLess
<1>4. Cardinality(Holders) \in 0 .. Count
  BY <1>1, AtBounded DEF Holders, At
<1>5. TypeOK'
  BY <1>1 DEF IInv, TypeOK
<1>6. LoopInv' /\ WgInv'
  BY <1>1, <1>2 DEF IInv, LoopInv, WgInv, Returned
<1>7. HoldersBound' /\ SlotAccounting'
  BY <1>3, <1>4, CountAssumption DEF IInv, TypeOK, HoldersBound, SlotAccounting
<1>8. QED
  BY <1>5, <1>6, <1>7 DEF IInv

(* The last deferred call of a goroutine.                                  *)
LEMMA WgDoneKeepsIInv == ASSUME IInv, NEW k \in Items, WgDone(k) PROVE IInv'
<1> USE CountAssumption DEF WgDone, WorkGoes
<1>1. work \in [Items -> WorkStates] /\ "gone" \in WorkStates
  BY DEF IInv, TypeOK, WorkStates
<1>2. Holders' = Holders
  BY <1>1, MoveWithin DEF Holders, At
<1>3. Cardinality(Alive') = Cardinality(Alive) - 1
  <2>1. Alive' = Alive \ {k} /\ k \in Alive /\ Alive \subseteq Items
    BY <1>1 DEF Alive, At
  <2>2. QED
    BY <1>1, <2>1, OneLess
<1>4. work' \in [Items -> WorkStates]
  BY <1>1
<1>5. Cardinality(Alive') \in 0 .. Count
  BY <1>4, AtBounded DEF Alive, At
<1>6. wg' = Cardinality(Alive') /\ ~Returned'
  BY <1>3, <1>5 DEF IInv, WgInv, TypeOK, Returned
<1>7. TypeOK'
  BY <1>4, <1>5, <1>6 DEF IInv, TypeOK
<1>8. LoopInv' /\ WgInv'
  BY <1>1, <1>6 DEF IInv, LoopInv, WgInv
<1>9. HoldersBound' /\ SlotAccounting'
  BY <1>2 DEF IInv, HoldersBound, SlotAccounting
<1>10. QED
  BY <1>7, <1>8, <1>9 DEF IInv

(* Every step keeps the inductive invariant.                               *)
LEMMA NextIInv == IInv /\ [Next]_vars => IInv'
<1> SUFFICES ASSUME IInv, [Next]_vars PROVE IInv'
  OBVIOUS
<1>1. CASE Main
  BY <1>1, MainKeepsIInv, SpawnKeepsIInv DEF Main
<1>2. ASSUME NEW k \in Items, Goroutine(k) PROVE IInv'
  BY <1>2, WorkKeepsIInv, ReleaseKeepsIInv, WgDoneKeepsIInv DEF Goroutine
<1>3. CASE Cancel
  <2>1. UNCHANGED <<next, main, sem, wg, work, panics, begun, late>> /\ ctxDone' = TRUE
    BY <1>3 DEF Cancel
  <2>2. Alive' = Alive /\ Holders' = Holders
    BY <2>1 DEF Alive, Holders, At
  <2>3. QED
    BY <2>1, <2>2 DEF IInv, TypeOK, LoopInv, WgInv, Returned, HoldersBound, SlotAccounting
<1>4. CASE UNCHANGED vars
  <2>1. Alive' = Alive /\ Holders' = Holders
    BY <1>4 DEF vars, Alive, Holders, At
  <2>2. QED
    BY <1>4, <2>1 DEF vars, IInv, TypeOK, LoopInv, WgInv, Returned, HoldersBound, SlotAccounting
<1>5. QED
  BY <1>1, <1>2, <1>3, <1>4 DEF Next, Terminating
-----------------------------------------------------------------------------
(* The inductive invariant holds throughout every call of Dispatch.        *)
THEOREM Invariance == Spec => []IInv
  BY InitIInv, NextIInv, PTL DEF Spec

(* Where the variables range, for every count and concurrency.             *)
THEOREM TypeCorrect == Spec => []TypeOK
<1>1. IInv => TypeOK
  BY DEF IInv
<1>2. QED
  BY <1>1, Invariance, PTL

(* Whatever the interleaving of Dispatch, its goroutines and the           *)
(* cancellation, sem holds one value per slot in use, except for the one   *)
(* value the drain may take from a running goroutine.                      *)
THEOREM SlotsAccounted == Spec => []SlotAccounting
<1>1. IInv => SlotAccounting
  BY DEF IInv
<1>2. QED
  BY <1>1, Invariance, PTL

(* The concurrency bound holds even after the drain has taken a slot that  *)
(* was in use.                                                             *)
THEOREM ConcurrencyBounded == Spec => []BoundedConcurrency
<1>1. ASSUME IInv PROVE BoundedConcurrency
  <2>1. At({"working"}) \subseteq Holders
    BY DEF At, Holders
  <2>2. IsFiniteSet(Holders)
    BY ItemsFinite, FS_Subset, Holders \subseteq Items DEF Holders, At
  <2>3. Cardinality(At({"working"})) <= Cardinality(Holders)
    BY <2>1, <2>2, FS_Subset
  <2>4. Cardinality(At({"working"})) \in Nat /\ Cardinality(Holders) \in Nat
    BY <2>1, <2>2, FS_Subset, FS_CardinalityType
  <2>5. QED
    BY <1>1, <2>3, <2>4, SlotsPositive DEF IInv, HoldersBound, BoundedConcurrency
<1>2. QED
  BY <1>1, Invariance, PTL

(* When Dispatch is over, by return or by panic, no goroutine it launched  *)
(* is left, for every count and concurrency.                               *)
THEOREM NothingOutlives == Spec => []NothingOutlivesDispatch
<1>1. ASSUME IInv PROVE NothingOutlivesDispatch
  <2> SUFFICES ASSUME Returned PROVE Alive = {}
    BY <1>1 DEF IInv, TypeOK, WorkStates, Alive, At, NothingOutlivesDispatch
  <2>1. Alive \subseteq Items
    BY DEF Alive, At
  <2>2. IsFiniteSet(Alive)
    BY <2>1, ItemsFinite, FS_Subset
  <2>3. Cardinality(Alive) = 0
    BY <1>1 DEF IInv, WgInv
  <2>4. QED
    BY <2>2, <2>3, FS_EmptySet
<1>2. QED
  BY <1>1, Invariance, PTL
-----------------------------------------------------------------------------
(* The refinement of Dispatch.  What the histories say of the goroutines   *)
(* is not needed for the invariants above: RInv adds it.                   *)

\* who has begun follows from where the goroutine is; without a cancellation a
\* goroutine that is on its way out has worked
BegunInv ==
  \A k \in Items :
    /\ work[k] \in {"unborn", "spawned", "ready"} => k \notin begun
    /\ work[k] \in {"working", "recovering"} => k \in begun
    /\ work[k] \in {"releasing", "counting", "gone"} => k \in begun \/ ctxDone

\* after the cancellation nobody gets ready any more: who is late was ready then
LateInv ==
  /\ ~ctxDone => late = {}
  /\ Cardinality(late \cup At({"ready"})) <= Slots

\* the loop is left early only after a cancellation
LoopOver == main \in {"wait", "returned", "panicked"} => next = Count \/ ctxDone

RInv == IInv /\ BegunInv /\ LateInv /\ LoopOver
-----------------------------------------------------------------------------
(* The items in a state of S, with A or without it, have a cardinality     *)
(* that does not exceed that of a larger set of items.                     *)
LEMMA SmallerSet ==
  ASSUME NEW B \in SUBSET Items, NEW A \in SUBSET B
  PROVE  Cardinality(A) \in Nat /\ Cardinality(B) \in Nat /\ Cardinality(A) <= Cardinality(B)
  BY ItemsFinite, FS_Subset, FS_CardinalityType

(* Nothing has begun at first.                                             *)
LEMMA InitRInv == Init => RInv
<1> SUFFICES ASSUME Init PROVE RInv
  OBVIOUS
<1>1. late \cup At({"ready"}) = {}
  BY DEF Init, At
<1>2. LateInv
  BY <1>1, FS_EmptySet, SlotsPositive DEF Init, LateInv
<1>3. BegunInv /\ LoopOver
  BY DEF Init, BegunInv, LoopOver
<1>4. QED
  BY <1>2, <1>3, InitIInv DEF RInv

(* Steps of the dispatching goroutine leave the histories alone; the item  *)
(* it launches had not begun.                                              *)
LEMMA MainKeepsRInv == ASSUME RInv, Main PROVE BegunInv' /\ LateInv' /\ LoopOver'
<1> USE DEF MainGoes
<1>1. CASE Spawn
  <2>1. next \in Items /\ work[next] = "unborn" /\ work \in [Items -> WorkStates]
    BY <1>1, CountAssumption DEF Spawn, RInv, IInv, TypeOK, LoopInv, Items
  <2>2. At({"ready"})' = At({"ready"})
    BY <1>1, <2>1, MoveWithin DEF Spawn, At
  <2>3. LateInv'
    BY <1>1, <2>2 DEF Spawn, RInv, LateInv
  <2>4. BegunInv' /\ LoopOver'
    BY <1>1, <2>1 DEF Spawn, RInv, BegunInv, LoopOver
  <2>5. QED
    BY <2>3, <2>4
<1>2. CASE CheckLoop \/ Acquire \/ NoticeDone \/ GiveUp \/ Drain \/ Finish
  <2>1. UNCHANGED <<ctxDone, next, work, begun, late>>
    BY <1>2 DEF CheckLoop, Acquire, NoticeDone, GiveUp, Drain, Finish
  <2>2. At({"ready"})' = At({"ready"})
    BY <2>1 DEF At
  <2>3. LateInv' /\ BegunInv'
    BY <2>1, <2>2 DEF RInv, LateInv, BegunInv
  <2>4. LoopOver'
    BY <1>2, <2>1 DEF RInv, IInv, LoopInv, LoopOver, CheckLoop, Acquire, NoticeDone, GiveUp, Drain, Finish
  <2>5. QED
    BY <2>3, <2>4
<1>3. QED
  BY <1>1, <1>2 DEF Main

(* The goroutine of one item.                                              *)
LEMMA WorkKeepsRInv ==
  ASSUME RInv, NEW k \in Items, Goroutine(k)
  PROVE  BegunInv' /\ LateInv' /\ LoopOver'
<1> DEFINE Exposed == late \cup At({"ready"})
<1> USE DEF WorkGoes
<1>1. work \in [Items -> WorkStates] /\ begun \subseteq Items /\ late \subseteq begun
  BY DEF RInv, IInv, TypeOK
<1>2. UNCHANGED <<ctxDone, next, main>>
  BY DEF Goroutine, CheckCtx, StartWork, EndWork, PanicWork, RecoverPanic, Release, WgDone
<1>3. LoopOver'
  BY <1>2 DEF RInv, LoopOver
<1>4. CASE CheckCtx(k)
  <2>1. CASE ctxDone
    <3>1. At({"ready"})' = At({"ready"})
      BY <1>1, <1>4, <2>1, MoveWithin DEF CheckCtx, At
    <3>2. LateInv'
      BY <1>4, <3>1 DEF CheckCtx, RInv, LateInv
    <3>3. BegunInv'
      BY <1>1, <1>4, <2>1 DEF CheckCtx, RInv, BegunInv
    <3>4. QED
      BY <1>3, <3>2, <3>3
  <2>2. CASE ~ctxDone
    <3>1. late' = {}
      BY <1>4, <2>2 DEF CheckCtx, RInv, LateInv
    <3>2. Exposed' \subseteq Holders
      BY <1>1, <1>4, <2>2, <3>1 DEF CheckCtx, At, Holders
    <3>3. Holders \subseteq Items
      BY DEF Holders, At
    <3>4. Cardinality(Exposed') <= Slots
      BY <3>2, <3>3, SmallerSet, SlotsPositive DEF RInv, IInv, HoldersBound
    <3>5. BegunInv'
      BY <1>1, <1>4, <2>2 DEF CheckCtx, RInv, BegunInv
    <3>6. QED
      BY <1>3, <3>1, <3>4, <3>5 DEF LateInv
  <2>3. QED
    BY <2>1, <2>2
<1>5. CASE StartWork(k)
  <2>1. Exposed' \subseteq Exposed
    BY <1>1, <1>5 DEF StartWork, At
  <2>2. Exposed \subseteq Items
    BY <1>1 DEF At
  <2>3. Cardinality(Exposed') <= Slots
    BY <2>1, <2>2, SmallerSet, SlotsPositive DEF RInv, LateInv
  <2>4. LateInv'
    BY <1>5, <2>3 DEF StartWork, RInv, LateInv
  <2>5. BegunInv'
    BY <1>1, <1>5 DEF StartWork, RInv, BegunInv
  <2>6. QED
    BY <1>3, <2>4, <2>5
<1>6. CASE EndWork(k) \/ PanicWork(k) \/ RecoverPanic(k) \/ Release(k) \/ WgDone(k)
  <2> DEFINE Out == {"working", "recovering", "releasing", "counting", "gone"}
  <2>1. UNCHANGED <<begun, late>>
    BY <1>6 DEF EndWork, PanicWork, RecoverPanic, Release, WgDone
  <2>2. PICK t \in Out \ {"working"} : work[k] \in Out /\ work' = [work EXCEPT ![k] = t]
    BY <1>6 DEF EndWork, PanicWork, RecoverPanic, Release, WgDone
  <2>3. At({"ready"})' = At({"ready"})
    BY <1>1, <2>2 DEF At
  <2>4. LateInv'
    BY <1>2, <2>1, <2>3 DEF RInv, LateInv
  <2>5. BegunInv'
    <3>1. k \in begun \/ ctxDone
      BY <2>2 DEF RInv, BegunInv
    <3>2. t = "recovering" => k \in begun
      BY <1>1, <1>6, <2>2 DEF RInv, BegunInv, EndWork, PanicWork, RecoverPanic, Release, WgDone
    <3>3. QED
      BY <1>1, <1>2, <2>1, <2>2, <3>1, <3>2 DEF RInv, BegunInv
  <2>6. QED
    BY <1>3, <2>4, <2>5
<1>7. QED
  BY <1>4, <1>5, <1>6 DEF Goroutine

(* Every step keeps the strengthened invariant.                            *)
LEMMA NextRInv == RInv /\ [Next]_vars => RInv'
<1> SUFFICES ASSUME RInv, [Next]_vars PROVE BegunInv' /\ LateInv' /\ LoopOver'
  BY NextIInv DEF RInv
<1>1. CASE Main
  BY <1>1, MainKeepsRInv
<1>2. ASSUME NEW k \in Items, Goroutine(k) PROVE BegunInv' /\ LateInv' /\ LoopOver'
  BY <1>2, WorkKeepsRInv
<1>3. CASE Cancel
  <2>1. UNCHANGED <<next, main, work, begun, late>> /\ ctxDone' = TRUE
    BY <1>3 DEF Cancel
  <2>2. At({"ready"})' = At({"ready"})
    BY <2>1 DEF At
  <2>3. QED
    BY <2>1, <2>2 DEF RInv, BegunInv, LateInv, LoopOver
<1>4. CASE UNCHANGED vars
  <2>1. At({"ready"})' = At({"ready"})
    BY <1>4 DEF vars, At
  <2>2. QED
    BY <1>4, <2>1 DEF vars, RInv, BegunInv, LateInv, LoopOver
<1>5. QED
  BY <1>1, <1>2, <1>3, <1>4 DEF Next, Terminating

(* Nobody works on an item when control is given back.                     *)
LEMMA NobodyLeft == ASSUME IInv, wg = 0 PROVE Alive = {}
<1>1. Alive \subseteq Items
  BY DEF Alive, At
<1>2. IsFiniteSet(Alive) /\ Cardinality(Alive) = 0
  BY <1>1, ItemsFinite, FS_Subset DEF IInv, WgInv
<1>3. QED
  BY <1>2, FS_EmptySet
-----------------------------------------------------------------------------
\* the refinement mapping, by name
AbsFinished == begun \ At({"working"})
AbsFailed == {panics[n] : n \in DOMAIN panics} \cup At({"recovering"})
AbsOutcome == IF Returned THEN main ELSE "running"

\* a step that the caller of Dispatch does not see
Unseen ==
  /\ begun' = begun /\ AbsFinished' = AbsFinished /\ AbsFailed' = AbsFailed /\ late' = late
  /\ ctxDone' = ctxDone /\ AbsOutcome' = AbsOutcome

(* Steps of the dispatching goroutine but the last are not seen.           *)
LEMMA MainUnseen ==
  ASSUME RInv, CheckLoop \/ Acquire \/ NoticeDone \/ Spawn \/ GiveUp \/ Drain
  PROVE  Unseen
<1> USE DEF MainGoes
<1>1. UNCHANGED <<ctxDone, panics, begun, late>> /\ ~Returned /\ ~Returned'
  BY DEF CheckLoop, Acquire, NoticeDone, Spawn, GiveUp, Drain, Returned
<1>2. work' = work \/ work' = [work EXCEPT ![next] = "spawned"]
  BY DEF CheckLoop, Acquire, NoticeDone, Spawn, GiveUp, Drain
<1>3. work \in [Items -> WorkStates] /\ (Spawn => work[next] = "unborn")
  BY CountAssumption DEF RInv, IInv, TypeOK, LoopInv, Items, Spawn
<1>4. work' = work \/ (work[next] = "unborn" /\ work' = [work EXCEPT ![next] = "spawned"])
  BY <1>2, <1>3 DEF CheckLoop, Acquire, NoticeDone, Spawn, GiveUp, Drain
<1>5. At({"working"})' = At({"working"}) /\ At({"recovering"})' = At({"recovering"})
  BY <1>3, <1>4 DEF At
<1>6. QED
  BY <1>1, <1>5 DEF Unseen, AbsFinished, AbsFailed, AbsOutcome

(* Nor are the steps of a goroutine outside its work function.             *)
LEMMA WorkUnseen ==
  ASSUME RInv, NEW k \in Items, CheckCtx(k) \/ RecoverPanic(k) \/ Release(k) \/ WgDone(k)
  PROVE  Unseen
<1> USE DEF WorkGoes
<1>1. UNCHANGED <<ctxDone, main, begun, late>> /\ AbsOutcome' = AbsOutcome
  BY DEF CheckCtx, RecoverPanic, Release, WgDone, AbsOutcome, Returned
<1>2. work \in [Items -> WorkStates] /\ panics \in Seq(Items)
  BY DEF RInv, IInv, TypeOK
<1>3. At({"working"})' = At({"working"})
  BY <1>2 DEF CheckCtx, RecoverPanic, Release, WgDone, At
<1>4. AbsFailed' = AbsFailed
  <2>1. CASE RecoverPanic(k)
    <3>1. At({"recovering"})' = At({"recovering"}) \ {k} /\ k \in At({"recovering"})
      BY <1>2, <2>1 DEF RecoverPanic, At
    <3>2. {panics'[n] : n \in DOMAIN panics'} = {panics[n] : n \in DOMAIN panics} \cup {k}
      <4>1. panics' = Append(panics, k)
        BY <2>1 DEF RecoverPanic
      <4>2. /\ DOMAIN panics' = DOMAIN panics \cup {Len(panics) + 1}
            /\ \A n \in DOMAIN panics : panics'[n] = panics[n]
            /\ panics'[Len(panics) + 1] = k
        BY <1>2, <4>1
      <4>3. QED
        BY <4>2
    <3>3. QED
      BY <3>1, <3>2 DEF AbsFailed
  <2>2. CASE CheckCtx(k) \/ Release(k) \/ WgDone(k)
    <3>1. panics' = panics
      BY <2>2 DEF CheckCtx, Release, WgDone
    <3>2. At({"recovering"})' = At({"recovering"})
      BY <1>2, <2>2 DEF CheckCtx, Release, WgDone, At
    <3>3. QED
      BY <3>1, <3>2 DEF AbsFailed
  <2>3. QED
    BY <2>1, <2>2
<1>5. QED
  BY <1>1, <1>3, <1>4 DEF Unseen, AbsFinished

(* Entering the work function is a start that the interface allows: of an  *)
(* item not begun before, with a slot to spare, and, after a cancellation, *)
(* one of the few that were past their check.                              *)
LEMMA StartIsStart ==
  ASSUME RInv, NEW k \in Items, StartWork(k)
  PROVE  Abstract!AbsStart(k)
<1> USE DEF StartWork, WorkGoes
<1>1. work \in [Items -> WorkStates] /\ begun \subseteq Items /\ late \subseteq begun
  BY DEF RInv, IInv, TypeOK
<1>2. k \notin begun /\ At({"working"}) \subseteq begun
  BY DEF RInv, BegunInv, At
<1>3. ~Returned /\ UNCHANGED <<ctxDone, main, panics>>
  <2>1. k \in Alive
    BY DEF Alive, At
  <2>2. QED
    BY <2>1, NobodyLeft DEF RInv, IInv, WgInv, Returned
<1>4. Cardinality(begun \ AbsFinished) < Slots
  <2>1. begun \ AbsFinished = At({"working"}) /\ k \notin At({"working"})
    BY <1>2 DEF AbsFinished, At
  <2>2. At({"working"}) \cup {k} \subseteq Holders /\ Holders \subseteq Items
    BY DEF At, Holders
  <2>3. Cardinality(At({"working"}) \cup {k}) = Cardinality(At({"working"})) + 1
    BY <2>1, <2>2, OneMore
  <2>4. Cardinality(At({"working"}) \cup {k}) <= Slots
    BY <2>2, SmallerSet, SlotsPositive DEF RInv, IInv, HoldersBound
  <2>5. Cardinality(At({"working"})) \in Nat
    BY <2>2, SmallerSet
  <2>6. QED
    BY <2>1, <2>3, <2>4, <2>5, SlotsPositive
<1>5. Cardinality(late) < Slots
  <2>1. k \notin late /\ late \subseteq Items /\ late \cup {k} \subseteq late \cup At({"ready"})
    BY <1>1, <1>2 DEF At
  <2>2. Cardinality(late \cup {k}) = Cardinality(late) + 1 /\ Cardinality(late) \in Nat
    BY <2>1, OneMore, SmallerSet
  <2>3. Cardinality(late \cup {k}) <= Slots
    BY <1>1, <2>1, SmallerSet, SlotsPositive DEF RInv, LateInv, At
  <2>4. QED
    BY <2>2, <2>3, SlotsPositive
<1>6. At({"working"})' = At({"working"}) \cup {k} /\ At({"recovering"})' = At({"recovering"})
  BY <1>1 DEF At
<1>7. AbsFinished' = AbsFinished /\ AbsFailed' = AbsFailed /\ AbsOutcome' = AbsOutcome
  BY <1>2, <1>3, <1>6 DEF AbsFinished, AbsFailed, AbsOutcome, Returned
<1>8. /\ Abstract!Cardinality(begun \ AbsFinished) < Slots
      /\ Abstract!Cardinality(late) < Slots
  BY <1>4, <1>5 DEF Abstract!Cardinality, Cardinality
<1>9. QED
  BY <1>2, <1>3, <1>7, <1>8 DEF Abstract!AbsStart, AbsFinished, AbsFailed, AbsOutcome

(* Leaving it, by a return or by a panic, is a finish.                     *)
LEMMA EndIsFinish ==
  ASSUME RInv, NEW k \in Items, EndWork(k) \/ PanicWork(k)
  PROVE  Abstract!AbsFinish(k)
<1> USE DEF EndWork, PanicWork, WorkGoes
<1>1. work \in [Items -> WorkStates] /\ k \in At({"working"}) /\ k \in begun
  BY DEF RInv, IInv, TypeOK, BegunInv, At
<1>2. UNCHANGED <<ctxDone, main, panics, begun, late>>
  OBVIOUS
<1>3. At({"working"})' = At({"working"}) \ {k}
  BY <1>1 DEF At
<1>4. k \in begun \ AbsFinished /\ AbsFinished' = AbsFinished \cup {k}
  BY <1>1, <1>2, <1>3 DEF AbsFinished
<1>5. AbsFailed' \in {AbsFailed, AbsFailed \cup {k}}
  <2>1. At({"recovering"})' \in {At({"recovering"}), At({"recovering"}) \cup {k}}
    BY <1>1 DEF At
  <2>2. QED
    BY <1>2, <2>1 DEF AbsFailed
<1>6. AbsOutcome' = AbsOutcome
  BY <1>2 DEF AbsOutcome, Returned
<1>7. QED
  BY <1>2, <1>4, <1>5, <1>6 DEF Abstract!AbsFinish, AbsFinished, AbsFailed, AbsOutcome

(* The end of the wait is the return that the interface promises.          *)
LEMMA FinishIsReturn == ASSUME RInv, Finish PROVE Abstract!AbsReturn
<1> USE DEF Finish, MainGoes
<1>1. UNCHANGED <<ctxDone, work, panics, begun, late>> /\ main = "wait"
  OBVIOUS
<1>2. At({"working"}) = {} /\ At({"recovering"}) = {}
  BY NobodyLeft DEF RInv, Alive, At
<1>3. begun = AbsFinished
  BY <1>2 DEF AbsFinished
<1>4. ~ctxDone => begun = Items
  <2> SUFFICES ASSUME ~ctxDone, NEW k \in Items PROVE k \in begun
    BY DEF RInv, IInv, TypeOK
  <2>1. work[k] # "unborn"
    BY <1>1, CountAssumption DEF RInv, LoopOver, IInv, LoopInv, Items
  <2>2. k \notin Alive /\ work[k] \in WorkStates
    BY NobodyLeft DEF RInv, IInv, TypeOK
  <2>3. work[k] = "gone"
    BY <2>1, <2>2 DEF Alive, At, WorkStates
  <2>4. QED
    BY <2>3 DEF RInv, BegunInv
<1>5. panics = <<>> <=> AbsFailed = {}
  <2>1. panics \in Seq(Items)
    BY DEF RInv, IInv, TypeOK
  <2>2. panics = <<>> <=> DOMAIN panics = {}
    BY <2>1
  <2>3. QED
    BY <1>2, <2>2 DEF AbsFailed
<1>6. AbsFinished' = AbsFinished /\ AbsFailed' = AbsFailed
  BY <1>1 DEF AbsFinished, AbsFailed, At
<1>7. AbsOutcome = "running" /\ AbsOutcome' = IF panics = <<>> THEN "returned" ELSE "panicked"
  BY DEF AbsOutcome, Returned
<1>8. QED
  BY <1>1, <1>3, <1>4, <1>5, <1>6, <1>7
  DEF Abstract!AbsReturn, AbsFinished, AbsFailed, AbsOutcome

(* Every step of the goroutines is a step of the interface, or one that    *)
(* its caller does not see.                                                *)
LEMMA StepRefines == RInv /\ [Next]_vars => [Abstract!AbsNext]_(Abstract!absVars)
<1> SUFFICES ASSUME RInv, [Next]_vars PROVE Abstract!AbsNext \/ UNCHANGED Abstract!absVars
  OBVIOUS
<1>1. Unseen => UNCHANGED Abstract!absVars
  BY DEF Unseen, Abstract!absVars, AbsFinished, AbsFailed, AbsOutcome
<1>2. CASE Main
  BY <1>1, <1>2, MainUnseen, FinishIsReturn DEF Main, Abstract!AbsNext
<1>3. ASSUME NEW k \in Items, Goroutine(k)
      PROVE  Abstract!AbsNext \/ UNCHANGED Abstract!absVars
  BY <1>1, <1>3, WorkUnseen, StartIsStart, EndIsFinish DEF Goroutine, Abstract!AbsNext
<1>4. CASE Cancel
  <2>1. Abstract!AbsCancel
    BY <1>4 DEF Cancel, Abstract!AbsCancel, At, Returned
  <2>2. QED
    BY <2>1 DEF Abstract!AbsNext
<1>5. CASE UNCHANGED vars
  <2>1. Unseen
    BY <1>5 DEF vars, Unseen, AbsFinished, AbsFailed, AbsOutcome, At, Returned
  <2>2. QED
    BY <1>1, <2>1
<1>6. QED
  BY <1>2, <1>3, <1>4, <1>5 DEF Next, Terminating

(* A call of ConcurrentDispatcher.Dispatch keeps the promise of the        *)
(* Dispatcher interface for every count, every concurrency and every       *)
(* interleaving with the cancellation.                                     *)
THEOREM Refinement == Spec => ImplementsDispatch
<1>1. Init => Abstract!AbsInit
  BY DEF Init, Abstract!AbsInit, At, Returned
<1>2. QED
  BY <1>1, InitRInv, NextRInv, StepRefines, PTL DEF Spec, ImplementsDispatch, Abstract!AbsSpec
=============================================================================
