------------------------ MODULE ConcurrentDispatcher ------------------------
(***************************************************************************)
(* One call of ConcurrentDispatcher.Dispatch, core/engine/dispatcher.go    *)
(* lines 79-126: the dispatching goroutine, one goroutine per item, the    *)
(* buffered channel sem used as a counting semaphore, the WaitGroup wg,    *)
(* and the caller's context, which may be cancelled at any moment.         *)
(*                                                                         *)
(* sem carries no data, so it is the number of values it holds.  Sending   *)
(* blocks when it holds Slots values, receiving when it holds none.        *)
(***************************************************************************)
EXTENDS Naturals, Integers, Sequences, FiniteSets

CONSTANTS Count,        \* the count argument of Dispatch
          Concurrency,  \* the argument of NewConcurrentDispatcher
          Cancellable   \* may the caller's context be cancelled?

ASSUME CountAssumption == Count \in Nat
ASSUME ConcurrencyAssumption == Concurrency \in Int
ASSUME CancellableAssumption == Cancellable \in BOOLEAN

Items == 0 .. (Count - 1)

\* NewConcurrentDispatcher: a concurrency below one becomes one
Slots == IF Concurrency < 1 THEN 1 ELSE Concurrency

VARIABLES ctxDone,  \* ctx.Err() # nil
          next,     \* the loop variable i
          main,     \* where the dispatching goroutine is
          sem,      \* number of values buffered in sem
          wg,       \* the WaitGroup's counter
          work,     \* where each item's goroutine is
          panics,   \* the recovered panics, in the order they were appended
          begun,    \* history: items whose work function was entered
          late      \* history: those of them entered after the cancellation

vars == <<ctxDone, next, main, sem, wg, work, panics, begun, late>>

MainStates == {"check", "select", "recheck", "drain", "wait", "returned", "panicked"}
WorkStates == {"unborn", "spawned", "ready", "working", "recovering",
               "releasing", "counting", "gone"}

At(states) == {k \in Items : work[k] \in states}

\* goroutines that were started with a slot and have not given it back
Holders == At({"spawned", "ready", "working", "recovering", "releasing"})

Init ==
  /\ ctxDone = FALSE
  /\ next = 0
  /\ main = "check"
  /\ sem = 0
  /\ wg = 0
  /\ work = [k \in Items |-> "unborn"]
  /\ panics = <<>>
  /\ begun = {}
  /\ late = {}
-----------------------------------------------------------------------------
(* The dispatching goroutine.                                              *)

MainGoes(from, to) == main = from /\ main' = to

\* i < count and, at the top of the body, ctx.Err() == nil
CheckLoop ==
  /\ \/ next < Count /\ ~ctxDone /\ MainGoes("check", "select")
     \/ (next = Count \/ ctxDone) /\ MainGoes("check", "wait")
  /\ UNCHANGED <<ctxDone, next, sem, wg, work, panics, begun, late>>

\* case sem <- struct{}{}
Acquire ==
  /\ MainGoes("select", "recheck")
  /\ sem < Slots
  /\ sem' = sem + 1
  /\ UNCHANGED <<ctxDone, next, wg, work, panics, begun, late>>

\* case <-ctx.Done(): the break leaves the select only; when both cases are
\* ready, Go picks either
NoticeDone ==
  /\ MainGoes("select", "recheck")
  /\ ctxDone
  /\ UNCHANGED <<ctxDone, next, sem, wg, work, panics, begun, late>>

\* variant: the goroutine is launched without wg.Add(1)
SpawnWithoutAdd ==
  /\ MainGoes("recheck", "check")
  /\ ~ctxDone
  /\ work' = [work EXCEPT ![next] = "spawned"]
  /\ next' = next + 1
  /\ UNCHANGED <<ctxDone, sem, wg, panics, begun, late>>

\* the second ctx.Err() is nil: wg.Add(1) and the go statement
Spawn ==
  /\ MainGoes("recheck", "check")
  /\ ~ctxDone
  /\ wg' = wg + 1
  /\ work' = [work EXCEPT ![next] = "spawned"]
  /\ next' = next + 1
  /\ UNCHANGED <<ctxDone, sem, panics, begun, late>>

\* the second ctx.Err() is not nil
GiveUp ==
  /\ MainGoes("recheck", "drain")
  /\ ctxDone
  /\ UNCHANGED <<ctxDone, next, sem, wg, work, panics, begun, late>>

\* variant: the drain empties the channel
DrainAll ==
  /\ MainGoes("drain", "wait")
  /\ sem' = 0
  /\ UNCHANGED <<ctxDone, next, wg, work, panics, begun, late>>

\* select { case <-sem: default: } and leave the loop; nothing here knows
\* whether the slot received is the one this goroutine acquired
Drain ==
  /\ MainGoes("drain", "wait")
  /\ sem' = IF sem > 0 THEN sem - 1 ELSE sem
  /\ UNCHANGED <<ctxDone, next, wg, work, panics, begun, late>>

\* variant: recovered panics are forgotten
FinishQuietly ==
  /\ wg = 0
  /\ MainGoes("wait", "returned")
  /\ UNCHANGED <<ctxDone, next, sem, wg, work, panics, begun, late>>

\* wg.Wait() returns; a recovered panic is raised again
Finish ==
  /\ wg = 0
  /\ MainGoes("wait", IF panics = <<>> THEN "returned" ELSE "panicked")
  /\ UNCHANGED <<ctxDone, next, sem, wg, work, panics, begun, late>>
-----------------------------------------------------------------------------
(* The goroutine of item k; its deferred calls run last-in first-out.      *)

WorkGoes(k, from, to) == work[k] = from /\ work' = [work EXCEPT ![k] = to]

\* the goroutine's own look at ctx.Err()
CheckCtx(k) ==
  /\ WorkGoes(k, "spawned", IF ctxDone THEN "releasing" ELSE "ready")
  /\ UNCHANGED <<ctxDone, next, main, sem, wg, panics, begun, late>>

\* workFn(ctx, idx) is entered
StartWork(k) ==
  /\ WorkGoes(k, "ready", "working")
  /\ begun' = begun \cup {k}
  /\ late' = IF ctxDone THEN late \cup {k} ELSE late
  /\ UNCHANGED <<ctxDone, next, main, sem, wg, panics>>

\* workFn returns
EndWork(k) ==
  /\ WorkGoes(k, "working", "releasing")
  /\ UNCHANGED <<ctxDone, next, main, sem, wg, panics, begun, late>>

\* workFn panics
PanicWork(k) ==
  /\ WorkGoes(k, "working", "recovering")
  /\ UNCHANGED <<ctxDone, next, main, sem, wg, panics, begun, late>>

\* variant: the slot is given back on the normal path only, not by a defer
RecoverKeepsSlot(k) ==
  /\ WorkGoes(k, "recovering", "counting")
  /\ panics' = Append(panics, k)
  /\ UNCHANGED <<ctxDone, next, main, sem, wg, begun, late>>

\* the innermost defer: recover() and, under panicMu, append
RecoverPanic(k) ==
  /\ WorkGoes(k, "recovering", "releasing")
  /\ panics' = Append(panics, k)
  /\ UNCHANGED <<ctxDone, next, main, sem, wg, begun, late>>

\* defer func() { <-sem }(): blocks while sem is empty
Release(k) ==
  /\ WorkGoes(k, "releasing", "counting")
  /\ sem > 0
  /\ sem' = sem - 1
  /\ UNCHANGED <<ctxDone, next, main, wg, panics, begun, late>>

\* defer wg.Done()
WgDone(k) ==
  /\ WorkGoes(k, "counting", "gone")
  /\ wg' = wg - 1
  /\ UNCHANGED <<ctxDone, next, main, sem, panics, begun, late>>

\* Ctrl-C, or the LoopController's timeout
Cancel ==
  /\ Cancellable
  /\ ~ctxDone
  /\ ctxDone' = TRUE
  /\ UNCHANGED <<next, main, sem, wg, work, panics, begun, late>>
-----------------------------------------------------------------------------
Main == CheckLoop \/ Acquire \/ NoticeDone \/ Spawn \/ GiveUp \/ Drain \/ Finish

Goroutine(k) ==
  \/ CheckCtx(k) \/ StartWork(k) \/ EndWork(k) \/ PanicWork(k)
  \/ RecoverPanic(k) \/ Release(k) \/ WgDone(k)

Returned == main \in {"returned", "panicked"}

\* the call is over and every goroutine is gone
Terminating == Returned /\ UNCHANGED vars

Next == Main \/ (\E k \in Items : Goroutine(k)) \/ Cancel \/ Terminating

Spec == Init /\ [][Next]_vars

\* The Go scheduler runs every goroutine that can run, and a work function
\* ends (every connector call is assumed to come back); nothing makes the
\* user cancel.
Fairness == WF_vars(Main) /\ \A k \in Items : WF_vars(Goroutine(k))

FairSpec == Spec /\ Fairness
-----------------------------------------------------------------------------
(* Where the variables range.                                              *)
TypeOK ==
  /\ ctxDone \in BOOLEAN
  /\ next \in 0 .. Count
  /\ main \in MainStates
  /\ sem \in 0 .. Slots
  /\ wg \in 0 .. Count
  /\ work \in [Items -> WorkStates]
  /\ panics \in Seq(Items)
  /\ begun \subseteq Items
  /\ late \subseteq begun

(* Every slot in sem is accounted for: it is held by a live goroutine, or  *)
(* by the dispatching goroutine between the select and the launch.  The    *)
(* only way to lose one is the drain after a cancellation, and then one    *)
(* goroutine at most is left without the slot its deferred receive needs.  *)
SlotAccounting ==
  LET held == Cardinality(Holders) IN
  /\ main \in {"check", "select"} => sem = held
  /\ main \in {"recheck", "drain"} => sem - held \in {0, 1}
  /\ main = "recheck" /\ ~ctxDone => sem = held + 1
  /\ main \in {"wait", "returned", "panicked"} => held - sem \in {0, 1}
  /\ main \in {"wait", "returned", "panicked"} /\ sem # held => ctxDone

(* "runs items in parallel with bounded concurrency": no more than Slots   *)
(* work functions are ever inside at the same time.                        *)
BoundedConcurrency == Cardinality(At({"working"})) <= Slots

(* When Dispatch has given control back, by returning or by panicking, no  *)
(* goroutine it started is left behind.                                    *)
NothingOutlivesDispatch == Returned => \A k \in Items : work[k] \in {"unborn", "gone"}

\* What the caller sees of the call
Abstract == INSTANCE Dispatch WITH
  picks <- Items,
  MaxRunning <- Slots,
  started <- begun,
  finished <- begun \ At({"working"}),
  failed <- {panics[n] : n \in DOMAIN panics} \cup At({"recovering"}),
  late <- late,
  cancelled <- ctxDone,
  outcome <- IF Returned THEN main ELSE "running"

(* Dispatch keeps the promise of the Dispatcher interface: each item at    *)
(* most once, no more than Slots at once, at most Slots starts that raced  *)
(* with the cancellation, back only when its work is over and, uncancelled,*)
(* only when every item was worked on, with a panic exactly when one       *)
(* happened.                                                               *)
ImplementsDispatch == Abstract!AbsSpec

\* the last goroutine waits for a slot that nobody will put into sem
SlotLost ==
  /\ main = "wait"
  /\ sem = 0
  /\ Cardinality(Holders) = 1
  /\ \A k \in Items : work[k] \in {"unborn", "releasing", "gone"}

(* Dispatch returns once its work functions have, whatever panics; the     *)
(* only way to hang takes a cancellation, and then exactly one goroutine   *)
(* waits on the drained slot.                                              *)
ReturnsOrLosesOneSlot == <>(Returned \/ (ctxDone /\ SlotLost))

(* dispatcher.go:18 "Dispatch blocks until complete or the context is      *)
(* cancelled": it comes back.                                              *)
DispatchReturns == <>Returned
=============================================================================
