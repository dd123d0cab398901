------------------------------- MODULE LoadTest -------------------------------
(***************************************************************************)
(* loadtest/loadtest.go Orchestrator.Run with its worker pools (worker.go) *)
(* and the metrics they feed: the launching goroutine, the collector, the  *)
(* workers, and the buffered channel results between them.  Time is the    *)
(* choice of when a ramp-up timer fires and when the test context ends.    *)
(* Every pool's context is a child of the test context and pools are only  *)
(* stopped after that one is done, so ctxDone stands for all of them.      *)
(*                                                                         *)
(* Bound: a worker completes at most WorkCap calls.                        *)
(***************************************************************************)
EXTENDS Integers, Sequences, FiniteSets

CONSTANTS Loads,    \* configurations: [concurrency, ramped]
          WorkCap

\* make(chan, 2*concurrency) panics for a negative one
ASSUME LoadsAssumption == Loads \subseteq [concurrency : Nat, ramped : BOOLEAN] /\ WorkCap \in Nat

WorkerIds == UNION {1 .. l.concurrency : l \in Loads}

VARIABLES load,       \* o.cfg
          main,       \* where Run is
          step,       \* the ramp-up step Run is at
          active,     \* activeWorkers
          ctxDone,    \* testCtx is done
          results,    \* the channel: a sequence of "ok" and "error"
          closed,     \* close(results) has happened
          metrics,    \* [total, errors] of Metrics
          worker,     \* where each worker is, and the result in its hands
          calls,      \* history: calls completed by each worker
          dropped     \* history: workers that threw their last result away

loadVars == <<load, main, step, active, ctxDone, results, closed, metrics,
              worker, calls, dropped>>

\* Schedule: [timed, workers] per step; the first step is due at once
Schedule(l) ==
  IF l.concurrency <= 0 THEN <<>>
  ELSE IF l.concurrency = 1 \/ ~l.ramped THEN <<[timed |-> FALSE, workers |-> l.concurrency]>>
  ELSE [k \in 1 .. l.concurrency |-> [timed |-> k > 1, workers |-> k]]

In(states) == {x \in WorkerIds : worker[x] \in states}
Live == WorkerIds \ In({"unborn", "gone"})

LoadStarts(at) ==
  /\ load \in Loads
  /\ main = at /\ step = 1 /\ active = 0
  /\ ctxDone = FALSE
  /\ results = <<>> /\ closed = FALSE
  /\ metrics = [total |-> 0, errors |-> 0]
  /\ worker = [x \in WorkerIds |-> "unborn"]
  /\ calls = [x \in WorkerIds |-> 0]
  /\ dropped = {}

LoadInit == LoadStarts("ramp")

workVars == <<results, closed, metrics, calls, dropped>>
-----------------------------------------------------------------------------
(* Run.                                                                    *)

\* variant: each step starts its whole target again
LaunchAll ==
  LET due == Schedule(load)[step] IN
  /\ main = "ramp" /\ step <= Len(Schedule(load))
  /\ active' = due.workers /\ step' = step + 1
  /\ worker' = [x \in WorkerIds |->
                  IF x <= active + due.workers /\ worker[x] = "unborn" THEN "look" ELSE worker[x]]
  /\ UNCHANGED <<load, main, ctxDone, workVars>>

\* a step that is due starts the workers missing from its target; a timed
\* step may come before or, when both are ready, together with the end
Launch ==
  LET due == Schedule(load)[step] IN
  /\ main = "ramp" /\ step <= Len(Schedule(load))
  /\ active' = due.workers /\ step' = step + 1
  /\ worker' = [x \in WorkerIds |->
                  IF x \in active + 1 .. due.workers THEN "look" ELSE worker[x]]
  /\ UNCHANGED <<load, main, ctxDone, workVars>>

\* the end comes while Run waits for a timed step, or after the last one
StopRamp ==
  /\ main = "ramp" /\ ctxDone
  /\ step <= Len(Schedule(load)) => Schedule(load)[step].timed
  /\ main' = "stop"
  /\ UNCHANGED <<load, step, active, ctxDone, worker, workVars>>

\* variant: the channel is closed without waiting for the pools
CloseEarly ==
  /\ main = "stop"
  /\ closed' = TRUE /\ main' = "collect"
  /\ UNCHANGED <<load, step, active, ctxDone, worker, results, metrics, calls, dropped>>

\* Stop of every pool: all workers have left; then close(results)
Close ==
  /\ main = "stop" /\ Live = {}
  /\ closed' = TRUE /\ main' = "collect"
  /\ UNCHANGED <<load, step, active, ctxDone, worker, results, metrics, calls, dropped>>

\* <-done: the collector has drained the channel
Return ==
  /\ main = "collect" /\ closed /\ results = <<>>
  /\ main' = "returned"
  /\ UNCHANGED <<load, step, active, ctxDone, worker, workVars>>

\* variant: the collector stops with the test
CollectUntilEnd ==
  /\ results # <<>> /\ ~ctxDone
  /\ results' = Tail(results)
  /\ metrics' = [total |-> metrics.total + 1,
                 errors |-> metrics.errors + IF Head(results) = "error" THEN 1 ELSE 0]
  /\ UNCHANGED <<load, main, step, active, ctxDone, closed, worker, calls, dropped>>

\* the collector's range over results, and Metrics.Record
Collect ==
  /\ results # <<>>
  /\ results' = Tail(results)
  /\ metrics' = [total |-> metrics.total + 1,
                 errors |-> metrics.errors + IF Head(results) = "error" THEN 1 ELSE 0]
  /\ UNCHANGED <<load, main, step, active, ctxDone, closed, worker, calls, dropped>>

\* the duration is over, or the caller cancels
End ==
  /\ ~ctxDone /\ main # "returned"
  /\ ctxDone' = TRUE
  /\ UNCHANGED <<load, main, step, active, worker, workVars>>
-----------------------------------------------------------------------------
(* A worker.                                                               *)

\* the select before a call
Look(x) ==
  /\ worker[x] = "look"
  /\ ctxDone \/ calls[x] < WorkCap
  /\ worker' = [worker EXCEPT ![x] = IF ctxDone THEN "gone" ELSE "working"]
  /\ UNCHANGED <<load, main, step, active, ctxDone, workVars>>

\* work comes back
Complete(x, outcome) ==
  /\ worker[x] = "working"
  /\ worker' = [worker EXCEPT ![x] = outcome]
  /\ calls' = [calls EXCEPT ![x] = @ + 1]
  /\ UNCHANGED <<load, main, step, active, ctxDone, results, closed, metrics, dropped>>

\* the select after a call: the result fits into the channel
Send(x) ==
  /\ worker[x] \in {"ok", "error"}
  /\ Len(results) < 2 * load.concurrency
  /\ results' = Append(results, worker[x])
  /\ worker' = [worker EXCEPT ![x] = "look"]
  /\ UNCHANGED <<load, main, step, active, ctxDone, closed, metrics, calls, dropped>>

\* or the context is done; when both are ready Go picks either
Drop(x) ==
  /\ worker[x] \in {"ok", "error"} /\ ctxDone
  /\ worker' = [worker EXCEPT ![x] = "gone"]
  /\ dropped' = dropped \cup {x}
  /\ UNCHANGED <<load, main, step, active, ctxDone, results, closed, metrics, calls>>

RunStep == Launch \/ StopRamp \/ Close \/ Return

WorkerStep(x) ==
  Look(x) \/ Complete(x, "ok") \/ Complete(x, "error") \/ Send(x) \/ Drop(x)

LoadNext == RunStep \/ Collect \/ End \/ \E x \in WorkerIds : WorkerStep(x)

\* every goroutine that can run runs, work comes back, the duration ends
LoadFairness ==
  /\ WF_loadVars(RunStep) /\ WF_loadVars(Collect) /\ WF_loadVars(End)
  /\ \A x \in WorkerIds : WF_loadVars(WorkerStep(x))
-----------------------------------------------------------------------------
\* the calls that the first n workers have completed
CompletedBy[n \in 0 .. load.concurrency] == IF n = 0 THEN 0 ELSE CompletedBy[n - 1] + calls[n]

(* Every completed call is in the metrics, in the channel, in the hands of *)
(* its worker, or was dropped by a worker that left; one worker drops one  *)
(* at most, after the end.  The channel is closed when no worker is left   *)
(* that could send, and no more workers live than the step reached asks.   *)
ResultsAccounted ==
  /\ CompletedBy[load.concurrency] =
       metrics.total + Len(results) + Cardinality(In({"ok", "error"})) + Cardinality(dropped)
  /\ dropped \subseteq In({"gone"})
  /\ dropped # {} => ctxDone
  /\ closed => Live = {}
  /\ Cardinality(Live) <= IF step = 1 THEN 0 ELSE Schedule(load)[step - 1].workers

(* Run comes back once the test is over, however full the channel was when *)
(* the context ended.                                                      *)
RunReturns == <>(main = "returned")

LoadSpec == LoadInit /\ [][LoadNext]_loadVars /\ LoadFairness
=============================================================================
