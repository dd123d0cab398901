-------------------------------- MODULE Retry --------------------------------
(***************************************************************************)
(* core/retry: one call of Do, WithTimeout or Until.  The function that is *)
(* passed in, the caller's context and the timers end when they like.      *)
(*                                                                         *)
(* Waits are counted in units of the first wait, and are cut to 64 bits    *)
(* when they leave floating point: above MaxDuration they become negative, *)
(* as on amd64, and such a timer fires at once.                            *)
(*                                                                         *)
(* Bounds: a policy has at most AttemptCap attempts, Until makes at most   *)
(* AttemptCap polls.                                                       *)
(***************************************************************************)
EXTENDS Integers

CONSTANTS AttemptCap, MaxDuration

ASSUME RetryAssumption == AttemptCap \in Nat /\ MaxDuration \in Nat \ {0}

VARIABLES op,       \* "do", "timeout", "until", or "off"
          policy,   \* MaxAttempts, MaxWait and Multiplier
          turn,     \* "check", "call", "select", "done"
          parent,   \* the caller's context has ended
          timer,    \* the deadline of WithTimeout and of Until has passed
          attempt,  \* attempts begun
          fn,       \* the call of fn: "none", "running", "true", "false", "error"
          wait,     \* the wait that Do has chosen last
          answer    \* "none", "nil", "error" of fn, "context" or "timeout"

retryVars == <<op, policy, turn, parent, timer, attempt, fn, wait, answer>>

Policies == [attempts : -1 .. AttemptCap, maxWait : {1, MaxDuration}, multiplier : 1 .. 3]

RetryStarts(ops) ==
  /\ op \in ops
  /\ policy \in IF op = "do" THEN Policies ELSE {[attempts |-> 0, maxWait |-> 1, multiplier |-> 1]}
  /\ turn = "check" /\ parent = FALSE /\ timer = FALSE /\ attempt = 0
  /\ fn = "none" /\ wait = 0 /\ answer = "none"

Return(a) == turn' = "done" /\ answer' = a
-----------------------------------------------------------------------------
\* the check of the context before a call; a policy without attempts makes none
Exhausted == op = "do" /\ attempt >= policy.attempts
CheckContext ==
  /\ turn = "check"
  /\ IF Exhausted THEN Return("nil")
     ELSE IF parent THEN Return("context")
     ELSE turn' = "call" /\ UNCHANGED answer
  /\ UNCHANGED <<op, policy, parent, timer, attempt, fn, wait>>

\* fn begins; WithTimeout runs it in a goroutine and selects at once
Call ==
  /\ turn = "call" /\ fn # "running" /\ attempt < AttemptCap
  /\ fn' = "running" /\ attempt' = attempt + 1
  /\ turn' = IF op = "timeout" THEN "select" ELSE "call"
  /\ UNCHANGED <<op, policy, parent, timer, wait, answer>>

\* math.Pow(policy.Multiplier, n)
Pow[n \in 0 .. AttemptCap] == IF n = 0 THEN 1 ELSE policy.multiplier * Pow[n - 1]

\* variant: the wait is not bounded by MaxWait
BackoffUnbounded(n) == IF Pow[n] > MaxDuration THEN -MaxDuration ELSE Pow[n]

\* min(InitialWait * Multiplier ^ n, MaxWait), of what is left of the product
Backoff(n) ==
  LET grown == IF Pow[n] > MaxDuration THEN -MaxDuration ELSE Pow[n] IN
  IF grown > policy.maxWait THEN policy.maxWait ELSE grown

\* what Do and Until make of what fn returned
Judge(r) ==
  IF r = "true" THEN Return("nil") /\ UNCHANGED wait
  ELSE IF op = "until" /\ r = "error" THEN Return("error") /\ UNCHANGED wait
  ELSE IF op = "do" /\ attempt >= policy.attempts THEN Return("error") /\ UNCHANGED wait
  ELSE /\ turn' = "select" /\ UNCHANGED answer
       /\ wait' = IF op = "do" THEN Backoff(attempt - 1) ELSE wait

\* fn returns, to its caller or into the channel of WithTimeout, which has room
\* for it even when nobody waits any more.  Only Until tells false from an error.
FnReturns(r) ==
  /\ fn = "running" /\ (r = "false" => op = "until")
  /\ fn' = r
  /\ IF op = "timeout" THEN UNCHANGED <<turn, wait, answer>> ELSE Judge(r)
  /\ UNCHANGED <<op, policy, parent, timer, attempt>>

\* the wait is over: another round
WaitEnds ==
  /\ turn = "select" /\ op # "timeout"
  /\ turn' = "check"
  /\ UNCHANGED <<op, policy, parent, timer, attempt, fn, wait, answer>>

\* variant: WithTimeout waits for fn first and looks at the deadline then
SelectFnFirst ==
  /\ turn = "select"
  /\ \/ op = "timeout" /\ fn # "running" /\ Return(IF timer THEN "timeout" ELSE IF fn = "true" THEN "nil" ELSE "error")
     \/ op # "timeout" /\ parent /\ Return("context")
     \/ op = "until" /\ timer /\ Return("timeout")
  /\ UNCHANGED <<op, policy, parent, timer, attempt, fn, wait>>

\* select: any of the cases that are ready
Select ==
  /\ turn = "select"
  /\ \/ op = "timeout" /\ fn # "running" /\ Return(IF fn = "true" THEN "nil" ELSE "error")
     \/ op = "timeout" /\ (timer \/ parent) /\ Return(IF parent THEN "context" ELSE "timeout")
     \/ op # "timeout" /\ parent /\ Return("context")
     \/ op = "until" /\ timer /\ Return("timeout")
  /\ UNCHANGED <<op, policy, parent, timer, attempt, fn, wait>>

ParentEnds ==
  /\ op # "off" /\ turn # "done" /\ ~parent /\ parent' = TRUE
  /\ UNCHANGED <<op, policy, turn, timer, attempt, fn, wait, answer>>

TimerFires ==
  /\ op \in {"timeout", "until"} /\ turn # "done" /\ ~timer /\ timer' = TRUE
  /\ UNCHANGED <<op, policy, turn, parent, attempt, fn, wait, answer>>

RetryNext ==
  /\ op # "off"
  /\ \/ CheckContext \/ Call \/ WaitEnds \/ Select \/ ParentEnds \/ TimerFires
     \/ \E r \in {"true", "false", "error"} : FnReturns(r)

\* the calls go on; fn, the context and the timers need not
RetryFairness ==
  WF_retryVars(op # "off" /\ (CheckContext \/ Call \/ Select))
-----------------------------------------------------------------------------
(* Do (retry.go:28-64) says nil only when fn has, and an error only after  *)
(* all attempts, except that a policy without attempts reports success     *)
(* without a call; it never calls more often than it may, and waits at     *)
(* least the first wait and at most MaxWait unless the product has         *)
(* overflowed.  WithTimeout (timeout.go:25-52) and Until (wait.go:17-43)   *)
(* blame a deadline only when it has passed, and the context only when it  *)
(* has ended.                                                              *)
RetrySound ==
  /\ op = "do" => attempt <= policy.attempts \/ attempt = 0
  /\ answer = "nil" => fn = "true" \/ (op = "do" /\ policy.attempts <= 0 /\ fn = "none")
  /\ answer = "error" => fn = "error" /\ (op = "do" => attempt = policy.attempts)
  /\ answer = "context" => parent
  /\ answer = "timeout" => timer /\ ~(op = "until" /\ fn \in {"true", "error"})
  /\ op = "do" /\ turn = "select" =>
       /\ wait <= policy.maxWait
       /\ Pow[attempt - 1] <= MaxDuration => wait >= 1

(* A caller of WithTimeout is never held longer than its deadline, whatever*)
(* fn does (timeout.go:39-51).                                             *)
TimeoutHonoured == (op = "timeout" /\ (timer \/ parent)) ~> (turn = "done")
=============================================================================
