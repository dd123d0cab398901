--------------------------- MODULE LoopController ---------------------------
(***************************************************************************)
(* LoopController.Run (core/engine/loop.go:32-69): the passes of a suite,  *)
(* bounded by a repeat count, a duration and the caller's context.  What a *)
(* pass does is left to the module that extends this one; here a pass is   *)
(* entered (BeginPass) and left (EndPass).                                 *)
(*                                                                         *)
(* exec is the execution block as validation lets it through               *)
(* (core/schema/validate.go:85-138): a repeat >= 0, a duration and an      *)
(* interval that time.ParseDuration accepts, which may be zero or negative,*)
(* and for repeat 0 a duration that is written out.  Only the sign of a    *)
(* duration matters here, so -1, 0 and 1 stand for all of them.            *)
(***************************************************************************)
EXTENDS Naturals, Integers

CONSTANTS Execs,    \* the execution blocks to consider
          PassCap   \* bound of the model: no pass begins beyond this one

ExecBlock == [repeat : Nat, duration : {-1, 0, 1}, interval : {-1, 0, 1}]

ASSUME ExecsAssumption == Execs \subseteq ExecBlock
ASSUME PassCapAssumption ==
  PassCap \in Nat /\ 1 < PassCap /\ \A e \in Execs : e.repeat < PassCap

VARIABLES exec,     \* the suite's execution block
          ctxDone,  \* the caller's context is cancelled
          expired,  \* the timeout of runCtx has fired
          loop,     \* where Run is
          passNum   \* number of the latest pass, from 1

loopVars == <<exec, ctxDone, expired, loop, passNum>>

\* runSuiteWithExecution: neither a repeat nor a duration means one pass
Repeat == IF exec.repeat = 0 /\ exec.duration = 0 THEN 1 ELSE exec.repeat

\* runCtx.Err() # nil
RunDone == ctxDone \/ expired

LoopInit ==
  /\ exec \in Execs
  /\ ctxDone = FALSE
  /\ expired = FALSE
  /\ loop = "top"
  /\ passNum = 0

\* the top of the loop: give up when runCtx is done, else enter a pass
BeginPass ==
  /\ loop = "top"
  /\ ~RunDone
  /\ passNum < PassCap
  /\ loop' = IF Repeat > 0 /\ passNum >= Repeat THEN "done" ELSE "pass"
  /\ passNum' = passNum + 1
  /\ UNCHANGED <<exec, ctxDone, expired>>

StopAtTop ==
  /\ loop = "top"
  /\ RunDone
  /\ loop' = "done"
  /\ UNCHANGED <<exec, ctxDone, expired, passNum>>

\* variant: a repeat of zero is taken for a bound
EndPassZeroIsABound ==
  /\ loop = "pass"
  /\ loop' = IF passNum >= Repeat THEN "done"
             ELSE IF exec.interval > 0 THEN "interval" ELSE "top"
  /\ UNCHANGED <<exec, ctxDone, expired, passNum>>

\* passFn came back: no sleep after the last pass
EndPass ==
  /\ loop = "pass"
  /\ loop' = IF Repeat > 0 /\ passNum >= Repeat THEN "done"
             ELSE IF exec.interval > 0 THEN "interval" ELSE "top"
  /\ UNCHANGED <<exec, ctxDone, expired, passNum>>

\* case <-time.After(lc.interval)
IntervalOver ==
  /\ loop = "interval"
  /\ loop' = "top"
  /\ UNCHANGED <<exec, ctxDone, expired, passNum>>

\* case <-runCtx.Done()
IntervalCut ==
  /\ loop = "interval"
  /\ RunDone
  /\ loop' = "done"
  /\ UNCHANGED <<exec, ctxDone, expired, passNum>>

\* the timeout is armed for a positive duration only
Expire ==
  /\ exec.duration > 0
  /\ ~expired
  /\ loop # "done"
  /\ expired' = TRUE
  /\ UNCHANGED <<exec, ctxDone, loop, passNum>>

\* Ctrl-C
Cancel ==
  /\ ~ctxDone
  /\ ctxDone' = TRUE
  /\ UNCHANGED <<exec, expired, loop, passNum>>

LoopStep == BeginPass \/ StopAtTop \/ EndPass \/ IntervalOver \/ IntervalCut

LoopNext == LoopStep \/ Expire \/ Cancel

LoopSpec == LoopInit /\ [][LoopNext]_loopVars

-----------------------------------------------------------------------------
(* Where the variables range; a timeout fires only where one was armed, and*)
(* Run sleeps only where there is an interval.                             *)
LoopTypeOK ==
  /\ exec \in Execs
  /\ ctxDone \in BOOLEAN
  /\ expired \in BOOLEAN
  /\ loop \in {"top", "pass", "interval", "done"}
  /\ passNum \in 0 .. PassCap
  /\ expired => exec.duration > 0
  /\ loop = "interval" => exec.interval > 0

\* the passes asked for: a repeat count, or one when nothing is asked for
Bounded == exec.repeat > 0 \/ exec.duration = 0
PassesAsked == IF exec.repeat > 0 THEN exec.repeat ELSE 1

(* A repeat count is never exceeded; the loop ends because it is reached or*)
(* because the run was cut short, and for no other reason.                 *)
RepeatHonoured ==
  /\ Bounded => passNum <= PassesAsked
  /\ loop = "done" /\ ~RunDone => Bounded /\ passNum = PassesAsked

(* loop.go:29 "Whichever condition is hit first stops execution": once the *)
(* time is up or the run is cancelled, no further pass begins, however     *)
(* long the pass in progress takes.                                        *)
NoPassAfterStop == [][RunDone => passNum' = passNum /\ (loop' = "pass" => loop = "pass")]_loopVars
=============================================================================
