----------------------------- MODULE CLIProcess -----------------------------
(***************************************************************************)
(* connector/cli: one exec step (process.go, capture.go).  The command is  *)
(* started, fed its standard input, and waited for; os/exec kills it when  *)
(* the context of the step ends.  What the command does is its own choice: *)
(* it may read or not, close its input, leave a child behind that keeps its*)
(* output open, end with a code, or run on.                                *)
(*                                                                         *)
(* Bounds: StdinCap pieces of input, a pipe holds one.                     *)
(***************************************************************************)
EXTENDS Naturals

CONSTANT StdinCap

ASSUME StdinAssumption == StdinCap \in Nat

VARIABLES execAt,   \* "start", "feed", "wait", "done", or "off"
          timed,    \* the step has a timeout
          execOver, \* the context of the command has ended
          proc,     \* "none", "running", "ended", "failed" (a code that is not 0), "killed"
          reaped,   \* cmd.Wait has seen the end of the process
          toFeed,   \* pieces of stdin not written yet
          inPipe,   \* pieces written and not read
          reads,    \* the command's end of its stdin is open
          heir,     \* a child of the command holds its stdout
          outcome   \* "none", "refused", "stdin", "timeout", "ok" or "code"

stdinVars == <<toFeed, inPipe, reads>>
execVars == <<execAt, timed, execOver, proc, reaped, stdinVars, heir, outcome>>

ExecStarts(place) ==
  /\ execAt = place
  /\ timed \in IF place = "off" THEN {FALSE} ELSE BOOLEAN
  /\ execOver = FALSE /\ proc = "none" /\ reaped = FALSE
  /\ toFeed \in IF place = "off" THEN {0} ELSE 0 .. StdinCap
  /\ inPipe = 0 /\ reads = FALSE /\ heir = FALSE /\ outcome = "none"

\* executeExec returns; its deferred cancel ends the context of a timed step
ExecReturns(result) ==
  /\ execAt' = "done" /\ outcome' = result
  /\ execOver' = (execOver \/ timed)

\* cmd.Start: nothing is started once the context is over
StartCommand ==
  /\ execAt = "start"
  /\ \/ /\ ~execOver
        /\ execAt' = "feed" /\ proc' = "running" /\ reads' = TRUE
        /\ UNCHANGED <<execOver, outcome>>
     \/ ExecReturns("refused") /\ UNCHANGED <<proc, reads>>
  /\ UNCHANGED <<timed, reaped, toFeed, inPipe, heir>>

\* feedStdin, and the closing of the pipe when all is written
FeedStdin ==
  /\ execAt = "feed"
  /\ \/ toFeed = 0 /\ execAt' = "wait" /\ UNCHANGED <<toFeed, inPipe>>
     \/ /\ toFeed > 0 /\ reads /\ inPipe = 0
        /\ toFeed' = toFeed - 1 /\ inPipe' = 1 /\ UNCHANGED execAt
  /\ UNCHANGED <<timed, execOver, proc, reaped, reads, heir, outcome>>

\* nobody reads: executeExec returns the error and does not wait for the process
FeedFails ==
  /\ execAt = "feed" /\ toFeed > 0 /\ ~reads
  /\ ExecReturns("stdin")
  /\ UNCHANGED <<timed, proc, reaped, stdinVars, heir>>

\* variant: the error of Wait is read before the context
WaitReturnsCodeFirst ==
  /\ execAt = "wait" /\ proc \in {"ended", "failed", "killed"} /\ ~heir
  /\ reaped' = TRUE
  /\ ExecReturns(IF proc = "ended" THEN "ok" ELSE "code")
  /\ UNCHANGED <<timed, proc, stdinVars, heir>>

\* cmd.Wait: the process is over and its output has been copied to the end.  A
\* command that ends well just before it would be killed may count as killed.
WaitReturns ==
  /\ execAt = "wait" /\ proc \in {"ended", "failed", "killed"} /\ ~heir
  /\ reaped' = TRUE
  /\ \/ proc = "ended" /\ ExecReturns("ok")
     \/ execOver /\ ExecReturns("timeout")
     \/ proc # "ended" /\ ~execOver /\ ExecReturns("code")
  /\ UNCHANGED <<timed, proc, stdinVars, heir>>

\* variant: the process is killed by the deferred cancel only
KillLate ==
  /\ execOver /\ proc = "running" /\ execAt = "done"
  /\ proc' = "killed" /\ reads' = FALSE
  /\ UNCHANGED <<execAt, timed, execOver, reaped, toFeed, inPipe, heir, outcome>>

\* the goroutine of CommandContext kills the process, not its children
Kill ==
  /\ execOver /\ proc = "running"
  /\ proc' = "killed" /\ reads' = FALSE
  /\ UNCHANGED <<execAt, timed, execOver, reaped, toFeed, inPipe, heir, outcome>>

Connector == StartCommand \/ FeedStdin \/ FeedFails \/ WaitReturns \/ Kill
-----------------------------------------------------------------------------
\* the command reads, closes its input, has a child, or ends
CommandReads ==
  /\ proc = "running" /\ reads /\ inPipe > 0 /\ inPipe' = 0
  /\ UNCHANGED <<execAt, timed, execOver, proc, reaped, toFeed, reads, heir, outcome>>

CommandCloses ==
  /\ proc = "running" /\ reads /\ reads' = FALSE
  /\ UNCHANGED <<execAt, timed, execOver, proc, reaped, toFeed, inPipe, heir, outcome>>

CommandForks ==
  /\ proc = "running" /\ ~heir /\ heir' = TRUE
  /\ UNCHANGED <<execAt, timed, execOver, proc, reaped, stdinVars, outcome>>

CommandExits ==
  /\ proc = "running" /\ proc' \in {"ended", "failed"} /\ reads' = FALSE
  /\ UNCHANGED <<execAt, timed, execOver, reaped, toFeed, inPipe, heir, outcome>>

HeirEnds ==
  /\ heir /\ heir' = FALSE
  /\ UNCHANGED <<execAt, timed, execOver, proc, reaped, stdinVars, outcome>>

\* the timeout of the step passes, or the run is cancelled
ExecContextEnds ==
  /\ execAt # "off" /\ ~execOver /\ execOver' = TRUE
  /\ UNCHANGED <<execAt, timed, proc, reaped, stdinVars, heir, outcome>>

ExecNext ==
  \/ Connector \/ CommandReads \/ CommandCloses \/ CommandForks \/ CommandExits
  \/ HeirEnds \/ ExecContextEnds

\* the step's goroutines go on; the command and its children need not
ExecFairness == WF_execVars(Connector)
-----------------------------------------------------------------------------
(* What executeExec says of a command is true: an exit code comes from a   *)
(* process that ended by itself after it was given all its input; a timeout*)
(* is blamed only when the context ended (process.go:74-92).               *)
CommandAccounted ==
  /\ outcome \in {"ok", "code"} => proc \in {"ended", "failed"} /\ toFeed = 0
  /\ outcome = "ok" => proc = "ended"
  /\ outcome = "timeout" => execOver

(* The command is over and waited for when executeExec returns, unless     *)
(* writing to it failed: nobody waits for it then (process.go:69-72).      *)
NoCommandLeft ==
  execAt = "done" /\ outcome # "stdin" => proc # "running" /\ (reaped \/ proc = "none")

(* The comment at process.go:79 promises a report of the timeout: once the *)
(* context has ended the step comes back, unless a child of the command    *)
(* keeps the output open; and a timed command does not run on behind it.   *)
CommandCutShort ==
  /\ (execOver /\ execAt # "off") ~> (execAt = "done" \/ heir)
  /\ (timed /\ execAt = "done") ~> proc # "running"
=============================================================================
