------------------------------ MODULE Dispatch ------------------------------
(***************************************************************************)
(* What a core/engine Dispatcher promises its caller, whatever the mode    *)
(* (core/engine/dispatcher.go:14-20).  One call of Dispatch is given a set *)
(* of picks; it starts work for picks, never twice for one pick and never  *)
(* more than MaxRunning at once, and gives control back only when nothing  *)
(* it started is still running.  Without a cancellation and without a      *)
(* panic it gives control back only when every pick has been worked on.    *)
(*                                                                         *)
(* The detailed dispatchers (ConcurrentDispatcher, SerialDispatcher) are   *)
(* checked to implement this specification.                                *)
(***************************************************************************)
EXTENDS Naturals, FiniteSets

CONSTANT MaxRunning     \* how many may be worked on at the same time

VARIABLES picks,        \* the picks of this Dispatch call, fixed throughout
          started,      \* picks whose work function has been entered
          finished,     \* picks whose work function has been left
          failed,       \* picks whose work function has panicked
          late,         \* picks started although the context was cancelled
          cancelled,    \* the caller's context is done
          outcome       \* "running", "returned" or "panicked"

absVars == <<picks, started, finished, failed, late, cancelled, outcome>>

AbsInit ==
  /\ started = {} /\ finished = {} /\ failed = {} /\ late = {}
  /\ cancelled = FALSE
  /\ outcome = "running"

(* Work on one more pick.  A start that raced with a cancellation is       *)
(* allowed only for the few picks that were already past their check.      *)
AbsStart(p) ==
  /\ outcome = "running"
  /\ p \notin started
  /\ Cardinality(started \ finished) < MaxRunning
  /\ cancelled => Cardinality(late) < MaxRunning
  /\ started' = started \cup {p}
  /\ late' = IF cancelled THEN late \cup {p} ELSE late
  /\ UNCHANGED <<picks, finished, failed, cancelled, outcome>>

AbsFinish(p) ==
  /\ p \in started \ finished
  /\ finished' = finished \cup {p}
  /\ failed' \in {failed, failed \cup {p}}
  /\ UNCHANGED <<picks, started, late, cancelled, outcome>>

AbsCancel ==
  /\ ~cancelled
  /\ cancelled' = TRUE
  /\ UNCHANGED <<picks, started, finished, failed, late, outcome>>

(* Give control back: quietly when nothing panicked and nothing was left   *)
(* out except by a cancellation, by a panic when some work panicked.       *)
AbsReturn ==
  /\ outcome = "running"
  /\ started = finished
  /\ \/ failed = {} /\ (started = picks \/ cancelled) /\ outcome' = "returned"
     \/ failed # {} /\ outcome' = "panicked"
  /\ UNCHANGED <<picks, started, finished, failed, late, cancelled>>

AbsNext ==
  \/ \E p \in picks : AbsStart(p) \/ AbsFinish(p)
  \/ AbsCancel
  \/ AbsReturn

AbsSpec == AbsInit /\ [][AbsNext]_absVars
=============================================================================
