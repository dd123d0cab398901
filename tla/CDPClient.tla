------------------------------ MODULE CDPClient ------------------------------
(***************************************************************************)
(* connector/browser/cdp: one Client (client.go) on its WebSocket          *)
(* (websocket.go).  Callers send commands and wait for the answer with     *)
(* their id; the read loop hands out answers and, when reading fails,      *)
(* wakes the callers it finds in the pending map.  The browser answers in  *)
(* any order; it may close the connection or vanish.  Events find no       *)
(* subscriber in the program and pings only cause a pong: both are left    *)
(* out.  A frame is written whole under the socket's mutex.                *)
(*                                                                         *)
(* Bound: each caller sends SendCap commands.                              *)
(***************************************************************************)
EXTENDS Naturals, Sequences

CONSTANTS Callers, SendCap

ASSUME SendCapAssumption == SendCap \in Nat

VARIABLES conn,     \* "open", "broken" by the browser, or "shut" by Close
          wsClosed, \* ws.closed
          requests, \* ids the browser has received and not answered
          inbox,    \* frames on their way to the read loop: ids and "close"
          reader,   \* the read loop: "reading", "waking" or "gone"
          unwoken,  \* the keys its Range still has to visit
          done,     \* c.done is closed
          nextID,
          pending,  \* the keys of c.pending
          answered, \* the ids whose channel holds the answer
          woken,    \* the ids whose channel holds the error of the read loop
          call,     \* each caller: [at, id]
          sends,    \* how many Sends each caller has begun
          unsent    \* history: ids written on a connection the browser has left

connVars == <<conn, wsClosed, requests, inbox>>
readVars == <<reader, unwoken, done>>
callVars == <<nextID, pending, answered, woken, call, sends, unsent>>
vars == <<connVars, readVars, callVars>>

Rest == [at |-> "idle", id |-> 0]

\* something is in the caller's channel
Answered(x) == call[x].id \in answered \cup woken

Init ==
  /\ conn = "open" /\ wsClosed = FALSE /\ requests = {} /\ inbox = <<>>
  /\ reader = "reading" /\ unwoken = {} /\ done = FALSE
  /\ nextID = 0 /\ pending = {} /\ answered = {} /\ woken = {}
  /\ call = [x \in Callers |-> Rest]
  /\ sends = [x \in Callers |-> 0]
  /\ unsent = {}
-----------------------------------------------------------------------------
(* sendWithSession.                                                        *)

\* the select on done: an ended client refuses the command
Begin(x) ==
  /\ call[x] = Rest /\ sends[x] < SendCap
  /\ sends' = [sends EXCEPT ![x] = @ + 1]
  /\ call' = [call EXCEPT ![x] = IF done THEN Rest ELSE [at |-> "store", id |-> 0]]
  /\ UNCHANGED <<connVars, readVars, nextID, pending, answered, woken, unsent>>

\* variant: two callers can read the same value of the counter
StoreUncounted(x) ==
  /\ call[x].at = "store"
  /\ nextID' = IF nextID \in pending THEN nextID ELSE nextID + 1
  /\ pending' = pending \cup {nextID'}
  /\ call' = [call EXCEPT ![x] = [at |-> "write", id |-> nextID']]
  /\ UNCHANGED <<connVars, readVars, answered, woken, sends, unsent>>

\* a fresh id and its channel go into the pending map
Store(x) ==
  /\ call[x].at = "store"
  /\ nextID' = nextID + 1
  /\ pending' = pending \cup {nextID + 1}
  /\ call' = [call EXCEPT ![x] = [at |-> "write", id |-> nextID + 1]]
  /\ UNCHANGED <<connVars, readVars, answered, woken, sends, unsent>>

\* WriteText reaches the browser, or is lost on a connection it has left
WriteText(x) ==
  /\ call[x].at = "write" /\ ~wsClosed /\ conn # "shut"
  /\ requests' = IF conn = "open" THEN requests \cup {call[x].id} ELSE requests
  /\ unsent' = IF conn = "open" THEN unsent ELSE unsent \cup {call[x].id}
  /\ call' = [call EXCEPT ![x].at = "wait"]
  /\ UNCHANGED <<conn, wsClosed, inbox, readVars, nextID, pending, answered, woken, sends>>

\* or fails; the deferred Delete clears the map
WriteFails(x) ==
  /\ call[x].at = "write" /\ (wsClosed \/ conn # "open")
  /\ pending' = pending \ {call[x].id}
  /\ call' = [call EXCEPT ![x] = Rest]
  /\ UNCHANGED <<connVars, readVars, nextID, answered, woken, sends, unsent>>

\* resp := <-ch
Receive(x) ==
  /\ call[x].at = "wait" /\ Answered(x)
  /\ pending' = pending \ {call[x].id}
  /\ call' = [call EXCEPT ![x] = Rest]
  /\ UNCHANGED <<connVars, readVars, nextID, answered, woken, sends, unsent>>

Caller(x) == Begin(x) \/ Store(x) \/ WriteText(x) \/ WriteFails(x) \/ Receive(x)

\* Close: ws.closed is set before the close frame is written, which is
\* refused for that reason; then the connection goes down
Close ==
  /\ conn # "shut"
  /\ conn' = "shut" /\ wsClosed' = TRUE /\ done' = TRUE
  /\ UNCHANGED <<requests, inbox, reader, unwoken, callVars>>
-----------------------------------------------------------------------------
(* readLoop.                                                               *)

\* frames that are buffered can be read after the connection has ended
NextFrame == reader = "reading" /\ inbox # <<>> /\ inbox' = Tail(inbox)

\* an answer goes to whoever is registered under its id
Deliver ==
  /\ NextFrame /\ Head(inbox) # 0
  /\ IF Head(inbox) \in pending
       THEN /\ pending' = pending \ {Head(inbox)}
            /\ answered' = answered \cup {Head(inbox)}
       ELSE UNCHANGED <<pending, answered>>
  /\ UNCHANGED <<conn, wsClosed, requests, readVars, nextID, woken, call, sends, unsent>>

\* variant: the pending callers are left to notice by themselves
WakeNobody == reader' = "waking" /\ unwoken' = {}

\* reading fails; Range will visit at least the keys present now
Wake == reader' = "waking" /\ unwoken' = pending

ReadClose ==
  /\ NextFrame /\ Head(inbox) = 0
  /\ wsClosed' = TRUE
  /\ Wake
  /\ UNCHANGED <<conn, requests, done, callVars>>

ReadFails ==
  /\ reader = "reading"
  /\ conn = "shut" \/ (conn = "broken" /\ inbox = <<>>)
  /\ Wake
  /\ UNCHANGED <<connVars, done, callVars>>

\* Range visits a key of the map, one stored meanwhile perhaps too; the send
\* does not block
Visit(i) ==
  /\ reader = "waking" /\ i \in pending \ woken
  /\ woken' = woken \cup {i}
  /\ unwoken' = unwoken \ {i}
  /\ UNCHANGED <<connVars, reader, done, nextID, pending, answered, call, sends, unsent>>

\* the deferred close of done
EndRead ==
  /\ reader = "waking" /\ unwoken \cap pending = {}
  /\ reader' = "gone" /\ done' = TRUE
  /\ UNCHANGED <<connVars, unwoken, callVars>>

Reader == Deliver \/ ReadClose \/ ReadFails \/ (\E i \in pending : Visit(i)) \/ EndRead
-----------------------------------------------------------------------------
(* The browser; frame 0 is a close frame.                                  *)
Answer(i) ==
  /\ conn = "open" /\ i \in requests
  /\ requests' = requests \ {i}
  /\ inbox' = Append(inbox, i)
  /\ UNCHANGED <<conn, wsClosed, readVars, callVars>>

SendClose ==
  /\ conn = "open" /\ \A k \in DOMAIN inbox : inbox[k] # 0
  /\ inbox' = Append(inbox, 0)
  /\ UNCHANGED <<conn, wsClosed, requests, readVars, callVars>>

Vanish ==
  /\ conn = "open"
  /\ conn' = "broken"
  /\ UNCHANGED <<wsClosed, requests, inbox, readVars, callVars>>

Browser == (\E i \in requests : Answer(i)) \/ SendClose \/ Vanish

Next == (\E x \in Callers : Caller(x)) \/ Close \/ Reader \/ Browser

\* goroutines run; the browser answers what it has received as long as it
\* lives (Send has no timeout of its own)
Fairness ==
  /\ WF_vars(Reader) /\ WF_vars(\E i \in requests : Answer(i))
  /\ \A x \in Callers : WF_vars(Caller(x))

Spec == Init /\ [][Next]_vars /\ Fairness
-----------------------------------------------------------------------------
InFlight == {x \in Callers : call[x].at \in {"write", "wait"}}

(* Answers in any order reach their callers: calls in flight have ids of   *)
(* their own, a caller whose channel is empty can be found under its id,   *)
(* and the map holds no call that is over.                                 *)
CallsMatch ==
  /\ \A x, y \in InFlight : call[x].id = call[y].id => x = y
  /\ \A x \in InFlight : Answered(x) \/ call[x].id \in pending
  /\ pending \subseteq {call[x].id : x \in InFlight}

\* a caller the wake-up passed by: its command went into a connection that
\* was broken, after the Range and before done was seen closed
Missed(x) ==
  /\ call[x].at = "wait" /\ ~Answered(x)
  /\ reader = "gone" /\ call[x].id \in unsent

(* client.go:54 "Wake all pending callers": however the connection ends,   *)
(* every call comes back, except one that was stored after the Range and   *)
(* whose write on the broken connection went unnoticed.                    *)
SendReturns ==
  \A x \in Callers : (call[x].at = "wait") ~> (call[x].at # "wait" \/ Missed(x))
=============================================================================
