---------------------------- MODULE Subscription ----------------------------
(***************************************************************************)
(* connector/http/graphql/subscription.go: one GraphQL subscription on its *)
(* WebSocket.  Subscribe dials, upgrades, waits for the acknowledgement and*)
(* subscribes; Next waits for events; Close ends it.  Each readMessage     *)
(* starts a goroutine that reads a frame into a channel of its own; when   *)
(* the caller's context ends first, the goroutine is left behind on the    *)
(* same bufio.Reader, without a lock.                                      *)
(*                                                                         *)
(* A frame is its kind and its place in what the server sends.  Lengths,   *)
(* masks and JSON are left out: frames that cannot be decoded are a kind.  *)
(*                                                                         *)
(* Bounds: the server sends FrameCap frames, ReaderCap goroutines start.   *)
(***************************************************************************)
EXTENDS Naturals, Sequences

CONSTANTS FrameCap, ReaderCap

ASSUME SubscriptionCaps == FrameCap \in Nat /\ ReaderCap \in Nat \ {0}

VARIABLES at,       \* the caller: see SubTypeOK
          ctxEnded, \* the context of the call in progress is over
          link,     \* "none", "open", or "shut" on this side
          server,   \* "up", or "gone": its side of the connection has ended
          wire,     \* frames on their way
          buffer,   \* frames in the bufio.Reader
          sent,     \* the kinds of the frames the server has sent
          readers,  \* one per readMessage: what its goroutine has to show
          subClosed,\* s.closed
          events,   \* history: the numbers of the events Next has returned
          cutAt     \* history: frames sent when a call was first cut short, or FrameCap + 1

netVars == <<link, server, wire, buffer, sent>>
subVars == <<at, ctxEnded, netVars, readers, subClosed, events, cutAt>>

\* messages: the acknowledgement, next and error ("event"), complete and what
\* has a payload that does not decode ("end"), any other type; and frames:
\* ping and pong, and close, odd opcodes and no JSON ("bad")
Kinds == {"ack", "event", "end", "other", "ping", "bad"}

\* a goroutine that reads, one whose answer was taken, one that failed to read or decode
Reading == [kind |-> "reading", n |-> 0]
Gone == [kind |-> "gone", n |-> 0]
Failure == [kind |-> "failed", n |-> 0]
Started == Len(readers)
Result == readers[Started]
IsReading(i) == readers[i] = Reading

SubStarts(place) ==
  /\ at = place /\ ctxEnded = FALSE
  /\ link = "none" /\ server = "up" /\ wire = <<>> /\ buffer = <<>> /\ sent = <<>>
  /\ readers = <<>> /\ subClosed = FALSE /\ events = <<>> /\ cutAt = FrameCap + 1
-----------------------------------------------------------------------------
(* The caller.                                                             *)

\* readMessage: a goroutine and a channel for one answer
StartReader == readers' = Append(readers, Reading)
CanStart == Started < ReaderCap

\* the unread answer of a reader is lost with its channel
TakeAnswer == readers' = [readers EXCEPT ![Started] = Gone]

Dial ==
  /\ at = "dial"
  /\ \/ at' = "upgrade" /\ link' = "open"
     \/ at' = "failed" /\ UNCHANGED link
  /\ UNCHANGED <<ctxEnded, server, wire, buffer, sent, readers, subClosed, events, cutAt>>

\* the answer to the upgrade request is waited for without the context;
\* an answer other than 101 or a failed connection_init ends Subscribe
Upgrade ==
  /\ at = "upgrade" /\ CanStart
  /\ \/ server = "up" /\ at' = "ack" /\ StartReader /\ UNCHANGED link
     \/ at' = "failed" /\ link' = "shut" /\ UNCHANGED readers
  /\ UNCHANGED <<ctxEnded, server, wire, buffer, sent, subClosed, events, cutAt>>

\* connection_ack, then the subscribe message, which a lost server may refuse
Acknowledged ==
  /\ at = "ack" /\ Started > 0 /\ ~IsReading(Started)
  /\ \/ Result.kind = "ack" /\ at' = "idle" /\ UNCHANGED link
     \/ (Result.kind # "ack" \/ server = "gone") /\ at' = "failed" /\ link' = "shut"
  /\ TakeAnswer
  /\ UNCHANGED <<ctxEnded, server, wire, buffer, sent, subClosed, events, cutAt>>

NextCall ==
  /\ at = "idle" /\ CanStart
  /\ at' = "next" /\ ctxEnded' = FALSE /\ StartReader
  /\ UNCHANGED <<netVars, subClosed, events, cutAt>>

\* variant: the caller gives up but leaves the connection open
CutOpen ==
  /\ at \in {"ack", "next"} /\ ctxEnded
  /\ at' = IF at = "ack" THEN "failed" ELSE "idle"
  /\ cutAt' = IF cutAt > FrameCap THEN Len(sent) ELSE cutAt
  /\ UNCHANGED <<ctxEnded, netVars, readers, subClosed, events>>

\* case <-ctx.Done(): close the connection, leave the goroutine behind
Cut ==
  /\ at \in {"ack", "next"} /\ ctxEnded
  /\ at' = IF at = "ack" THEN "failed" ELSE "idle"
  /\ link' = "shut"
  /\ cutAt' = IF cutAt > FrameCap THEN Len(sent) ELSE cutAt
  /\ UNCHANGED <<ctxEnded, server, wire, buffer, sent, readers, subClosed, events>>

\* Next skips messages of other types with a further readMessage
Skip ==
  /\ at = "next" /\ ~IsReading(Started)
  /\ Result.kind \in {"ack", "other"} /\ CanStart
  /\ readers' = Append([readers EXCEPT ![Started] = Gone], Reading)
  /\ UNCHANGED <<at, ctxEnded, netVars, subClosed, events, cutAt>>

\* and returns events as responses, everything else as an error
NextReturns ==
  /\ at = "next" /\ ~IsReading(Started)
  /\ Result.kind \notin {"ack", "other"}
  /\ events' = IF Result.kind = "event" THEN Append(events, Result.n) ELSE events
  /\ at' = "idle" /\ TakeAnswer
  /\ UNCHANGED <<ctxEnded, netVars, subClosed, cutAt>>

\* Close, by any goroutine that has the subscription
CloseSub ==
  /\ at \in {"idle", "next"} /\ ~subClosed
  /\ subClosed' = TRUE /\ link' = "shut"
  /\ UNCHANGED <<at, ctxEnded, server, wire, buffer, sent, readers, events, cutAt>>

CallerStep == Dial \/ Upgrade \/ Acknowledged \/ NextCall \/ Cut \/ Skip \/ NextReturns
-----------------------------------------------------------------------------
(* The goroutines: readTextFrame and the decoding of its payload.          *)

Answers(i, r) == readers' = [readers EXCEPT ![i] = r]

\* the bufio.Reader is filled with what has arrived of the stream
Fill(i) ==
  /\ IsReading(i) /\ buffer = <<>> /\ link = "open"
  /\ \E k \in 1 .. Len(wire) : buffer' = SubSeq(wire, 1, k) /\ wire' = SubSeq(wire, k + 1, Len(wire))
  /\ UNCHANGED <<link, server, sent, readers>>

\* what is buffered can be read even when the connection is shut
ReadFrame(i) ==
  /\ IsReading(i) /\ buffer # <<>>
  /\ LET f == Head(buffer) IN
       Answers(i, IF f.kind = "ping" THEN Reading ELSE IF f.kind = "bad" THEN Failure ELSE f)
  /\ buffer' = Tail(buffer)
  /\ UNCHANGED <<link, server, wire, sent>>

\* two goroutines inside one bufio.Reader tear frames apart
TearFrame(i) ==
  /\ IsReading(i) /\ buffer # <<>> /\ \E j \in 1 .. Started \ {i} : IsReading(j)
  /\ Answers(i, Failure)
  /\ \E k \in 1 .. Len(buffer) : buffer' = SubSeq(buffer, k + 1, Len(buffer))
  /\ UNCHANGED <<link, server, wire, sent>>

ReadError(i) ==
  /\ IsReading(i) /\ buffer = <<>>
  /\ link = "shut" \/ (server = "gone" /\ wire = <<>>)
  /\ Answers(i, Failure)
  /\ UNCHANGED netVars

ReaderStep(i) ==
  /\ Fill(i) \/ ReadFrame(i) \/ TearFrame(i) \/ ReadError(i)
  /\ UNCHANGED <<at, ctxEnded, subClosed, events, cutAt>>
-----------------------------------------------------------------------------
\* the server, once it has been dialled, sends whatever it likes, and may end
ServerSends(kind) ==
  /\ link = "open" /\ server = "up" /\ Len(sent) < FrameCap
  /\ sent' = Append(sent, kind) /\ wire' = Append(wire, [kind |-> kind, n |-> Len(sent) + 1])
  /\ UNCHANGED <<at, ctxEnded, link, server, buffer, readers, subClosed, events, cutAt>>

ServerEnds ==
  /\ link # "none" /\ server = "up" /\ server' = "gone"
  /\ UNCHANGED <<at, ctxEnded, link, wire, buffer, sent, readers, subClosed, events, cutAt>>

ContextEnds ==
  /\ at \in {"dial", "upgrade", "ack", "next"} /\ ~ctxEnded /\ ctxEnded' = TRUE
  /\ UNCHANGED <<at, netVars, readers, subClosed, events, cutAt>>

SubNext ==
  \/ CallerStep \/ CloseSub \/ ServerEnds \/ ContextEnds
  \/ \E i \in 1 .. Started : ReaderStep(i)
  \/ \E kind \in Kinds : ServerSends(kind)

\* goroutines that can run are run; nobody else has to do anything
SubFairness == \A i \in 1 .. ReaderCap : WF_subVars(i <= Started /\ ReaderStep(i))
-----------------------------------------------------------------------------
SubTypeOK ==
  /\ at \in {"off", "dial", "upgrade", "ack", "idle", "next", "failed"}
  /\ link \in {"none", "open", "shut"} /\ server \in {"up", "gone"}
  /\ Len(readers) <= ReaderCap /\ Len(sent) <= FrameCap

(* Next (subscription.go:165-190) returns events in the order in which     *)
(* they were sent, each once, and passes none over until a call is cut     *)
(* short.  That ends the subscription: what is returned afterwards was     *)
(* sent before, whatever the goroutine left behind (line 290) takes away.  *)
EventsInOrder ==
  /\ \A i, j \in 1 .. Len(events) : i < j => events[i] < events[j]
  /\ \A i \in 1 .. Len(events) : events[i] <= cutAt /\ sent[events[i]] = "event"
  /\ cutAt > FrameCap =>
       \A i \in 1 .. Len(events) : \A n \in 1 .. events[i] :
         sent[n] = "event" => \E j \in 1 .. i : events[j] = n

(* Lines 288-294, 201: once a call was cut short or the subscription was   *)
(* closed, every goroutine that reads for it comes to an end, those that   *)
(* earlier calls have left behind included.                                *)
ReadersEnd == (cutAt <= FrameCap \/ subClosed) ~> (\A i \in 1 .. Started : ~IsReading(i))
=============================================================================
