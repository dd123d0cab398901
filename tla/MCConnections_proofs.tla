------------------------ MODULE MCConnections_proofs ------------------------
(***************************************************************************)
(* Proofs about the clients that hold connections: the calls of CDPClient, *)
(* for any set of callers, and the events of Subscription, for any number  *)
(* of frames and reading goroutines.                                       *)
(*                                                                         *)
(* CallsMatch is not inductive: that a fresh id differs from the ids in    *)
(* flight needs that those were counted by nextID, and that they are there *)
(* at all needs the range of call.                                         *)
(*                                                                         *)
(* EventsInOrder needs to know that buffer and wire hold the rest of what  *)
(* was sent (StreamInv), that the answer the caller waits for comes after  *)
(* all events it has (ResultInv), that one goroutine reads until a call is *)
(* cut short (ReadersInv), and that what was read until then is returned   *)
(* or in that answer (SeenInv).                                            *)
(***************************************************************************)
EXTENDS MCConnections, TLAPS

-----------------------------------------------------------------------------
(* connector/browser/cdp.                                                  *)

Places == {"idle", "store", "write", "wait"}

CallTypeOK ==
  /\ nextID \in Nat
  /\ call \in [Callers -> [at : Places, id : Nat]]

\* an id in flight has been counted
Counted == \A x \in InFlight : call[x].id <= nextID

IInv == CallTypeOK /\ Counted /\ CallsMatch

(* A client that was just dialled has no calls.                            *)
LEMMA InitIInv == Init => IInv
BY DEF Init, IInv, CallTypeOK, Counted, CallsMatch, InFlight, Rest, Places

(* Steps that touch neither the counter nor the calls, and answer or wake  *)
(* callers without taking one out of the map unanswered.                   *)
LEMMA ReaderKeepsIInv ==
  ASSUME IInv, UNCHANGED <<nextID, call>>,
         answered \subseteq answered', woken \subseteq woken',
         pending' \subseteq pending, pending \subseteq pending' \cup answered'
  PROVE  IInv'
<1>1. CallTypeOK' /\ Counted' /\ InFlight' = InFlight
  BY DEF IInv, CallTypeOK, Counted, InFlight
<1>2. \A x \in InFlight : Answered(x) => Answered(x)'
  BY DEF Answered
<1>3. \A x \in InFlight : Answered(x)' \/ call[x].id \in pending'
  BY <1>2 DEF IInv, CallsMatch, Answered
<1>. QED
  BY <1>1, <1>3 DEF IInv, CallsMatch

(* A caller that is not in flight moves without touching the map.          *)
LEMMA BeginKeepsIInv == ASSUME IInv, NEW x \in Callers, Begin(x) PROVE IInv'
<1>1. CallTypeOK'
  BY DEF IInv, CallTypeOK, Begin, Rest, Places
<1>2. InFlight' = InFlight /\ \A y \in InFlight : call'[y] = call[y]
  BY DEF IInv, CallTypeOK, Begin, Rest, InFlight
<1>3. \A y \in InFlight : Answered(y)' <=> Answered(y)
  BY <1>2 DEF Answered, Begin
<1>4. UNCHANGED <<nextID, pending>>
  BY DEF Begin
<1>. QED
  BY <1>1, <1>2, <1>3, <1>4 DEF IInv, Counted, CallsMatch

(* The fresh id is above all ids in flight, and goes into the map.         *)
LEMMA StoreKeepsIInv == ASSUME IInv, NEW x \in Callers, Store(x) PROVE IInv'
<1>1. CallTypeOK' /\ nextID' = nextID + 1 /\ call'[x] = [at |-> "write", id |-> nextID + 1]
  BY DEF IInv, CallTypeOK, Store, Places
<1>2. InFlight' = InFlight \cup {x} /\ x \notin InFlight
        /\ \A y \in InFlight : call'[y] = call[y]
  BY DEF IInv, CallTypeOK, Store, InFlight
<1>3. \A y \in InFlight : call[y].id \in Nat /\ call[y].id <= nextID /\ nextID \in Nat
  BY DEF IInv, CallTypeOK, Counted, InFlight
<1>4. \A y \in InFlight : Answered(y)' <=> Answered(y)
  BY <1>2 DEF Answered, Store
<1>5. pending' = pending \cup {nextID + 1}
  BY DEF Store
<1>6. Counted'
  BY <1>1, <1>2, <1>3 DEF Counted, IInv, CallTypeOK
<1>7. \A y, z \in InFlight' : call'[y].id = call'[z].id => y = z
  BY <1>1, <1>2, <1>3 DEF IInv, CallsMatch
<1>8. \A y \in InFlight' : Answered(y)' \/ call'[y].id \in pending'
  BY <1>1, <1>2, <1>4, <1>5 DEF IInv, CallsMatch
<1>9. pending' \subseteq {call'[y].id : y \in InFlight'}
  BY <1>1, <1>2, <1>5 DEF IInv, CallsMatch
<1>. QED
  BY <1>1, <1>6, <1>7, <1>8, <1>9 DEF IInv, CallsMatch

(* Writing keeps the call in flight.                                       *)
LEMMA WriteKeepsIInv == ASSUME IInv, NEW x \in Callers, WriteText(x) PROVE IInv'
<1>1. CallTypeOK'
  BY DEF IInv, CallTypeOK, WriteText, Places
<1>2. InFlight' = InFlight /\ \A y \in Callers : call'[y].id = call[y].id
  BY DEF IInv, CallTypeOK, WriteText, InFlight
<1>3. \A y \in InFlight : Answered(y)' <=> Answered(y)
  BY <1>2 DEF Answered, WriteText, InFlight
<1>4. UNCHANGED <<nextID, pending>>
  BY DEF WriteText
<1>5. InFlight \subseteq Callers
  BY DEF InFlight
<1>. QED
  BY <1>1, <1>2, <1>3, <1>4, <1>5 DEF IInv, Counted, CallsMatch

(* A call that leaves takes its own id along, and no other.                *)
LEMMA LeaveKeepsIInv ==
  ASSUME IInv, NEW x \in Callers, WriteFails(x) \/ Receive(x)
  PROVE  IInv'
<1>1. CallTypeOK'
  BY DEF IInv, CallTypeOK, WriteFails, Receive, Rest, Places
<1>2. x \in InFlight /\ InFlight' = InFlight \ {x} /\ \A y \in InFlight' : call'[y] = call[y]
  BY DEF IInv, CallTypeOK, WriteFails, Receive, Rest, InFlight
<1>3. \A y \in InFlight' : Answered(y)' <=> Answered(y)
  BY <1>2 DEF Answered, WriteFails, Receive
<1>4. pending' = pending \ {call[x].id} /\ nextID' = nextID
  BY DEF WriteFails, Receive
<1>5. Counted'
  BY <1>2, <1>4 DEF IInv, Counted
<1>6. \A y \in InFlight' : Answered(y)' \/ call'[y].id \in pending'
  BY <1>2, <1>3, <1>4 DEF IInv, CallsMatch
<1>7. pending' \subseteq {call'[y].id : y \in InFlight'}
  BY <1>2, <1>4 DEF IInv, CallsMatch
<1>. QED
  BY <1>1, <1>2, <1>5, <1>6, <1>7 DEF IInv, CallsMatch

(* Every step keeps the invariant.                                         *)
LEMMA StepKeepsIInv == IInv /\ [Next]_vars => IInv'
<1>. SUFFICES ASSUME IInv, [Next]_vars PROVE IInv'
  OBVIOUS
<1>1. CASE \E x \in Callers : Caller(x)
  BY <1>1, BeginKeepsIInv, StoreKeepsIInv, WriteKeepsIInv, LeaveKeepsIInv DEF Caller
<1>2. CASE Reader
  <2>1. CASE Deliver
    BY <2>1, ReaderKeepsIInv DEF Deliver, NextFrame
  <2>2. CASE \E i \in pending : Visit(i)
    BY <2>2, ReaderKeepsIInv DEF Visit
  <2>3. CASE ReadClose \/ ReadFails \/ EndRead
    BY <2>3, ReaderKeepsIInv DEF ReadClose, ReadFails, EndRead, callVars
  <2>. QED
    BY <1>2, <2>1, <2>2, <2>3 DEF Reader
<1>3. CASE Close \/ Browser \/ UNCHANGED vars
  BY <1>3, ReaderKeepsIInv DEF Close, Browser, Answer, SendClose, Vanish, vars, callVars
<1>. QED
  BY <1>1, <1>2, <1>3 DEF Next

(* client.go:66-77 and 128-161: with any number of callers, answers in any *)
(* order and a connection that ends at any moment, ids in flight differ,   *)
(* every caller still waiting can be found, and the map keeps no call that *)
(* is over.                                                                *)
THEOREM CallsAlwaysMatch == Spec => []CallsMatch
<1>1. Init /\ [][Next]_vars => []IInv
  BY InitIInv, StepKeepsIInv, PTL
<1>2. IInv => CallsMatch
  BY DEF IInv
<1>. QED
  BY <1>1, <1>2, PTL DEF Spec
-----------------------------------------------------------------------------
(* connector/http/graphql/subscription.go.                                 *)

Frames == [kind : Kinds, n : Nat]
Showable == {Reading, Gone, Failure} \cup Frames

SubTyped ==
  /\ at \in {"off", "dial", "upgrade", "ack", "idle", "next", "failed"}
  /\ link \in {"none", "open", "shut"}
  /\ readers \in Seq(Showable) /\ wire \in Seq(Frames) /\ buffer \in Seq(Frames)
  /\ sent \in Seq(Kinds) /\ Len(sent) <= FrameCap
  /\ events \in Seq(Nat) /\ cutAt \in Nat

\* the number of frames that were read from the buffer
Taken == Len(sent) - Len(buffer) - Len(wire)

\* what is buffered and on its way is the rest of what was sent
StreamInv ==
  /\ Len(buffer) + Len(wire) <= Len(sent)
  /\ \A k \in 1 .. Len(buffer) : buffer[k] = [kind |-> sent[Taken + k], n |-> Taken + k]
  /\ \A k \in 1 .. Len(wire) :
       wire[k] = [kind |-> sent[Taken + Len(buffer) + k], n |-> Taken + Len(buffer) + k]

\* a call that was cut short has shut the connection: no more is sent
CutInv ==
  /\ cutAt = FrameCap + 1 \/ (cutAt = Len(sent) /\ link = "shut")
  /\ at = "dial" => link = "none"

\* readMessage waits for the goroutine that was started last
Waiting == at \in {"ack", "next"}

ReadersInv ==
  /\ Waiting => Started > 0
  /\ cutAt > FrameCap => \A i \in 1 .. Started : IsReading(i) => i = Started /\ Waiting

\* that goroutine has a frame for it
Holds == Waiting /\ Result.kind \in Kinds

\* the frame was sent after all events that were returned
ResultInv ==
  Holds => /\ Result.n \in 1 .. Taken /\ Result.kind = sent[Result.n]
           /\ \A i \in 1 .. Len(events) : events[i] < Result.n

EventsInv ==
  /\ \A i \in 1 .. Len(events) : events[i] \in 1 .. Taken /\ sent[events[i]] = "event"
  /\ \A i, j \in 1 .. Len(events) : i < j => events[i] < events[j]
  /\ at \notin {"idle", "next"} => events = <<>>

\* until a call is cut short, what was read was returned or is about to be
SeenInv ==
  cutAt > FrameCap =>
    /\ \A i \in 1 .. Len(events) : \A n \in 1 .. events[i] :
         sent[n] = "event" => \E j \in 1 .. i : events[j] = n
    /\ at # "failed" => \A n \in 1 .. Taken : sent[n] = "event" =>
         (\E i \in 1 .. Len(events) : events[i] = n) \/ (Holds /\ Result.n = n)

SubIInv == SubTyped /\ StreamInv /\ CutInv /\ ReadersInv /\ ResultInv /\ EventsInv /\ SeenInv

(* A subscription that is about to be made, or is not made at all.         *)
LEMMA SubStartsIInv ==
  ASSUME NEW place \in {"off", "dial"}, SubStarts(place)
  PROVE  SubIInv
<1>1. Len(<<>>) = 0 /\ \A S : <<>> \in Seq(S)
  OBVIOUS
<1>2. SubTyped
  BY <1>1, SubscriptionCaps DEF SubStarts, SubTyped
<1>3. StreamInv /\ CutInv /\ ReadersInv /\ ResultInv /\ EventsInv /\ SeenInv
  BY <1>1 DEF SubStarts, StreamInv, CutInv, ReadersInv, ResultInv, EventsInv, SeenInv, Waiting, Holds, Taken, Started
<1>4. QED
  BY <1>2, <1>3 DEF SubIInv

(* A sequence in which one element is replaced.                            *)
LEMMA Replaced ==
  ASSUME NEW S, NEW s \in Seq(S), NEW i, NEW r \in S
  PROVE  /\ [s EXCEPT ![i] = r] \in Seq(S) /\ Len([s EXCEPT ![i] = r]) = Len(s)
         /\ \A k \in 1 .. Len(s) : [s EXCEPT ![i] = r][k] = IF k = i THEN r ELSE s[k]
<1> DEFINE t == [s EXCEPT ![i] = r]
<1>1. Len(s) \in Nat /\ s \in [1 .. Len(s) -> S]
  OBVIOUS
<1>2. t \in [1 .. Len(s) -> S] /\ \A k \in 1 .. Len(s) : t[k] = IF k = i THEN r ELSE s[k]
  BY <1>1
<1> HIDE DEF t
<1>3. t \in Seq(S) /\ Len(t) = Len(s)
  BY <1>1, <1>2
<1>4. QED
  BY <1>2, <1>3 DEF t

(* A sequence with one more element.                                       *)
LEMMA Appended ==
  ASSUME NEW S, NEW s \in Seq(S), NEW e \in S
  PROVE  /\ Append(s, e) \in Seq(S) /\ Len(s) \in Nat /\ Len(Append(s, e)) = Len(s) + 1
         /\ Append(s, e)[Len(s) + 1] = e /\ \A k \in 1 .. Len(s) : Append(s, e)[k] = s[k]
  OBVIOUS

(* What the types say of lengths, readers and frames.                      *)
LEMMA SubTypes ==
  ASSUME SubTyped
  PROVE  /\ FrameCap \in Nat /\ ReaderCap \in Nat
         /\ Len(sent) \in Nat /\ Len(buffer) \in Nat /\ Len(wire) \in Nat /\ Len(events) \in Nat /\ Started \in Nat
         /\ DOMAIN sent = 1 .. Len(sent) /\ DOMAIN readers = 1 .. Started
         /\ \A i \in 1 .. Started : readers[i] \in Showable
         /\ \A k \in 1 .. Len(buffer) : buffer[k] \in Frames
         /\ \A i \in 1 .. Len(events) : events[i] \in Nat
  BY SubscriptionCaps DEF SubTyped, Started

(* Every step keeps the types.                                             *)
LEMMA SubTypedKeeps == ASSUME SubTyped, ReadersInv, SubNext PROVE SubTyped'
<1>0. readers \in Seq(Showable) /\ Reading \in Showable /\ Gone \in Showable /\ Failure \in Showable
      /\ wire \in Seq(Frames) /\ buffer \in Seq(Frames) /\ events \in Seq(Nat)
  BY DEF SubTyped, Showable
<1>1. CASE Dial \/ Cut \/ CloseSub \/ ServerEnds \/ ContextEnds
  BY <1>1, SubTypes DEF SubTyped, Dial, Cut, CloseSub, ServerEnds, ContextEnds, netVars
<1>2. CASE Upgrade \/ NextCall
  <2>1. readers' = readers \/ readers' = Append(readers, Reading)
    BY <1>2, Zenon DEF Upgrade, NextCall, StartReader
  <2>2. readers' \in Seq(Showable)
    BY <1>0, <2>1, Appended
  <2>3. QED
    BY <1>2, <2>2 DEF SubTyped, Upgrade, NextCall, netVars
<1>3. CASE Acknowledged \/ NextReturns
  <2>1. readers' = [readers EXCEPT ![Started] = Gone]
    BY <1>3, Zenon DEF Acknowledged, NextReturns, TakeAnswer
  <2>2. readers' \in Seq(Showable)
    BY <1>0, <2>1, Replaced
  <2>3. events' \in Seq(Nat)
    <3>1. CASE events' = events
      BY <1>0, <3>1
    <3>2. CASE NextReturns /\ Result.kind = "event" /\ events' = Append(events, Result.n)
      <4>1. Started \in 1 .. Started
        BY <3>2, SubTypes DEF NextReturns, ReadersInv, Waiting
      <4>2. Result \in Showable
        BY <4>1, SubTypes DEF Result
      <4>3. Result.n \in Nat
        BY <4>2 DEF Showable, Frames, Reading, Gone, Failure
      <4>4. QED
        BY <1>0, <3>2, <4>3
    <3>3. QED
      BY <1>3, <3>1, <3>2, Zenon DEF Acknowledged, NextReturns
  <2>4. QED
    BY <1>3, <2>2, <2>3 DEF SubTyped, Acknowledged, NextReturns, netVars
<1>4. CASE Skip
  <2>1. readers' = Append([readers EXCEPT ![Started] = Gone], Reading)
    BY <1>4, Zenon DEF Skip
  <2>2. [readers EXCEPT ![Started] = Gone] \in Seq(Showable)
    BY <1>0, Replaced
  <2>3. readers' \in Seq(Showable)
    BY <1>0, <2>1, <2>2
  <2>4. QED
    BY <1>4, <2>3 DEF SubTyped, Skip, netVars
<1>5. ASSUME NEW i \in 1 .. Started, ReaderStep(i) PROVE SubTyped'
  <2>1. ASSUME NEW r \in Showable, readers' = [readers EXCEPT ![i] = r] PROVE readers' \in Seq(Showable)
    BY <1>0, <2>1, Replaced
  <2>2. CASE Fill(i)
    <3>1. PICK k \in 1 .. Len(wire) : buffer' = SubSeq(wire, 1, k) /\ wire' = SubSeq(wire, k + 1, Len(wire))
      BY <2>2, Zenon DEF Fill
    <3>2. buffer' \in Seq(Frames) /\ wire' \in Seq(Frames)
      BY <1>0, <3>1, SubTypes
    <3>3. QED
      BY <1>5, <2>2, <3>2 DEF ReaderStep, Fill, SubTyped
  <2>3. CASE ReadFrame(i)
    <3>1. buffer' = Tail(buffer) /\ buffer # <<>> /\ UNCHANGED <<link, server, wire, sent>>
          /\ \/ readers' = [readers EXCEPT ![i] = Reading] \/ readers' = [readers EXCEPT ![i] = Failure]
             \/ readers' = [readers EXCEPT ![i] = Head(buffer)]
      BY <2>3, Zenon DEF ReadFrame, Answers
    <3>2. Head(buffer) \in Showable /\ buffer' \in Seq(Frames)
      BY <1>0, <3>1 DEF Showable
    <3>3. readers' \in Seq(Showable)
      BY <1>0, <2>1, <3>1, <3>2, Zenon
    <3>4. QED
      BY <1>5, <3>1, <3>2, <3>3 DEF ReaderStep, SubTyped
  <2>4. CASE TearFrame(i)
    <3>1. PICK k \in 1 .. Len(buffer) : buffer' = SubSeq(buffer, k + 1, Len(buffer))
      BY <2>4, Zenon DEF TearFrame
    <3>2. buffer' \in Seq(Frames)
      BY <1>0, <3>1, SubTypes
    <3>3. readers' = [readers EXCEPT ![i] = Failure] /\ UNCHANGED <<link, server, wire, sent>>
      BY <2>4, Zenon DEF TearFrame, Answers
    <3>4. readers' \in Seq(Showable)
      BY <1>0, <2>1, <3>3, Zenon
    <3>5. QED
      BY <1>5, <3>2, <3>3, <3>4 DEF ReaderStep, SubTyped
  <2>5. CASE ReadError(i)
    <3>1. readers' = [readers EXCEPT ![i] = Failure] /\ UNCHANGED netVars
      BY <2>5, Zenon DEF ReadError, Answers
    <3>2. readers' \in Seq(Showable)
      BY <1>0, <2>1, <3>1, Zenon
    <3>3. QED
      BY <1>5, <3>1, <3>2 DEF ReaderStep, SubTyped, netVars
  <2>6. QED
    BY <1>5, <2>2, <2>3, <2>4, <2>5 DEF ReaderStep
<1>6. ASSUME NEW kind \in Kinds, ServerSends(kind) PROVE SubTyped'
  <2>1. sent' = Append(sent, kind) /\ wire' = Append(wire, [kind |-> kind, n |-> Len(sent) + 1]) /\ Len(sent) < FrameCap
    BY <1>6, Zenon DEF ServerSends
  <2>2. [kind |-> kind, n |-> Len(sent) + 1] \in Frames
    BY SubTypes DEF Frames
  <2>3. sent' \in Seq(Kinds) /\ wire' \in Seq(Frames) /\ Len(sent') <= FrameCap
    BY <1>0, <2>1, <2>2, SubTypes DEF SubTyped
  <2>4. QED
    BY <1>6, <2>3 DEF ServerSends, SubTyped
<1>7. QED
  BY <1>1, <1>2, <1>3, <1>4, <1>5, <1>6 DEF SubNext, CallerStep

(* What a goroutine reads: nothing, the next frame, or several in pieces,  *)
(* and what it then has to show.                                           *)
ReadsTo(i, r) == readers' = [readers EXCEPT ![i] = r]

LEMMA ReaderEffects ==
  ASSUME SubTyped, StreamInv, NEW i \in 1 .. Started, ReaderStep(i)
  PROVE  /\ UNCHANGED <<at, events, cutAt, sent, link>> /\ IsReading(i) /\ StreamInv' /\ Taken \in Nat
         /\ Taken' \in Nat /\ Taken' >= Taken
         /\ \/ readers' = readers /\ Taken' = Taken
            \/ ReadsTo(i, Reading) /\ Taken' = Taken + 1 /\ sent[Taken + 1] = "ping"
            \/ ReadsTo(i, Failure) /\ Taken' = Taken + 1 /\ sent[Taken + 1] = "bad"
            \/ /\ ReadsTo(i, [kind |-> sent[Taken + 1], n |-> Taken + 1])
               /\ Taken' = Taken + 1 /\ sent[Taken + 1] \in Kinds
            \/ ReadsTo(i, Failure) /\ \E j \in 1 .. Started \ {i} : IsReading(j)
            \/ ReadsTo(i, Failure) /\ Taken' = Taken
<1>1. /\ Len(sent) \in Nat /\ Len(buffer) \in Nat /\ Len(wire) \in Nat
      /\ buffer \in Seq(Frames) /\ wire \in Seq(Frames)
  BY SubTypes DEF SubTyped
<1>2. /\ Taken = Len(sent) - Len(buffer) - Len(wire) /\ Taken \in Nat /\ Len(buffer) + Len(wire) <= Len(sent)
      /\ \A k \in 1 .. Len(buffer) : buffer[k] = [kind |-> sent[Taken + k], n |-> Taken + k]
      /\ \A k \in 1 .. Len(wire) :
           wire[k] = [kind |-> sent[Taken + Len(buffer) + k], n |-> Taken + Len(buffer) + k]
  BY <1>1 DEF StreamInv, Taken
<1>3. UNCHANGED <<at, events, cutAt, sent, link>> /\ IsReading(i)
  BY DEF ReaderStep, Fill, ReadFrame, TearFrame, ReadError, netVars
<1>4. Taken' = Len(sent) - Len(buffer') - Len(wire')
  BY <1>3, Zenon DEF Taken
<1>5. ASSUME NEW t \in Nat, Taken' = t, Len(buffer') + Len(wire') <= Len(sent),
             \A k \in 1 .. Len(buffer') : buffer'[k] = [kind |-> sent[t + k], n |-> t + k],
             \A k \in 1 .. Len(wire') :
               wire'[k] = [kind |-> sent[t + Len(buffer') + k], n |-> t + Len(buffer') + k]
      PROVE  StreamInv'
  BY <1>3, <1>5, Zenon DEF StreamInv
<1>6. CASE Fill(i)
  <2>1. PICK m \in 1 .. Len(wire) : buffer' = SubSeq(wire, 1, m) /\ wire' = SubSeq(wire, m + 1, Len(wire))
    BY <1>6, Zenon DEF Fill
  <2>2. /\ Len(buffer') = m /\ \A k \in 1 .. m : buffer'[k] = wire[k]
        /\ Len(wire') = Len(wire) - m /\ \A k \in 1 .. Len(wire) - m : wire'[k] = wire[k + m]
    BY <1>1, <2>1
  <2>3. readers' = readers /\ Len(buffer) = 0
    BY <1>6 DEF Fill
  <2>4. Taken' = Taken
    BY <1>1, <1>2, <1>4, <2>2, <2>3
  <2>5. \A k \in 1 .. Len(wire) : wire[k] = [kind |-> sent[Taken + k], n |-> Taken + k]
    BY <1>2, <2>3
  <2>6. \A k \in 1 .. Len(wire') : k + m \in 1 .. Len(wire) /\ Taken + (k + m) = Taken + Len(buffer') + k
    BY <1>1, <1>2, <2>2
  <2>7. StreamInv'
    <3>1. Len(buffer') + Len(wire') <= Len(sent)
      BY <1>1, <1>2, <2>2, <2>3
    <3>2. ASSUME NEW k \in 1 .. Len(buffer')
          PROVE  buffer'[k] = [kind |-> sent[Taken + k], n |-> Taken + k]
      <4>1. k \in 1 .. m /\ k \in 1 .. Len(wire)
        BY <1>1, <2>2
      <4>2. QED
        BY <2>2, <2>5, <4>1, Zenon
    <3>3. ASSUME NEW k \in 1 .. Len(wire')
          PROVE  wire'[k] = [kind |-> sent[Taken + Len(buffer') + k], n |-> Taken + Len(buffer') + k]
      <4>1. wire'[k] = wire[k + m]
        BY <2>2
      <4>2. wire[k + m] = [kind |-> sent[Taken + (k + m)], n |-> Taken + (k + m)]
        BY <2>5, <2>6
      <4>3. QED
        BY <2>6, <4>1, <4>2, Zenon
    <3>4. QED
      BY <1>2, <1>5, <2>4, <3>1, <3>2, <3>3
  <2>8. Taken' \in Nat /\ Taken' >= Taken
    BY <1>2, <2>4
  <2>9. QED
    BY <1>2, <1>3, <2>3, <2>4, <2>7, <2>8, Zenon
<1>7. ASSUME NEW m \in 1 .. Len(buffer), buffer' = SubSeq(buffer, m + 1, Len(buffer)), wire' = wire
      PROVE  Taken' = Taken + m /\ StreamInv'
  <2>1. Len(buffer') = Len(buffer) - m /\ \A k \in 1 .. Len(buffer) - m : buffer'[k] = buffer[k + m]
    BY <1>1, <1>7
  <2>2. Taken' = Taken + m /\ Taken + m \in Nat
    <3>1. Taken' = Len(sent) - (Len(buffer) - m) - Len(wire)
      BY <1>4, <1>7, <2>1, Zenon
    <3>2. \A s, b, w \in Nat : s - (b - m) - w = (s - b - w) + m
      OBVIOUS
    <3>3. Taken' = (Len(sent) - Len(buffer) - Len(wire)) + m
      BY <1>1, <3>1, <3>2, Zenon
    <3>4. QED
      BY <1>2, <3>3
  <2>3. Len(buffer') + Len(wire') <= Len(sent)
    BY <1>1, <1>2, <1>7, <2>1
  <2>4. ASSUME NEW k \in 1 .. Len(buffer')
        PROVE  buffer'[k] = [kind |-> sent[(Taken + m) + k], n |-> (Taken + m) + k]
    <3>1. k + m \in 1 .. Len(buffer) /\ Taken + (k + m) = (Taken + m) + k /\ buffer'[k] = buffer[k + m]
      BY <1>1, <1>2, <2>1
    <3>2. buffer[k + m] = [kind |-> sent[Taken + (k + m)], n |-> Taken + (k + m)]
      BY <1>2, <3>1
    <3>3. QED
      BY <3>1, <3>2, Zenon
  <2>5. ASSUME NEW k \in 1 .. Len(wire')
        PROVE  wire'[k] = [kind |-> sent[(Taken + m) + Len(buffer') + k], n |-> (Taken + m) + Len(buffer') + k]
    <3>1. k \in 1 .. Len(wire) /\ (Taken + m) + Len(buffer') + k = Taken + Len(buffer) + k
      <4>1. k \in 1 .. Len(wire) /\ k \in Nat
        BY <1>7
      <4>2. \A t, b \in Nat : (t + m) + (b - m) + k = t + b + k
        BY <4>1
      <4>3. (Taken + m) + (Len(buffer) - m) + k = Taken + Len(buffer) + k
        BY <1>1, <1>2, <4>2, Zenon
      <4>4. QED
        BY <2>1, <4>1, <4>3, Zenon
    <3>2. wire[k] = [kind |-> sent[Taken + Len(buffer) + k], n |-> Taken + Len(buffer) + k]
      BY <1>2, <3>1
    <3>3. QED
      BY <1>7, <3>1, <3>2, Zenon
  <2>6. QED
    BY <1>5, <2>2, <2>3, <2>4, <2>5
<1>8. CASE ReadFrame(i)
  <2>1. /\ buffer # <<>> /\ buffer' = Tail(buffer) /\ wire' = wire
        /\ ReadsTo(i, IF Head(buffer).kind = "ping" THEN Reading
                      ELSE IF Head(buffer).kind = "bad" THEN Failure ELSE Head(buffer))
    BY <1>8, Zenon DEF ReadFrame, Answers, ReadsTo
  <2>2. 1 \in 1 .. Len(buffer) /\ Tail(buffer) = SubSeq(buffer, 1 + 1, Len(buffer)) /\ Head(buffer) = buffer[1]
    BY <1>1, <2>1
  <2>3. Taken' = Taken + 1 /\ StreamInv'
    BY <1>7, <2>1, <2>2
  <2>4. Head(buffer) = [kind |-> sent[Taken + 1], n |-> Taken + 1]
    BY <1>2, <2>2
  <2>5. Head(buffer).kind = sent[Taken + 1] /\ sent[Taken + 1] \in Kinds
    <3>1. Head(buffer).kind = sent[Taken + 1]
      BY <2>4
    <3>2. Head(buffer) \in Frames
      BY <1>1, <2>1
    <3>3. QED
      BY <3>1, <3>2 DEF Frames
  <2>6. Taken' \in Nat /\ Taken' >= Taken
    BY <1>2, <2>3
  <2>7. QED
    BY <1>2, <1>3, <2>1, <2>3, <2>4, <2>5, <2>6, Zenon
<1>9. CASE TearFrame(i)
  <2>1. PICK m \in 1 .. Len(buffer) : buffer' = SubSeq(buffer, m + 1, Len(buffer))
    BY <1>9, Zenon DEF TearFrame
  <2>2. ReadsTo(i, Failure) /\ wire' = wire /\ \E j \in 1 .. Started \ {i} : IsReading(j)
    BY <1>9, Zenon DEF TearFrame, Answers, ReadsTo
  <2>3. Taken' = Taken + m /\ StreamInv'
    BY <1>7, <2>1, <2>2
  <2>4. Taken' \in Nat /\ Taken' >= Taken
    BY <1>1, <1>2, <2>3
  <2>5. QED
    BY <1>2, <1>3, <2>2, <2>3, <2>4, Zenon
<1>10. CASE ReadError(i)
  <2>1. ReadsTo(i, Failure) /\ UNCHANGED netVars
    BY <1>10, Zenon DEF ReadError, Answers, ReadsTo
  <2>2. Taken' = Taken /\ StreamInv'
    BY <2>1, Zenon DEF netVars, Taken, StreamInv
  <2>3. Taken' \in Nat /\ Taken' >= Taken
    BY <1>2, <2>2
  <2>4. QED
    BY <1>2, <1>3, <2>1, <2>2, <2>3, Zenon
<1>11. QED
  BY <1>6, <1>8, <1>9, <1>10, Zenon DEF ReaderStep

(* What the caller waits for after a goroutine has something to show.      *)
LEMMA ReadersAfter ==
  ASSUME SubTyped, NEW i \in 1 .. Started, NEW r \in Showable, ReadsTo(i, r)
  PROVE  /\ Started' = Started /\ \A k \in 1 .. Started : readers'[k] = IF k = i THEN r ELSE readers[k]
         /\ i # Started => Result' = Result
         /\ i = Started => Result' = r
<1>1. readers \in Seq(Showable) /\ Started = Len(readers) /\ Started' = Len(readers') /\ Started \in 1 .. Started
  BY SubTypes DEF SubTyped, Started
<1>2. Started' = Started /\ \A k \in 1 .. Started : readers'[k] = IF k = i THEN r ELSE readers[k]
  BY <1>1, Replaced DEF ReadsTo
<1>3. Result' = readers'[Started]
  BY <1>2, Zenon DEF Result
<1>4. QED
  BY <1>1, <1>2, <1>3 DEF Result

(* A goroutine's read.                                                     *)
LEMMA ReadKeeps ==
  ASSUME SubIInv, NEW i \in 1 .. Started, ReaderStep(i)
  PROVE  CutInv' /\ ReadersInv' /\ ResultInv' /\ EventsInv' /\ SeenInv'
<1>1. SubTyped /\ StreamInv /\ CutInv /\ ReadersInv /\ ResultInv /\ EventsInv /\ SeenInv
  BY DEF SubIInv
<1>2. /\ FrameCap \in Nat /\ Started \in Nat /\ Len(events) \in Nat /\ Taken \in Nat
      /\ at' = at /\ events' = events /\ cutAt' = cutAt /\ sent' = sent /\ link' = link /\ IsReading(i)
      /\ Taken' \in Nat /\ Taken' >= Taken
  BY <1>1, SubTypes, ReaderEffects
<1>3. Reading \in Showable /\ Failure \in Showable /\ Reading.kind \notin Kinds /\ Failure.kind \notin Kinds
      /\ Failure # Reading
  BY DEF Showable, Reading, Failure, Kinds
<1>4. CutInv'
  BY <1>1, <1>2, Zenon DEF CutInv
<1>5. EventsInv'
  BY <1>1, <1>2 DEF EventsInv
<1>6. Waiting' = Waiting
  BY <1>2, Zenon DEF Waiting
<1>7. /\ Waiting => Started > 0
      /\ cutAt > FrameCap => \A k \in 1 .. Started : IsReading(k) => k = Started /\ Waiting
  BY <1>1 DEF ReadersInv
<1>8. CASE readers' = readers /\ Taken' = Taken
  <2>1. Started' = Started /\ Result' = Result /\ \A k : IsReading(k)' <=> IsReading(k)
    BY <1>8, Zenon DEF Started, Result, IsReading
  <2>2. Holds' = Holds
    BY <1>6, <2>1, Zenon DEF Holds
  <2>3. ReadersInv'
    BY <1>2, <1>6, <1>7, <2>1, Zenon DEF ReadersInv
  <2>4. ResultInv'
    BY <1>1, <1>2, <1>8, <2>1, <2>2, Zenon DEF ResultInv
  <2>5. SeenInv'
    BY <1>1, <1>2, <1>8, <2>1, <2>2 DEF SeenInv
  <2>6. QED
    BY <1>4, <1>5, <2>3, <2>4, <2>5
<1>9. ASSUME NEW r \in Showable, ReadsTo(i, r), r = Reading \/ r.kind \in Kinds \/ r = Failure
      PROVE  ReadersInv'
  <2>1. Started' = Started /\ \A k \in 1 .. Started : readers'[k] = IF k = i THEN r ELSE readers[k]
    BY <1>1, <1>9, ReadersAfter
  <2>2. \A k \in 1 .. Started : IsReading(k)' => IsReading(k)
    BY <1>2, <2>1 DEF IsReading
  <2>3. QED
    BY <1>2, <1>6, <1>7, <2>1, <2>2 DEF ReadersInv
<1>10. ASSUME NEW r \in Showable, ReadsTo(i, r), r.kind \notin Kinds,
              \/ Taken' = Taken
              \/ Taken' = Taken + 1 /\ sent[Taken + 1] # "event"
              \/ \E j \in 1 .. Started \ {i} : IsReading(j)
       PROVE  ResultInv' /\ SeenInv'
  <2>1. /\ i # Started => Result' = Result
        /\ i = Started => Result' = r
    BY <1>1, <1>10, ReadersAfter
  <2>2. ResultInv'
    <3>1. Holds' => Holds /\ Result' = Result
      BY <1>6, <1>10, <2>1, Zenon DEF Holds
    <3>2. QED
      BY <1>1, <1>2, <3>1 DEF ResultInv
  <2>3. ASSUME cutAt > FrameCap, at # "failed", NEW n \in 1 .. Taken', sent[n] = "event"
        PROVE  \E k \in 1 .. Len(events) : events[k] = n
    <3>1. i = Started /\ ~\E j \in 1 .. Started \ {i} : IsReading(j)
      BY <1>2, <1>7, <2>3
    <3>2. n \in 1 .. Taken
      BY <1>2, <1>10, <2>3, <3>1
    <3>3. ~Holds
      BY <1>2, <1>3, <3>1 DEF Holds, Result, IsReading
    <3>4. QED
      BY <1>1, <2>3, <3>2, <3>3 DEF SeenInv
  <2>4. SeenInv'
    BY <1>1, <1>2, <2>3 DEF SeenInv
  <2>5. QED
    BY <2>2, <2>4
<1>11. CASE ReadsTo(i, [kind |-> sent[Taken + 1], n |-> Taken + 1]) /\ Taken' = Taken + 1 /\ sent[Taken + 1] \in Kinds
  <2> DEFINE f == [kind |-> sent[Taken + 1], n |-> Taken + 1]
  <2>1. f \in Showable /\ f.kind = sent[Taken + 1] /\ f.n = Taken + 1
    BY <1>2, <1>11 DEF Showable, Frames
  <2>2. ReadsTo(i, f)
    BY <1>11
  <2> HIDE DEF f
  <2>3. /\ i # Started => Result' = Result
        /\ i = Started => Result' = f
    BY <1>1, <2>1, <2>2, ReadersAfter
  <2>4. ResultInv'
    <3>1. CASE Result' = Result
      <4>1. Holds' = Holds
        BY <1>6, <3>1, Zenon DEF Holds
      <4>2. QED
        BY <1>1, <1>2, <3>1, <4>1 DEF ResultInv
    <3>2. CASE i = Started
      <4>1. \A k \in 1 .. Len(events) : events[k] < Taken + 1
        BY <1>1, <1>2 DEF EventsInv
      <4>2. Taken + 1 \in 1 .. Taken'
        BY <1>2, <1>11
      <4>3. QED
        BY <1>2, <2>1, <2>3, <3>2, <4>1, <4>2 DEF ResultInv
    <3>3. QED
      BY <2>3, <3>1, <3>2
  <2>5. ASSUME cutAt > FrameCap, at # "failed", NEW n \in 1 .. Taken', sent[n] = "event"
        PROVE  (\E k \in 1 .. Len(events) : events[k] = n) \/ (Holds' /\ Result'.n = n)
    <3>1. i = Started /\ Waiting
      BY <1>2, <1>7, <2>5
    <3>2. ~Holds
      BY <1>2, <1>3, <3>1 DEF Holds, Result, IsReading
    <3>3. CASE n \in 1 .. Taken
      BY <1>1, <2>5, <3>2, <3>3 DEF SeenInv
    <3>4. CASE n = Taken + 1
      BY <1>6, <1>11, <2>1, <2>3, <3>1, <3>4 DEF Holds
    <3>5. QED
      BY <1>2, <1>11, <3>3, <3>4
  <2>6. SeenInv'
    BY <1>1, <1>2, <2>5 DEF SeenInv
  <2>7. ReadersInv'
    BY <1>9, <1>11, <2>1, <2>2, Zenon
  <2>8. QED
    BY <1>4, <1>5, <2>4, <2>6, <2>7
<1>12. "ping" # "event" /\ "bad" # "event"
  OBVIOUS
<1>13. ASSUME NEW r \in Showable, ReadsTo(i, r), r = Reading \/ r = Failure,
              \/ Taken' = Taken
              \/ Taken' = Taken + 1 /\ sent[Taken + 1] # "event"
              \/ \E j \in 1 .. Started \ {i} : IsReading(j)
       PROVE  CutInv' /\ ReadersInv' /\ ResultInv' /\ EventsInv' /\ SeenInv'
  BY <1>3, <1>4, <1>5, <1>9, <1>10, <1>13, Zenon
<1>14. QED
  <2>1. \/ readers' = readers /\ Taken' = Taken
        \/ ReadsTo(i, Reading) /\ Taken' = Taken + 1 /\ sent[Taken + 1] = "ping"
        \/ ReadsTo(i, Failure) /\ Taken' = Taken + 1 /\ sent[Taken + 1] = "bad"
        \/ ReadsTo(i, [kind |-> sent[Taken + 1], n |-> Taken + 1]) /\ Taken' = Taken + 1 /\ sent[Taken + 1] \in Kinds
        \/ ReadsTo(i, Failure) /\ \E j \in 1 .. Started \ {i} : IsReading(j)
        \/ ReadsTo(i, Failure) /\ Taken' = Taken
    BY <1>1, ReaderEffects
  <2>2. QED
    BY <1>3, <1>4, <1>5, <1>8, <1>11, <1>12, <1>13, <2>1, Zenon

(* What the server sends goes to the end of the wire.                      *)
LEMMA SendKeeps ==
  ASSUME SubIInv, NEW kind \in Kinds, ServerSends(kind)
  PROVE  StreamInv' /\ CutInv' /\ ReadersInv' /\ ResultInv' /\ EventsInv' /\ SeenInv'
<1>1. SubTyped /\ StreamInv /\ CutInv /\ ReadersInv /\ ResultInv /\ EventsInv /\ SeenInv
  BY DEF SubIInv
<1>2. /\ Len(sent) \in Nat /\ Len(buffer) \in Nat /\ Len(wire) \in Nat /\ Len(events) \in Nat
      /\ Started \in Nat /\ FrameCap \in Nat
      /\ sent \in Seq(Kinds) /\ wire \in Seq(Frames) /\ Len(sent) <= FrameCap
  BY <1>1, SubTypes DEF SubTyped
<1>3. /\ sent' = Append(sent, kind) /\ wire' = Append(wire, [kind |-> kind, n |-> Len(sent) + 1])
      /\ link = "open" /\ link' = link
      /\ at' = at /\ buffer' = buffer /\ readers' = readers /\ events' = events /\ cutAt' = cutAt
  BY Zenon DEF ServerSends
<1>4. [kind |-> kind, n |-> Len(sent) + 1] \in Frames
  BY <1>2 DEF Frames
<1>5. /\ Len(sent') = Len(sent) + 1 /\ sent'[Len(sent) + 1] = kind /\ \A n \in 1 .. Len(sent) : sent'[n] = sent[n]
      /\ Len(wire') = Len(wire) + 1 /\ wire'[Len(wire) + 1] = [kind |-> kind, n |-> Len(sent) + 1]
      /\ \A k \in 1 .. Len(wire) : wire'[k] = wire[k]
  BY <1>2, <1>3, <1>4, Appended
<1>6. Taken \in Nat /\ Taken <= Len(sent) /\ Taken = Len(sent) - Len(buffer) - Len(wire)
      /\ Len(buffer) + Len(wire) <= Len(sent)
  BY <1>1, <1>2 DEF Taken, StreamInv
<1>7. Taken' = Taken
  <2>1. Taken' = (Len(sent) + 1) - Len(buffer) - (Len(wire) + 1)
    BY <1>3, <1>5, Zenon DEF Taken
  <2>2. QED
    BY <1>2, <1>6, <2>1
<1>8. StreamInv'
  <2>1. Len(buffer') + Len(wire') <= Len(sent')
    BY <1>2, <1>3, <1>5, <1>6
  <2>2. ASSUME NEW k \in 1 .. Len(buffer') PROVE buffer'[k] = [kind |-> sent'[Taken + k], n |-> Taken + k]
    <3>1. k \in 1 .. Len(buffer) /\ Taken + k \in 1 .. Len(sent)
      BY <1>2, <1>3, <1>6
    <3>2. buffer[k] = [kind |-> sent[Taken + k], n |-> Taken + k] /\ sent'[Taken + k] = sent[Taken + k]
      BY <1>1, <1>5, <3>1 DEF StreamInv
    <3>3. QED
      BY <1>3, <3>2, Zenon
  <2>3. ASSUME NEW k \in 1 .. Len(wire')
        PROVE  wire'[k] = [kind |-> sent'[Taken + Len(buffer) + k], n |-> Taken + Len(buffer) + k]
    <3>1. CASE k \in 1 .. Len(wire)
      <4>1. Taken + Len(buffer) + k \in 1 .. Len(sent)
        BY <1>2, <1>6, <3>1
      <4>2. wire[k] = [kind |-> sent[Taken + Len(buffer) + k], n |-> Taken + Len(buffer) + k]
        BY <1>1, <3>1 DEF StreamInv
      <4>3. wire'[k] = wire[k] /\ sent'[Taken + Len(buffer) + k] = sent[Taken + Len(buffer) + k]
        BY <1>5, <3>1, <4>1
      <4>4. QED
        BY <4>2, <4>3, Zenon
    <3>2. CASE k = Len(wire) + 1
      <4>1. Taken + Len(buffer) + k = Len(sent) + 1
        BY <1>2, <1>6, <3>2
      <4>2. QED
        BY <1>5, <3>2, <4>1, Zenon
    <3>3. QED
      BY <1>2, <1>5, <3>1, <3>2
  <2>4. QED
    BY <1>3, <1>7, <2>1, <2>2, <2>3, Zenon DEF StreamInv
<1>9. Started' = Started /\ Result' = Result /\ (\A k : IsReading(k)' <=> IsReading(k))
      /\ Waiting' = Waiting /\ Holds' = Holds
  BY <1>3, Zenon DEF Started, Result, IsReading, Waiting, Holds
<1>10. cutAt = FrameCap + 1 /\ CutInv'
  BY <1>1, <1>3 DEF CutInv
<1>11. ReadersInv'
  BY <1>1, <1>3, <1>9, Zenon DEF ReadersInv
<1>12. \A n \in 1 .. Taken : n \in 1 .. Len(sent)
  BY <1>2, <1>6
<1>13. ResultInv'
  BY <1>1, <1>3, <1>5, <1>7, <1>9, <1>12, Zenon DEF ResultInv
<1>14. EventsInv'
  BY <1>1, <1>3, <1>5, <1>7, <1>12 DEF EventsInv
<1>15. SeenInv'
  <2>1. \A i \in 1 .. Len(events) : \A n \in 1 .. events[i] : sent'[n] = sent[n]
    BY <1>1, <1>2, <1>5, <1>6, SubTypes DEF EventsInv
  <2>2. \A n \in 1 .. Taken : sent'[n] = sent[n]
    BY <1>5, <1>12
  <2>3. \A i \in 1 .. Len(events) : \A n \in 1 .. events[i] :
          sent'[n] = "event" => \E j \in 1 .. i : events[j] = n
    BY <1>1, <1>2, <1>10, <2>1 DEF SeenInv
  <2>4. at # "failed" => \A n \in 1 .. Taken : sent'[n] = "event" =>
          (\E i \in 1 .. Len(events) : events[i] = n) \/ (Holds /\ Result.n = n)
    BY <1>1, <1>2, <1>10, <2>2 DEF SeenInv
  <2>5. QED
    BY <1>3, <1>7, <1>9, <2>3, <2>4, Zenon DEF SeenInv
<1>16. QED
  BY <1>8, <1>10, <1>11, <1>13, <1>14, <1>15

(* A goroutine that was just started shows nothing.                        *)
LEMMA StartKeeps ==
  ASSUME SubIInv, (Upgrade /\ StartReader) \/ NextCall \/ Skip
  PROVE  CutInv' /\ ReadersInv' /\ ResultInv' /\ EventsInv' /\ SeenInv'
<1>1. SubTyped /\ StreamInv /\ CutInv /\ ReadersInv /\ ResultInv /\ EventsInv /\ SeenInv
  BY DEF SubIInv
<1>2. /\ FrameCap \in Nat /\ Started \in Nat /\ Started = Len(readers) /\ readers \in Seq(Showable)
      /\ Gone \in Showable /\ Reading \in Showable
  BY <1>1, SubTypes DEF SubTyped, Started, Showable
<1>3. /\ sent' = sent /\ wire' = wire /\ buffer' = buffer /\ events' = events /\ cutAt' = cutAt
      /\ at' \in {"ack", "next"} /\ (at = "dial" => at' = "dial")
      /\ \/ at \in {"upgrade", "idle"} /\ readers' = Append(readers, Reading) /\ (at' = "next" \/ at = "upgrade")
         \/ /\ at = "next" /\ at' = at /\ Result.kind \in {"ack", "other"}
            /\ readers' = Append([readers EXCEPT ![Started] = Gone], Reading)
  BY DEF Upgrade, NextCall, Skip, StartReader, netVars
<1>4. link' = link
  <2>1. CASE Upgrade /\ StartReader
    <3>1. readers' # readers
      <4>1. readers' = Append(readers, Reading)
        BY <2>1, Zenon DEF StartReader
      <4>2. Len(readers') = Len(readers) + 1
        BY <1>2, <4>1, Appended
      <4>3. QED
        BY <1>2, <4>2
    <3>2. QED
      BY <2>1, <3>1, Zenon DEF Upgrade
  <2>2. CASE NextCall \/ Skip
    BY <2>2, Zenon DEF NextCall, Skip, netVars
  <2>3. QED
    BY <2>1, <2>2
<1>5. CutInv'
  BY <1>1, <1>3, <1>4 DEF CutInv
<1>6. /\ Started' = Started + 1 /\ Result' = Reading
      /\ \A k \in 1 .. Started :
           readers'[k] = readers[k] \/ (k = Started /\ readers'[k] = Gone /\ at = "next")
      /\ at # "next" => \A k \in 1 .. Started : readers'[k] = readers[k]
      /\ at = "next" => \A k \in 1 .. Started : k = Started => readers'[k] = Gone
  <2>1. CASE readers' = Append(readers, Reading) /\ at \in {"upgrade", "idle"}
    <3>1. Len(readers') = Started + 1 /\ readers'[Started + 1] = Reading /\ \A k \in 1 .. Started : readers'[k] = readers[k]
      BY <1>2, <2>1, Appended
    <3>2. QED
      BY <2>1, <3>1 DEF Started, Result
  <2>2. CASE readers' = Append([readers EXCEPT ![Started] = Gone], Reading) /\ at = "next"
    <3> DEFINE t == [readers EXCEPT ![Started] = Gone]
    <3>1. t \in Seq(Showable) /\ Len(t) = Started /\ \A k \in 1 .. Started : t[k] = IF k = Started THEN Gone ELSE readers[k]
      BY <1>2, Replaced
    <3>2. readers' = Append(t, Reading)
      BY <2>2
    <3> HIDE DEF t
    <3>3. Len(readers') = Started + 1 /\ readers'[Started + 1] = Reading /\ \A k \in 1 .. Started : readers'[k] = t[k]
      BY <1>2, <3>1, <3>2, Appended
    <3>4. Started' = Started + 1 /\ Result' = Reading
      BY <3>3 DEF Started, Result
    <3>5. QED
      BY <2>2, <3>1, <3>3, <3>4
  <2>3. QED
    BY <1>3, <2>1, <2>2, Zenon
<1>7. Reading.kind \notin Kinds /\ Gone # Reading
  BY DEF Reading, Gone, Kinds
<1>8. ~Holds' /\ Waiting' /\ Taken' = Taken
  BY <1>3, <1>6, <1>7, Zenon DEF Holds, Waiting, Taken
<1>9. ReadersInv'
  <2>1. ASSUME cutAt > FrameCap, NEW k \in 1 .. Started, IsReading(k)' PROVE FALSE
    <3>1. CASE at = "next"
      <4>1. k # Started
        BY <1>6, <1>7, <2>1, <3>1 DEF IsReading
      <4>2. IsReading(k)
        BY <1>6, <2>1, <4>1 DEF IsReading
      <4>3. QED
        BY <1>1, <2>1, <4>1, <4>2 DEF ReadersInv
    <3>2. CASE at # "next"
      <4>1. IsReading(k) /\ ~Waiting
        BY <1>3, <1>6, <2>1, <3>2 DEF IsReading, Waiting
      <4>2. QED
        BY <1>1, <2>1, <4>1 DEF ReadersInv
    <3>3. QED
      BY <3>1, <3>2
  <2>2. \A k \in 1 .. Started' : k \in 1 .. Started \/ k = Started'
    BY <1>2, <1>6
  <2>3. Started' > 0
    BY <1>2, <1>6
  <2>4. QED
    BY <1>3, <1>8, <2>1, <2>2, <2>3 DEF ReadersInv
<1>10. ResultInv'
  BY <1>8 DEF ResultInv
<1>11. EventsInv'
  <2>1. at' \notin {"idle", "next"} => events' = <<>>
    BY <1>1, <1>3 DEF EventsInv
  <2>2. QED
    BY <1>1, <1>3, <1>8, <2>1 DEF EventsInv
<1>12. SeenInv'
  <2>1. ASSUME cutAt > FrameCap, NEW n \in 1 .. Taken, sent[n] = "event"
        PROVE  \E i \in 1 .. Len(events) : events[i] = n
    <3>1. ~(Holds /\ Result.n = n)
      BY <1>1, <1>3, <2>1 DEF Holds, Waiting, ResultInv
    <3>2. at # "failed"
      BY <1>3
    <3>3. QED
      BY <1>1, <2>1, <3>1, <3>2 DEF SeenInv
  <2>2. QED
    BY <1>1, <1>3, <1>8, <2>1 DEF SeenInv
<1>13. QED
  BY <1>5, <1>9, <1>10, <1>11, <1>12

(* The answer that the caller takes is the next event, or none.            *)
LEMMA TakeKeeps ==
  ASSUME SubIInv, Acknowledged \/ NextReturns
  PROVE  CutInv' /\ ReadersInv' /\ ResultInv' /\ EventsInv' /\ SeenInv'
<1>1. SubTyped /\ StreamInv /\ CutInv /\ ReadersInv /\ ResultInv /\ EventsInv /\ SeenInv
  BY DEF SubIInv
<1>2. /\ FrameCap \in Nat /\ Started \in Nat /\ Started = Len(readers) /\ readers \in Seq(Showable)
      /\ Len(events) \in Nat /\ events \in Seq(Nat) /\ Gone \in Showable
  BY <1>1, SubTypes DEF SubTyped, Started, Showable
<1>3. /\ sent' = sent /\ wire' = wire /\ buffer' = buffer /\ cutAt' = cutAt
      /\ link' = link \/ link' = "shut"
      /\ at' \in {"idle", "failed"} /\ Waiting /\ ReadsTo(Started, Gone)
      /\ \/ at = "ack" /\ events' = events /\ (at' = "idle" => Result.kind = "ack")
         \/ at' = "idle" /\ Result.kind # "event" /\ events' = events
         \/ at' = "idle" /\ Result.kind = "event" /\ events' = Append(events, Result.n)
  BY DEF Acknowledged, NextReturns, TakeAnswer, ReadsTo, Waiting, netVars
<1>4. Started \in 1 .. Started
  BY <1>1, <1>2, <1>3 DEF ReadersInv
<1>5. /\ Started' = Started /\ \A k \in 1 .. Started : readers'[k] = IF k = Started THEN Gone ELSE readers[k]
      /\ Taken' = Taken /\ ~Waiting' /\ ~Holds'
  <2>1. ~Waiting' /\ ~Holds' /\ Taken' = Taken
    BY <1>3 DEF Waiting, Holds, Taken
  <2>2. QED
    BY <1>1, <1>2, <1>3, <1>4, <2>1, ReadersAfter
<1>6. CutInv'
  BY <1>1, <1>3 DEF CutInv
<1>7. ReadersInv'
  <2>1. ASSUME cutAt > FrameCap, NEW k \in 1 .. Started, IsReading(k)' PROVE FALSE
    <3>1. Gone # Reading
      BY DEF Gone, Reading
    <3>2. k # Started /\ IsReading(k)
      BY <1>5, <2>1, <3>1 DEF IsReading
    <3>3. QED
      BY <1>1, <2>1, <3>2 DEF ReadersInv
  <2>2. QED
    BY <1>3, <1>5, <2>1 DEF ReadersInv
<1>8. ResultInv'
  BY <1>5 DEF ResultInv
<1>9. CASE events' = events /\ (at' = "idle" => Result.kind # "event")
  <2>1. EventsInv'
    <3>1. at' \notin {"idle", "next"} => events' = <<>>
      BY <1>1, <1>3, <1>9 DEF EventsInv
    <3>2. QED
      BY <1>1, <1>3, <1>5, <1>9, <3>1 DEF EventsInv
  <2>2. ASSUME cutAt > FrameCap, at' # "failed", NEW n \in 1 .. Taken, sent[n] = "event"
        PROVE  \E i \in 1 .. Len(events) : events[i] = n
    <3>1. ~(Holds /\ Result.n = n)
      BY <1>1, <1>3, <1>9, <2>2 DEF ResultInv
    <3>2. at # "failed"
      BY <1>3 DEF Waiting
    <3>3. QED
      BY <1>1, <2>2, <3>1, <3>2 DEF SeenInv
  <2>3. SeenInv'
    BY <1>1, <1>3, <1>5, <1>9, <2>2 DEF SeenInv
  <2>4. QED
    BY <1>6, <1>7, <1>8, <2>1, <2>3
<1>10. CASE at' = "idle" /\ Result.kind = "event" /\ events' = Append(events, Result.n)
  <2> DEFINE m == Result.n
             L == Len(events)
  <2>1. Holds /\ m \in 1 .. Taken /\ sent[m] = "event" /\ \A i \in 1 .. L : events[i] < m
    BY <1>1, <1>3, <1>10 DEF Holds, ResultInv, Kinds
  <2>2. m \in Nat /\ L \in Nat /\ Taken \in Nat
    BY <1>1, <1>2, <2>1, SubTypes DEF StreamInv, Taken
  <2>3. Len(events') = L + 1 /\ events'[L + 1] = m /\ \A i \in 1 .. L : events'[i] = events[i]
    BY <1>2, <1>10, <2>2, Appended
  <2> HIDE DEF m, L
  <2>4. \A i \in 1 .. L + 1 : i \in 1 .. L \/ i = L + 1
    BY <2>2
  <2>5. EventsInv'
    <3>1. \A i \in 1 .. L : events[i] \in 1 .. Taken /\ sent[events[i]] = "event"
      BY <1>1 DEF EventsInv, L
    <3>2. \A i, j \in 1 .. L : i < j => events[i] < events[j]
      BY <1>1 DEF EventsInv, L
    <3>3. \A i \in 1 .. L + 1 : events'[i] \in 1 .. Taken /\ sent[events'[i]] = "event"
      BY <2>1, <2>3, <2>4, <3>1
    <3>4. ASSUME NEW i \in 1 .. L + 1, NEW j \in 1 .. L + 1, i < j PROVE events'[i] < events'[j]
      <4>1. i \in 1 .. L
        BY <2>2, <3>4
      <4>2. CASE j \in 1 .. L
        BY <2>3, <3>2, <3>4, <4>1, <4>2
      <4>3. CASE j = L + 1
        BY <2>1, <2>3, <4>1, <4>3
      <4>4. QED
        BY <2>4, <4>2, <4>3
    <3>5. QED
      BY <1>3, <1>5, <1>10, <2>3, <3>3, <3>4 DEF EventsInv
  <2>6. ASSUME cutAt > FrameCap, NEW n \in 1 .. Taken, sent[n] = "event"
        PROVE  n = m \/ \E i \in 1 .. L : events[i] = n
    <3>1. at # "failed"
      BY <1>3 DEF Waiting
    <3>2. QED
      BY <1>1, <2>6, <3>1 DEF SeenInv, m, L
  <2>7. SeenInv'
    <3>1. ASSUME cutAt > FrameCap, NEW i \in 1 .. L + 1, NEW n \in 1 .. events'[i], sent[n] = "event"
          PROVE  \E j \in 1 .. i : events'[j] = n
      <4>1. CASE i \in 1 .. L
        <5>1. PICK j \in 1 .. i : events[j] = n
          BY <1>1, <2>3, <3>1, <4>1 DEF SeenInv, L
        <5>2. j \in 1 .. L
          BY <2>2, <4>1
        <5>3. QED
          BY <2>3, <5>1, <5>2
      <4>2. CASE i = L + 1
        <5>1. n \in 1 .. Taken
          BY <2>1, <2>2, <2>3, <3>1, <4>2
        <5>2. CASE n = m
          BY <2>2, <2>3, <4>2, <5>2
        <5>3. CASE \E j \in 1 .. L : events[j] = n
          <6>1. PICK j \in 1 .. L : events[j] = n
            BY <5>3
          <6>2. j \in 1 .. i /\ events'[j] = n
            BY <2>2, <2>3, <4>2, <6>1
          <6>3. QED
            BY <6>2
        <5>4. QED
          BY <2>6, <3>1, <5>1, <5>2, <5>3
      <4>3. QED
        BY <2>4, <4>1, <4>2
    <3>2. ASSUME cutAt > FrameCap, NEW n \in 1 .. Taken, sent[n] = "event"
          PROVE  \E i \in 1 .. L + 1 : events'[i] = n
      <4>1. CASE n = m
        BY <2>2, <2>3, <4>1
      <4>2. CASE \E j \in 1 .. L : events[j] = n
        <5>1. PICK j \in 1 .. L : events[j] = n
          BY <4>2
        <5>2. j \in 1 .. L + 1 /\ events'[j] = n
          BY <2>2, <2>3, <5>1
        <5>3. QED
          BY <5>2
      <4>3. QED
        BY <2>6, <3>2, <4>1, <4>2
    <3>3. QED
      BY <1>3, <1>5, <2>3, <3>1, <3>2, Zenon DEF SeenInv
  <2>8. QED
    BY <1>6, <1>7, <1>8, <2>5, <2>7
<1>11. QED
  <2>1. "ack" # "event"
    OBVIOUS
  <2>2. QED
    BY <1>3, <1>9, <1>10, <2>1, Zenon

(* Nothing read, nothing returned: what was seen stays seen.               *)
LEMMA SeenKeeps ==
  ASSUME SeenInv, UNCHANGED <<at, sent, events, cutAt>>, Taken' = Taken, Result' = Result, Holds' = Holds
  PROVE  SeenInv'
<1>1. \A n : (Holds' /\ Result'.n = n) <=> (Holds /\ Result.n = n)
  BY Zenon
<1>2. ASSUME cutAt > FrameCap
      PROVE  \A i \in 1 .. Len(events) : \A n \in 1 .. events[i] :
               sent[n] = "event" => \E j \in 1 .. i : events[j] = n
  BY <1>2, Zenon DEF SeenInv
<1>3. ASSUME cutAt > FrameCap, at # "failed"
      PROVE  \A n \in 1 .. Taken : sent[n] = "event" =>
               (\E i \in 1 .. Len(events) : events[i] = n) \/ (Holds' /\ Result'.n = n)
  BY <1>1, <1>3, Zenon DEF SeenInv
<1>4. QED
  BY <1>2, <1>3, Zenon DEF SeenInv

(* The other steps read nothing; Cut shuts the connection, after which     *)
(* nothing is claimed of the events that are left.                         *)
LEMMA QuietKeeps ==
  ASSUME SubIInv, Dial \/ Cut \/ CloseSub \/ ServerEnds \/ ContextEnds \/ (Upgrade /\ ~StartReader)
  PROVE  CutInv' /\ ReadersInv' /\ ResultInv' /\ EventsInv' /\ SeenInv'
<1>1. SubTyped /\ StreamInv /\ CutInv /\ ReadersInv /\ ResultInv /\ EventsInv /\ SeenInv
  BY DEF SubIInv
<1>2. FrameCap \in Nat /\ Len(sent) \in Nat /\ Len(sent) <= FrameCap /\ cutAt \in Nat
  BY <1>1, SubTypes DEF SubTyped
<1>3. UNCHANGED <<readers, sent, wire, buffer, events>>
  BY Zenon DEF Dial, Cut, CloseSub, ServerEnds, ContextEnds, Upgrade, netVars
<1>4. Started' = Started /\ Result' = Result /\ Taken' = Taken /\ \A k : IsReading(k)' <=> IsReading(k)
  BY <1>3, Zenon DEF Started, Result, Taken, IsReading
<1>5. ASSUME cutAt' = cutAt, at' = at, link' = link \/ (link' = "shut" /\ at # "dial")
      PROVE  CutInv' /\ ReadersInv' /\ ResultInv' /\ EventsInv' /\ SeenInv'
  <2>1. Waiting' = Waiting /\ Holds' = Holds
    BY <1>4, <1>5, Zenon DEF Waiting, Holds
  <2>2. CutInv'
    BY <1>1, <1>3, <1>5 DEF CutInv
  <2>3. ReadersInv' /\ ResultInv'
    BY <1>1, <1>3, <1>4, <1>5, <2>1, Zenon DEF ReadersInv, ResultInv
  <2>4. EventsInv'
    BY <1>1, <1>3, <1>4, <1>5, Zenon DEF EventsInv
  <2>5. SeenInv'
    BY <1>1, <1>3, <1>4, <1>5, <2>1, SeenKeeps
  <2>6. QED
    BY <2>2, <2>3, <2>4, <2>5
<1>6. ASSUME at \in {"dial", "upgrade"}, at' \in {"upgrade", "failed"}, cutAt' = cutAt,
             at = "dial" \/ link' = "shut"
      PROVE  CutInv' /\ ReadersInv' /\ ResultInv' /\ EventsInv' /\ SeenInv'
  <2>1. ~Waiting /\ ~Waiting' /\ ~Holds /\ ~Holds' /\ at # "failed"
    BY <1>6 DEF Waiting, Holds
  <2>2. CutInv'
    BY <1>1, <1>2, <1>3, <1>6 DEF CutInv
  <2>3. ReadersInv' /\ ResultInv'
    BY <1>1, <1>3, <1>4, <1>6, <2>1, Zenon DEF ReadersInv, ResultInv
  <2>4. events = <<>>
    BY <1>1, <1>6 DEF EventsInv
  <2>5. EventsInv'
    BY <1>1, <1>3, <1>4, <2>4, Zenon DEF EventsInv
  <2>6. SeenInv'
    <3>1. Len(events) = 0
      BY <2>4
    <3>2. cutAt > FrameCap => \A n \in 1 .. Taken : sent[n] # "event"
      BY <1>1, <2>1, <3>1 DEF SeenInv
    <3>3. QED
      BY <1>3, <1>4, <1>6, <3>1, <3>2 DEF SeenInv
  <2>7. QED
    BY <2>2, <2>3, <2>5, <2>6
<1>7. CASE Cut
  <2>1. /\ at \in {"ack", "next"} /\ at' = (IF at = "ack" THEN "failed" ELSE "idle")
        /\ link' = "shut" /\ cutAt' = IF cutAt > FrameCap THEN Len(sent) ELSE cutAt
    BY <1>7 DEF Cut
  <2>2. cutAt' = Len(sent) /\ ~(cutAt' > FrameCap)
    BY <1>1, <1>2, <2>1 DEF CutInv
  <2>3. ~Waiting' /\ ~Holds' /\ at' # "dial"
    BY <2>1 DEF Waiting, Holds
  <2>4. CutInv'
    BY <1>3, <2>1, <2>2, <2>3 DEF CutInv
  <2>5. ReadersInv' /\ ResultInv' /\ SeenInv'
    BY <2>2, <2>3, Zenon DEF ReadersInv, ResultInv, SeenInv
  <2>6. at' \notin {"idle", "next"} => events = <<>>
    BY <1>1, <2>1 DEF EventsInv
  <2>7. EventsInv'
    BY <1>1, <1>3, <1>4, <2>6, Zenon DEF EventsInv
  <2>8. QED
    BY <2>4, <2>5, <2>7
<1>8. CASE CloseSub \/ ServerEnds \/ ContextEnds
  <2>1. cutAt' = cutAt /\ at' = at /\ (link' = link \/ (link' = "shut" /\ at # "dial"))
    BY <1>8 DEF CloseSub, ServerEnds, ContextEnds, netVars
  <2>2. QED
    BY <1>5, <2>1
<1>9. CASE Dial \/ (Upgrade /\ ~StartReader)
  <2>1. /\ at \in {"dial", "upgrade"} /\ at' \in {"upgrade", "failed"} /\ cutAt' = cutAt
        /\ at = "dial" \/ link' = "shut"
    BY <1>9, Zenon DEF Dial, Upgrade
  <2>2. QED
    BY <1>6, <2>1
<1>10. QED
  BY <1>7, <1>8, <1>9

(* Steps that leave the stream alone leave what is still to be read alone. *)
LEMMA StreamKeeps ==
  ASSUME StreamInv, UNCHANGED <<sent, wire, buffer>>
  PROVE  StreamInv'
  BY Zenon DEF StreamInv, Taken

(* Every step keeps the invariant.                                         *)
LEMMA SubStepKeeps == ASSUME SubIInv, [SubNext]_subVars PROVE SubIInv'
<1>1. SubTyped /\ StreamInv /\ ReadersInv
  BY DEF SubIInv
<1>2. CASE UNCHANGED subVars
  <2>1. UNCHANGED <<at, link, server, wire, buffer, sent, readers, events, cutAt>>
    BY <1>2 DEF subVars, netVars
  <2>2. Started' = Started /\ Result' = Result /\ Taken' = Taken /\ (\A k : IsReading(k)' <=> IsReading(k))
        /\ Waiting' = Waiting /\ Holds' = Holds
    BY <2>1, Zenon DEF Started, Result, Taken, IsReading, Waiting, Holds
  <2>3. SubTyped' /\ StreamInv' /\ CutInv'
    BY <2>1, Zenon DEF SubIInv, SubTyped, StreamInv, CutInv, Taken
  <2>4. ReadersInv' /\ ResultInv' /\ EventsInv'
    BY <2>1, <2>2, Zenon DEF SubIInv, ReadersInv, ResultInv, EventsInv
  <2>5. SeenInv'
    BY <2>1, <2>2, SeenKeeps DEF SubIInv
  <2>6. QED
    BY <2>3, <2>4, <2>5 DEF SubIInv
<1>3. SubNext => SubTyped'
  BY <1>1, SubTypedKeeps
<1>4. ASSUME SubNext, UNCHANGED <<sent, wire, buffer>>,
             CutInv' /\ ReadersInv' /\ ResultInv' /\ EventsInv' /\ SeenInv'
      PROVE  SubIInv'
  BY <1>1, <1>3, <1>4, StreamKeeps DEF SubIInv
<1>5. ASSUME SubNext, (Upgrade /\ StartReader) \/ NextCall \/ Skip PROVE SubIInv'
  <2>1. UNCHANGED <<sent, wire, buffer>>
    BY <1>5, Zenon DEF Upgrade, NextCall, Skip, netVars
  <2>2. QED
    BY <1>4, <1>5, <2>1, StartKeeps
<1>6. ASSUME SubNext, Acknowledged \/ NextReturns PROVE SubIInv'
  <2>1. UNCHANGED <<sent, wire, buffer>>
    BY <1>6, Zenon DEF Acknowledged, NextReturns, netVars
  <2>2. QED
    BY <1>4, <1>6, <2>1, TakeKeeps
<1>7. ASSUME SubNext, Dial \/ Cut \/ CloseSub \/ ServerEnds \/ ContextEnds \/ (Upgrade /\ ~StartReader)
      PROVE  SubIInv'
  <2>1. UNCHANGED <<sent, wire, buffer>>
    BY <1>7, Zenon DEF Dial, Cut, CloseSub, ServerEnds, ContextEnds, Upgrade, netVars
  <2>2. QED
    BY <1>4, <1>7, <2>1, QuietKeeps
<1>8. ASSUME SubNext, NEW i \in 1 .. Started, ReaderStep(i) PROVE SubIInv'
  <2>1. StreamInv'
    BY <1>1, <1>8, ReaderEffects
  <2>2. QED
    BY <1>3, <1>8, <2>1, ReadKeeps DEF SubIInv
<1>9. ASSUME SubNext, NEW kind \in Kinds, ServerSends(kind) PROVE SubIInv'
  BY <1>3, <1>9, SendKeeps DEF SubIInv
<1>10. QED
  <2>1. SubNext \/ UNCHANGED subVars
    OBVIOUS
  <2>2. CASE SubNext
    <3>1. CASE CallerStep
      BY <2>2, <3>1, <1>5, <1>6, <1>7, Zenon DEF CallerStep
    <3>2. CASE CloseSub \/ ServerEnds \/ ContextEnds
      BY <2>2, <3>2, <1>7, Zenon
    <3>3. QED
      BY <2>2, <3>1, <3>2, <1>8, <1>9, Zenon DEF SubNext
  <2>3. QED
    BY <1>2, <2>1, <2>2

(* The invariant says of the events what EventsInOrder promises.           *)
LEMMA SubIInvSays == SubIInv => EventsInOrder
<1>. SUFFICES ASSUME SubIInv PROVE EventsInOrder
  OBVIOUS
<1>1. SubTyped /\ StreamInv /\ CutInv /\ EventsInv /\ SeenInv
  BY DEF SubIInv
<1>2. /\ FrameCap \in Nat /\ Len(sent) \in Nat /\ Len(buffer) \in Nat /\ Len(wire) \in Nat
      /\ Len(sent) <= FrameCap /\ cutAt \in {FrameCap + 1, Len(sent)}
  BY <1>1, SubTypes DEF SubTyped, CutInv
<1>3. Taken \in Nat /\ Taken <= Len(sent)
  BY <1>1, <1>2 DEF StreamInv, Taken
<1>4. \A i \in 1 .. Len(events) : events[i] <= cutAt /\ sent[events[i]] = "event"
  BY <1>1, <1>2, <1>3 DEF EventsInv
<1>5. QED
  BY <1>1, <1>4 DEF EventsInv, SeenInv, EventsInOrder

(* subscription.go:165-190 and 277-294: whatever the server sends, however *)
(* the goroutines are scheduled and whenever calls are cut short, Next     *)
(* returns events in the order they were sent, each once, and none is      *)
(* passed over before a call was cut short.                                *)
THEOREM EventsComeInOrder == MCSpec => []EventsInOrder
<1>1. MCInit => SubIInv
  BY SubStartsIInv DEF MCInit
<1>2. MCNext => [SubNext]_subVars
  BY Zenon DEF MCNext
<1>3. SubIInv /\ [MCNext]_mcVars => SubIInv'
  <2>1. UNCHANGED mcVars => UNCHANGED subVars
    BY Zenon DEF mcVars
  <2>2. QED
    BY <1>2, <2>1, SubStepKeeps
<1>. QED
  BY <1>1, <1>3, SubIInvSays, PTL DEF MCSpec
=============================================================================
