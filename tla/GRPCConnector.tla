---------------------------- MODULE GRPCConnector ----------------------------
(***************************************************************************)
(* connector/grpc: one step.  The method is looked up by reflection        *)
(* (reflect.go:31-261), the call is made (unary.go, stream.go), and the    *)
(* runner tears the connector down.  The server answers, or falls silent,  *)
(* or ends the call when it likes; the context may end at any moment.      *)
(* Messages has the conversion of what is sent and received.               *)
(*                                                                         *)
(* File 1 is the one that defines the service.  Flow control lets Window   *)
(* messages wait in each direction.                                        *)
(*                                                                         *)
(* Bounds: MessageCap messages to send, ResponseCap to receive.            *)
(***************************************************************************)
EXTENDS Naturals

CONSTANTS Servers,      \* records: needs (the imports of each file), knows (the files
                        \* the server hands out), namesakes (files with a service of the
                        \* same name in another package), methods (where it has the method)
          MessageCap, ResponseCap, Window

ASSUME WindowAssumption == Window \in Nat \ {0}

VARIABLES rpcAt,     \* "off", "lookup", "fetch", "find", "open", "send", "receive",
                     \* "teardown", "done"
          server, shape, parts, spoilt,   \* the method, messages to send, the one that
                                          \* does not fit its type (0: none)
          have,      \* files fetched
          missing,   \* files of this round not asked for yet
          resolved,  \* the file the method was taken from
          streams,   \* streams that have not ended
          sent, up, down, heard,   \* messages sent, on their way up and down, received
          handler,   \* "none", "idle", "writing", "ok", "failed"
          answers,   \* messages the handler has written
          mute,      \* the server does nothing any more
          rpcOver,   \* the context has ended
          rpcSaid    \* "none", "error" of Execute, or the status of the result: "ok",
                     \* "status" (another one of the server), "cancelled"

methodVars == <<server, shape, parts, spoilt>>
lookupVars == <<have, missing, resolved>>
flowVars == <<sent, up, down, heard>>
serverVars == <<handler, answers, mute>>
rpcVars == <<rpcAt, methodVars, lookupVars, streams, flowVars, serverVars, rpcOver, rpcSaid>>

Sending == {"client", "bidi"}    \* shapes with a list of messages to send
Receiving == {"server", "bidi"}

RPCStarts(place) ==
  /\ rpcAt = place
  /\ server \in IF place = "off" THEN {<<>>} ELSE Servers
  /\ shape \in IF place = "off" THEN {"unary"} ELSE {"unary", "client", "server", "bidi"}
  /\ parts \in IF shape \in Sending THEN 0 .. MessageCap ELSE {1}
  /\ spoilt \in IF place = "off" THEN {0} ELSE 0 .. parts
  /\ have = {} /\ missing = {} /\ resolved = 0 /\ streams = {}
  /\ sent = 0 /\ up = 0 /\ down = 0 /\ heard = 0
  /\ handler = "none" /\ answers = 0 /\ mute = FALSE
  /\ rpcOver = FALSE /\ rpcSaid = "none"

\* Execute returns, and streams stay as they are
RPCReturns(result) == rpcAt' = "teardown" /\ rpcSaid' = result
-----------------------------------------------------------------------------
(* resolveMethod.                                                          *)

\* the server sends the file of the service, and other files if it likes
AskForService ==
  /\ rpcAt = "lookup"
  /\ \/ /\ ~rpcOver /\ ~mute
        /\ have' \in {files \in SUBSET server.knows : 1 \in files}
        /\ streams' = {"reflection"} /\ rpcAt' = "fetch" /\ UNCHANGED rpcSaid
     \/ (~mute \/ rpcOver) /\ RPCReturns("error") /\ UNCHANGED <<have, streams>>
  /\ UNCHANGED <<methodVars, missing, resolved, flowVars, serverVars, rpcOver>>

\* variant: the imports of fetched files are not looked at
CollectMissingOnce ==
  /\ rpcAt = "fetch" /\ missing = {}
  /\ missing' = IF have = {1} THEN server.needs[1] ELSE {}
  /\ rpcAt' = IF missing' = {} THEN "find" ELSE "fetch"
  /\ UNCHANGED <<methodVars, have, resolved, streams, flowVars, serverVars, rpcOver, rpcSaid>>

\* collectMissingDeps, at the top of each round of resolveTransitiveDeps
CollectMissing ==
  /\ rpcAt = "fetch" /\ missing = {}
  /\ missing' = (UNION {server.needs[f] : f \in have}) \ have
  /\ rpcAt' = IF missing' = {} THEN "find" ELSE "fetch"
  /\ UNCHANGED <<methodVars, have, resolved, streams, flowVars, serverVars, rpcOver, rpcSaid>>

\* fetchFileByName; a file that the server does not have brings nothing, and no error
Fetch(f) ==
  /\ rpcAt = "fetch" /\ f \in missing
  /\ \/ /\ ~mute /\ "reflection" \in streams
        /\ have' \in IF f \in server.knows THEN {have \cup files : files \in {s \in SUBSET server.knows : f \in s}}
                                           ELSE {have}
        /\ missing' = missing \ {f} /\ UNCHANGED <<rpcAt, rpcSaid>>
     \/ (~mute \/ rpcOver) /\ RPCReturns("error") /\ UNCHANGED <<have, missing>>
  /\ UNCHANGED <<methodVars, resolved, streams, flowVars, serverVars, rpcOver>>

\* buildFileDescriptors may refuse the files; findMethod takes them in any order, and
\* the first service of that name decides
FindMethod ==
  /\ rpcAt = "find"
  /\ \/ RPCReturns("error") /\ UNCHANGED resolved
     \/ \E f \in have \cap ({1} \cup server.namesakes) :
          /\ resolved' = f
          /\ IF f \in server.methods THEN rpcAt' = "open" /\ UNCHANGED rpcSaid ELSE RPCReturns("error")
  /\ UNCHANGED <<methodVars, have, missing, streams, flowVars, serverVars, rpcOver>>
-----------------------------------------------------------------------------
(* executeUnary and the three stream actions: all messages are sent before *)
(* the first one is received.                                              *)

\* a single message is built before the stream is opened; Invoke turns a failure of
\* its own into a status
Open ==
  /\ rpcAt = "open"
  /\ \/ shape \notin Sending /\ spoilt = 1 /\ RPCReturns("error") /\ UNCHANGED <<streams, handler>>
     \/ /\ shape \in Sending \/ spoilt = 0
        /\ \/ /\ ~rpcOver /\ rpcAt' = "send" /\ streams' = streams \cup {"call"} /\ handler' = "idle"
              /\ UNCHANGED rpcSaid
           \/ /\ RPCReturns(IF shape # "unary" THEN "error" ELSE IF rpcOver THEN "cancelled" ELSE "status")
              /\ UNCHANGED <<streams, handler>>
  /\ UNCHANGED <<methodVars, lookupVars, flowVars, answers, mute, rpcOver>>

\* SendMsg blocks while the window is full.  After the end of the call it fails for a
\* list of messages, once the client knows of the end; a single one is let pass.
SendMsg ==
  /\ rpcAt = "send" /\ sent < parts
  /\ \/ shape \in Sending /\ spoilt = sent + 1 /\ RPCReturns("error") /\ UNCHANGED <<sent, up>>
     \/ ~(shape \in Sending /\ spoilt = sent + 1)
        /\ \/ up < Window /\ up' = up + 1 /\ sent' = sent + 1 /\ UNCHANGED <<rpcAt, rpcSaid>>
           \/ /\ "call" \notin streams /\ UNCHANGED up
              /\ IF shape \in Sending THEN RPCReturns("error") /\ UNCHANGED sent
                                      ELSE sent' = sent + 1 /\ UNCHANGED <<rpcAt, rpcSaid>>
  /\ UNCHANGED <<methodVars, lookupVars, streams, down, heard, serverVars, rpcOver>>

CloseSend ==
  /\ rpcAt = "send" /\ sent = parts /\ rpcAt' = "receive"
  /\ UNCHANGED <<methodVars, lookupVars, streams, flowVars, serverVars, rpcOver, rpcSaid>>

RecvMsg ==
  /\ rpcAt = "receive" /\ down > 0
  /\ down' = down - 1 /\ heard' = heard + 1
  /\ UNCHANGED <<rpcAt, methodVars, lookupVars, streams, sent, up, serverVars, rpcOver, rpcSaid>>

\* variant: the end of the call is taken before the messages that precede it
RecvEndEarly ==
  /\ rpcAt = "receive"
  /\ \/ handler = "ok" /\ RPCReturns("ok")
     \/ handler = "failed" /\ RPCReturns("status")
     \/ rpcOver /\ RPCReturns("cancelled")
  /\ UNCHANGED <<methodVars, lookupVars, streams, flowVars, serverVars, rpcOver>>

\* the status comes after all messages, unless the context has ended
RecvEnd ==
  /\ rpcAt = "receive"
  /\ \/ down = 0 /\ handler = "ok" /\ RPCReturns("ok")
     \/ down = 0 /\ handler = "failed" /\ RPCReturns("status")
     \/ rpcOver /\ RPCReturns("cancelled")
  /\ UNCHANGED <<methodVars, lookupVars, streams, flowVars, serverVars, rpcOver>>

\* variant: the connection is forgotten, not closed
TeardownForgets ==
  /\ rpcAt = "teardown" /\ rpcAt' = "done"
  /\ UNCHANGED <<methodVars, lookupVars, streams, flowVars, serverVars, rpcOver, rpcSaid>>

\* conn.Close ends what is left: the reflection stream, of which only the sending half
\* was closed, and a call that was given up
CloseConn ==
  /\ rpcAt = "teardown" /\ rpcAt' = "done" /\ streams' = {}
  /\ UNCHANGED <<methodVars, lookupVars, flowVars, serverVars, rpcOver, rpcSaid>>

RPCStep ==
  \/ AskForService \/ CollectMissing \/ (\E f \in missing : Fetch(f)) \/ FindMethod \/ Open
  \/ SendMsg \/ CloseSend \/ RecvMsg \/ RecvEnd \/ CloseConn
-----------------------------------------------------------------------------
(* The server, and the context.                                            *)

InCall == "call" \in streams /\ ~mute

HandlerReads ==
  /\ InCall /\ handler = "idle" /\ up > 0 /\ up' = up - 1
  /\ UNCHANGED <<rpcAt, methodVars, lookupVars, streams, sent, down, heard, serverVars, rpcOver, rpcSaid>>

\* it sends a message, and reads nothing until there is room for it
HandlerSends ==
  /\ InCall /\ handler = "idle" /\ handler' = "writing"
  /\ answers < (IF shape \in Receiving THEN ResponseCap ELSE 1)
  /\ UNCHANGED <<rpcAt, methodVars, lookupVars, streams, flowVars, answers, mute, rpcOver, rpcSaid>>
HandlerSent ==
  /\ InCall /\ handler = "writing" /\ down < Window
  /\ down' = down + 1 /\ answers' = answers + 1 /\ handler' = "idle"
  /\ UNCHANGED <<rpcAt, methodVars, lookupVars, streams, sent, up, heard, mute, rpcOver, rpcSaid>>

HandlerReturns ==
  /\ InCall /\ handler = "idle"
  /\ handler' \in IF shape \in Receiving \/ answers = 1 THEN {"ok", "failed"} ELSE {"failed"}
  /\ streams' = streams \ {"call"}
  /\ UNCHANGED <<rpcAt, methodVars, lookupVars, flowVars, answers, mute, rpcOver, rpcSaid>>

ConnectionBreaks ==
  /\ InCall /\ handler' = "failed" /\ streams' = {}
  /\ UNCHANGED <<rpcAt, methodVars, lookupVars, flowVars, answers, mute, rpcOver, rpcSaid>>

ReflectionEnds ==
  /\ ~mute /\ "reflection" \in streams /\ rpcAt \notin {"lookup", "fetch"}
  /\ streams' = streams \ {"reflection"}
  /\ UNCHANGED <<rpcAt, methodVars, lookupVars, flowVars, serverVars, rpcOver, rpcSaid>>

ServerFallsSilent ==
  /\ rpcAt \notin {"off", "done"} /\ ~mute /\ mute' = TRUE
  /\ UNCHANGED <<rpcAt, methodVars, lookupVars, streams, flowVars, handler, answers, rpcOver, rpcSaid>>

RPCContextEnds ==
  /\ rpcAt \notin {"off", "done"} /\ ~rpcOver /\ rpcOver' = TRUE /\ streams' = {}
  /\ UNCHANGED <<rpcAt, methodVars, lookupVars, flowVars, serverVars, rpcSaid>>

Handler == HandlerReads \/ HandlerSends \/ HandlerSent \/ HandlerReturns

RPCNext == RPCStep \/ Handler \/ ConnectionBreaks \/ ReflectionEnds \/ ServerFallsSilent \/ RPCContextEnds

\* the step goes on, and so does a server that is not silent
RPCFairness == WF_rpcVars(RPCStep) /\ WF_rpcVars(Handler)
-----------------------------------------------------------------------------
(* What a result says of its call is true (stream.go:36-57, 204-222): the  *)
(* status is OK only when the handler has ended so, no message was left    *)
(* out and no response lost; another status is the handler's own or the    *)
(* context's.  The handler's status is lost when it ends a call to which   *)
(* messages are still being sent: that is reported as an error of sending. *)
(* The types of a message that is sent are complete, and those of the      *)
(* method that is called if no other service of its name was fetched.      *)
CallAccounted ==
  /\ rpcSaid = "ok" => handler = "ok" /\ sent = parts /\ heard = answers
  /\ rpcSaid = "status" => handler = "failed" \/ (shape = "unary" /\ handler = "none")
  /\ rpcSaid = "cancelled" => rpcOver
  /\ rpcSaid = "error" /\ handler # "none" =>
       spoilt > 0 \/ rpcOver \/ (handler \in {"ok", "failed"} /\ shape \in Sending)
  /\ handler # "none" =>
       /\ \A f \in have : server.needs[f] \subseteq have
       /\ server.namesakes \cap have = {} => resolved = 1

(* Teardown leaves no stream behind, on whichever way the step is left.    *)
NoStreamLeft == rpcAt = "done" => streams = {}

\* the server waits for its answers to be read, and the client for its messages to be
Jam == rpcAt = "send" /\ sent < parts /\ up = Window /\ handler = "writing" /\ down = Window

(* A step whose context ends comes back.  Any other comes back unless the  *)
(* server falls silent, a file imports one that the server does not have   *)
(* (resolveTransitiveDeps then asks for it for ever), or a bidirectional   *)
(* call jams (stream.go:179-190).                                          *)
RPCEnds ==
  /\ rpcOver ~> rpcAt = "done"
  /\ rpcAt = "lookup" ~> \/ rpcAt = "done" \/ mute \/ Jam
                         \/ \E f \in have : ~(server.needs[f] \subseteq server.knows)
=============================================================================
