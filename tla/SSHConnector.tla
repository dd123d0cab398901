---------------------------- MODULE SSHConnector ----------------------------
(***************************************************************************)
(* connector/ssh: one connector from Setup to Teardown (ssh.go), its remote*)
(* commands (command.go, session.go) and its tunnels (tunnel.go).  A       *)
(* tunnel is a listener with a goroutine that accepts and is counted by    *)
(* tunnelWg; every connection it accepts is forwarded by a goroutine that  *)
(* is not counted.  Programs on this machine open and close connections.   *)
(*                                                                         *)
(* Parameters, host keys and addresses are left out: a call that refuses   *)
(* them changes nothing.  Bounds: Tunnels and Conns are the tunnels and    *)
(* connections that can be opened.                                         *)
(***************************************************************************)
EXTENDS Naturals, FiniteSets

CONSTANTS Tunnels, Conns

VARIABLES phase,     \* "new", "ready", "failed", "exec", "waiting", "closing", "down", or "off"
          client,    \* c.client: "nil", or the state of the client it points to
          closed,    \* c.closed is closed
          listeners, \* c.listeners
          listening, \* the listeners that are open
          accepting, \* the accepting goroutines, which tunnelWg counts
          conns,     \* where each connection is
          tunnelOf,  \* the tunnel a connection was made to
          session,   \* the remote command: "none", "running", "killed", "over"
          stepEnded, \* the context of the step is over
          crashed    \* a goroutine has dereferenced nil: the process is gone

tunnelVars == <<listeners, listening, accepting>>
tunnelConns == <<conns, tunnelOf>>
execVars == <<session, stepEnded>>
sshVars == <<phase, client, closed, tunnelVars, tunnelConns, execVars, crashed>>

SSHStarts(p) ==
  /\ phase = p /\ client = "nil" /\ closed = FALSE
  /\ listeners = {} /\ listening = {} /\ accepting = {}
  /\ conns = [c \in Conns |-> "none"] 
  /\ tunnelOf \in IF p = "off" THEN {[c \in Conns |-> CHOOSE t \in Tunnels : TRUE]} ELSE [Conns -> Tunnels]
  /\ session = "none" /\ stepEnded = FALSE /\ crashed = FALSE

Alive == ~crashed
-----------------------------------------------------------------------------
(* The runner calls Setup, Execute and Teardown one after the other.       *)

\* configuration, context and dialling; a failed Setup is not torn down
Setup ==
  /\ phase = "new"
  /\ \/ phase' = "ready" /\ client' = "up"
     \/ phase' = "failed" /\ UNCHANGED client
  /\ UNCHANGED <<closed, tunnelVars, tunnelConns, execVars, crashed>>

\* executeTunnel, when its parameters are right and the port is free
ExecuteTunnel(t) ==
  /\ phase = "ready" /\ client # "nil" /\ t \notin listening
  /\ listeners' = listeners \cup {t} /\ listening' = listening \cup {t}
  /\ accepting' = accepting \cup {t}
  /\ UNCHANGED <<phase, client, closed, tunnelConns, execVars, crashed>>

\* executeCommand: a session and a goroutine that runs the command in it
ExecuteCommand ==
  /\ phase = "ready" /\ client = "up" /\ session \in {"none", "over"}
  /\ phase' = "exec" /\ session' = "running" /\ stepEnded' = FALSE
  /\ UNCHANGED <<client, closed, tunnelVars, tunnelConns, crashed>>

\* the remote command ends, by itself or because the session is closed
CommandEnds ==
  /\ session \in {"running", "killed"} /\ session' = "over"
  /\ UNCHANGED <<phase, client, closed, tunnelVars, tunnelConns, stepEnded, crashed>>

\* runErr = <-done
CommandReturns ==
  /\ phase = "exec" /\ session = "over" /\ phase' = "ready"
  /\ UNCHANGED <<client, closed, tunnelVars, tunnelConns, execVars, crashed>>

\* case <-ctx.Done(): SIGKILL, and the deferred closeSession
CommandCut ==
  /\ phase = "exec" /\ stepEnded /\ phase' = "ready"
  /\ session' = IF session = "over" THEN "over" ELSE "killed"
  /\ UNCHANGED <<client, closed, tunnelVars, tunnelConns, stepEnded, crashed>>

\* variant: the listeners are forgotten but not closed
TeardownForgets ==
  /\ phase = "ready" /\ phase' = "waiting"
  /\ closed' = TRUE /\ listeners' = {}
  /\ UNCHANGED <<client, listening, accepting, tunnelConns, execVars, crashed>>

\* Teardown signals, closes the listeners, which drops the connections they
\* hold, ...
TeardownCloses ==
  /\ phase = "ready" /\ phase' = "waiting"
  /\ closed' = TRUE
  /\ listening' = listening \ listeners /\ listeners' = {}
  /\ conns' = [c \in Conns |-> IF conns[c] = "dialled" /\ tunnelOf[c] \in listeners THEN "over" ELSE conns[c]]
  /\ UNCHANGED <<client, accepting, tunnelOf, execVars, crashed>>

\* waits for the accepting goroutines, closes the client ...
TeardownWaits ==
  /\ phase = "waiting" /\ accepting = {}
  /\ phase' = "closing" /\ client' = "shut"
  /\ UNCHANGED <<closed, tunnelVars, tunnelConns, execVars, crashed>>

\* ... and forgets it
TeardownForgetsClient ==
  /\ phase = "closing" /\ phase' = "down" /\ client' = "nil"
  /\ UNCHANGED <<closed, tunnelVars, tunnelConns, execVars, crashed>>

RunnerStep ==
  \/ Setup \/ \E t \in Tunnels : ExecuteTunnel(t)
  \/ ExecuteCommand \/ CommandReturns \/ CommandCut
  \/ TeardownCloses \/ TeardownWaits \/ TeardownForgetsClient
-----------------------------------------------------------------------------
(* acceptTunnelConns and forwardTunnelConn.                                *)

Move(c, from, to) == conns[c] = from /\ conns' = [conns EXCEPT ![c] = to]
Only(what) == UNCHANGED <<phase, client, closed, tunnelOf, execVars>> /\ what

Accept(c) ==
  /\ tunnelOf[c] \in accepting \cap listening /\ Move(c, "dialled", "accepted")
  /\ Only(UNCHANGED <<tunnelVars, crashed>>)

\* any error ends the goroutine, a passing one of an open listener too
AcceptFails(t) ==
  /\ t \in accepting /\ accepting' = accepting \ {t}
  /\ Only(UNCHANGED <<listeners, listening, conns, crashed>>)

\* if c.client == nil
Check(c) ==
  /\ Move(c, "accepted", IF client = "nil" THEN "over" ELSE "checked")
  /\ Only(UNCHANGED <<tunnelVars, crashed>>)

\* c.client.Dial reads the pointer again; the remote side may refuse
DialRemote(c) ==
  /\ \/ client = "up" /\ Move(c, "checked", "copying") /\ UNCHANGED crashed
     \/ client # "nil" /\ Move(c, "checked", "over") /\ UNCHANGED crashed
     \/ client = "nil" /\ Move(c, "checked", "over") /\ crashed' = TRUE
  /\ Only(UNCHANGED tunnelVars)

\* a copy has ended, as it does when the client is closed, or c.closed tells
CopyEnds(c) ==
  /\ closed \/ client # "up"
  /\ Move(c, "copying", "over") /\ Only(UNCHANGED <<tunnelVars, crashed>>)

TunnelStep ==
  \/ \E c \in Conns : Accept(c) \/ Check(c) \/ DialRemote(c) \/ CopyEnds(c)
  \/ \E t \in Tunnels : AcceptFails(t)

\* the programs at both ends of a tunnel, and the end of the step's time
Dialled(c) ==
  /\ tunnelOf[c] \in listening /\ Move(c, "none", "dialled")
  /\ Only(UNCHANGED <<tunnelVars, crashed>>)
PeerCloses(c) == Move(c, "copying", "over") /\ Only(UNCHANGED <<tunnelVars, crashed>>)
StepEnds ==
  /\ phase = "exec" /\ ~stepEnded /\ stepEnded' = TRUE
  /\ UNCHANGED <<phase, client, closed, tunnelVars, tunnelConns, session, crashed>>

SSHNext ==
  /\ Alive
  /\ \/ RunnerStep \/ TunnelStep \/ CommandEnds \/ StepEnds
     \/ \E c \in Conns : Dialled(c) \/ PeerCloses(c)

\* goroutines that can run are run, and a killed command ends
SSHFairness ==
  /\ WF_sshVars(Alive /\ (TeardownWaits \/ TeardownForgetsClient))
  /\ WF_sshVars(Alive /\ session = "killed" /\ CommandEnds)
  /\ \A t \in Tunnels : WF_sshVars(Alive /\ t \notin listening /\ AcceptFails(t))
  /\ \A c \in Conns : WF_sshVars(Alive /\ (Check(c) \/ DialRemote(c) \/ CopyEnds(c)))
-----------------------------------------------------------------------------
(* ssh.go:141 "Teardown closes the SSH connection and cleans up all        *)
(* resources": a Teardown that was called returns, and all that it left    *)
(* running comes to an end: forwarding goroutines, which it does not wait  *)
(* for (tunnel.go:99), and the goroutine of a command that was cut off.    *)
(* The exception is a goroutine that reads the client before and after     *)
(* Teardown has set it to nil (lines 107-111), which ends the process.     *)
TeardownDrains ==
  phase = "waiting" ~>
    \/ crashed
    \/ /\ phase = "down" /\ session # "killed"
       /\ \A c \in Conns : conns[c] \in {"none", "over"}
=============================================================================
