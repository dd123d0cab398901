---------------------------- MODULE StaticProvider ----------------------------
(***************************************************************************)
(* provider/static/provider.go: the fleet provider whose hosts exist       *)
(* already.  Acquire hands out its configured nodes, Execute and Push run  *)
(* over one cached SSH client per address, Teardown closes the clients.    *)
(* The dialling is done with the mutex held (getOrDial, 178-189); a        *)
(* command runs after it is given back.  What the SSH server answers is a  *)
(* choice.                                                                 *)
(***************************************************************************)
EXTENDS Naturals, Sequences, FiniteSets

CONSTANTS Workers,      \* goroutines that execute commands on hosts
          Nodes         \* len(config.Nodes); node n has address n

Addresses == 1 .. Nodes
None == 0

ASSUME NodesAssumption == Nodes \in Nat
ASSUME WorkersAssumption == None \notin Workers

VARIABLES conns,    \* the addresses in p.conns
          open,     \* how many SSH clients are open to each address
          mu,       \* the worker that holds p.mu, None when it is free
          exec      \* each worker's call: where it is and which address

staticVars == <<conns, open, mu, exec>>

Idle == [at |-> "idle", addr |-> None]

StaticInit ==
  /\ conns = {}
  /\ open = [a \in Addresses |-> 0]
  /\ mu = None
  /\ exec = [x \in Workers |-> Idle]

ExecGoes(x, from, to) == exec[x].at = from /\ exec' = [exec EXCEPT ![x].at = to]

\* the addresses of the hosts Acquire(n) returns: the first n nodes, whatever
\* was handed out before
FirstNodes(n) == [k \in 1 .. n |-> k]

\* Execute or Push on the host with address a
Execute(x, a) ==
  /\ exec[x] = Idle
  /\ exec' = [exec EXCEPT ![x] = [at |-> "locking", addr |-> a]]
  /\ UNCHANGED <<conns, open, mu>>

\* getOrDial: the cached client, or a dial with p.mu held
Found(x) ==
  /\ mu = None
  /\ exec[x].addr \in conns
  /\ ExecGoes(x, "locking", "running")
  /\ UNCHANGED <<conns, open, mu>>

\* variant: the cache is read under the mutex, the dialling is not
DialUnlocked(x) ==
  /\ mu = None
  /\ exec[x].addr \notin conns
  /\ ExecGoes(x, "locking", "dialling")
  /\ UNCHANGED <<conns, open, mu>>

Dial(x) ==
  /\ mu = None
  /\ exec[x].addr \notin conns
  /\ ExecGoes(x, "locking", "dialling")
  /\ mu' = x
  /\ UNCHANGED <<conns, open>>

DialSucceeds(x) ==
  /\ ExecGoes(x, "dialling", "running")
  /\ conns' = conns \cup {exec[x].addr}
  /\ open' = [open EXCEPT ![exec[x].addr] = @ + 1]
  /\ mu' = None

DialFails(x) ==
  /\ exec[x].at = "dialling"
  /\ exec' = [exec EXCEPT ![x] = Idle]
  /\ mu' = None
  /\ UNCHANGED <<conns, open>>

\* the command ends, or breaks off because its client was closed
EndCommand(x) ==
  /\ exec[x].at = "running"
  /\ exec' = [exec EXCEPT ![x] = Idle]
  /\ UNCHANGED <<conns, open, mu>>

\* Teardown closes every client, also one whose Close reports an error
CloseAll ==
  /\ mu = None
  /\ open' = [a \in Addresses |-> IF a \in conns THEN open[a] - 1 ELSE open[a]]
  /\ conns' = {}
  /\ UNCHANGED <<mu, exec>>

CallStep(x) ==
  Found(x) \/ Dial(x) \/ DialSucceeds(x) \/ DialFails(x) \/ EndCommand(x)
-----------------------------------------------------------------------------
(* Two executions on one host share one client: the clients that are open  *)
(* are the ones in the cache, so that Teardown reaches every one that is   *)
(* open by then (an execution that dials after it leaves its own client).  *)
NoConnectionLost ==
  \A a \in Addresses : open[a] = IF a \in conns THEN 1 ELSE 0
=============================================================================
