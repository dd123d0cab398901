---------------------------- MODULE MCConnections ----------------------------
(***************************************************************************)
(* The clients that hold connections, each on its own: in every behaviour  *)
(* one of them runs and the others stay as they are.                       *)
(***************************************************************************)
EXTENDS CDPClient, Subscription, SSHConnector

CONSTANTS c1, c2

mcVars == <<vars, subVars, sshVars>>

Others == at = "off" /\ phase = "off"

MCInit ==
  /\ Init
  /\ \/ SubStarts("off") /\ SSHStarts("off")
     \/ SubStarts("dial") /\ SSHStarts("off")
     \/ SubStarts("off") /\ SSHStarts("new")

MCNext ==
  \/ Others /\ Next /\ UNCHANGED <<subVars, sshVars>>
  \/ at # "off" /\ SubNext /\ UNCHANGED <<vars, sshVars>>
  \/ phase # "off" /\ SSHNext /\ UNCHANGED <<vars, subVars>>

\* Fairness of CDPClient, for the behaviours in which it is the one that runs
CDPFairness ==
  /\ WF_vars(Others /\ Reader) /\ WF_vars(Others /\ \E i \in requests : Answer(i))
  /\ \A x \in Callers : WF_vars(Others /\ Caller(x))

\* nothing of the other two is enabled in a behaviour in which it is "off"
MCSpec == MCInit /\ [][MCNext]_mcVars /\ CDPFairness /\ SubFairness /\ SSHFairness
=============================================================================
