---------------------------- MODULE MCStepRunner ----------------------------
(***************************************************************************)
(* The runner of a test, and what happens inside the calls it makes: in a  *)
(* behaviour either the runner takes two-step tests in which the second    *)
(* step may use what the first one captures, or one step of a connector    *)
(* runs (a command, a browser, a remote call), or a call of core/retry.    *)
(***************************************************************************)
EXTENDS StepRunner, CLIProcess, BrowserConnector, GRPCConnector, Retry

CONSTANTS v, w

MCVars == {v, w}

Plain(c) == [connector |-> c, uses |-> {}, captures |-> {}, asserts |-> 1]

MCTests ==
  { <<>>,
    <<[connector |-> "known", uses |-> {}, captures |-> {v, w}, asserts |-> 2],
      [connector |-> "known", uses |-> {v, w}, captures |-> {}, asserts |-> 1]>>,
    <<[connector |-> "known", uses |-> {v}, captures |-> {w}, asserts |-> 0],
      Plain("none")>>,
    <<Plain("known"), Plain("unknown"), Plain("known")>> }

\* the imports of files 2 and 3 may have to be asked for; another service of the name
\* has the method or not; a file that is imported may not be there
ServerOf(imports, knows, namesakes, methods) ==
  [needs |-> imports, knows |-> knows, namesakes |-> namesakes, methods |-> methods]
MCServers ==
  { ServerOf(<<{}, {}, {}>>, {1}, {}, {}),
    ServerOf(<<{2}, {3}, {}>>, {1, 2, 3}, {}, {1}),
    ServerOf(<<{2, 3}, {}, {}>>, {1, 2, 3}, {2}, {1}),
    ServerOf(<<{2, 3}, {}, {}>>, {1, 2, 3}, {2}, {1, 2}),
    ServerOf(<<{2}, {3}, {}>>, {1, 2}, {}, {1}) }
-----------------------------------------------------------------------------
RunnerOff ==
  /\ test = <<>> /\ ctxDone = FALSE /\ pc = "off" /\ step = 1 /\ live = {} /\ store = {}
  /\ toCapture = {} /\ checked = 0 /\ ok = TRUE /\ results = <<>> /\ reported = <<>>
  /\ tel = <<>> /\ cov = [runs |-> 0, steps |-> 0, passedAsserts |-> 0, failedAsserts |-> 0]

MCInit ==
  \E part \in {"runner", "command", "browser", "call", "retry"} :
    /\ IF part = "runner" THEN Init ELSE RunnerOff
    /\ ExecStarts(IF part = "command" THEN "start" ELSE "off")
    /\ BrowserStarts(IF part = "browser" THEN "launch" ELSE "off")
    /\ RPCStarts(IF part = "call" THEN "lookup" ELSE "off")
    /\ RetryStarts(IF part = "retry" THEN {"do", "timeout", "until"} ELSE {"off"})

\* nothing of a part that is "off" is enabled
MCNext ==
  \/ pc # "off" /\ Next /\ UNCHANGED <<execVars, browserVars, rpcVars, retryVars>>
  \/ ExecNext /\ UNCHANGED <<vars, browserVars, rpcVars, retryVars>>
  \/ BrowserNext /\ UNCHANGED <<vars, execVars, rpcVars, retryVars>>
  \/ RPCNext /\ UNCHANGED <<vars, execVars, browserVars, retryVars>>
  \/ RetryNext /\ UNCHANGED <<vars, execVars, browserVars, rpcVars>>

MCSpec ==
  /\ MCInit /\ [][MCNext]_<<vars, execVars, browserVars, rpcVars, retryVars>>
  /\ WF_vars(Step) /\ ExecFairness /\ BrowserFairness /\ RPCFairness /\ RetryFairness
-----------------------------------------------------------------------------
\* whatever a step has brought up is gone when the next one begins (core/engine/
\* runner.go:160-170, connector/cli/process.go, browser/browser.go, grpc/grpc.go)
NothingOutlivesStep == NoConnectorOutlivesStep /\ NoCommandLeft /\ BrowserGone /\ NoStreamLeft

\* what a call says has happened did happen (connector/cli/process.go, grpc/stream.go,
\* core/retry)
CallsTruthful == CommandAccounted /\ CallAccounted /\ RetrySound

\* a call comes back, at the latest when its context ends, but for the cases that its
\* module names
CallsReturn == CommandCutShort /\ BrowserStepEnds /\ RPCEnds /\ TimeoutHonoured
=============================================================================
