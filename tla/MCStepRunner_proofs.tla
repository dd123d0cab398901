------------------------- MODULE MCStepRunner_proofs -------------------------
(***************************************************************************)
(* Proofs about the runner of a test (StepRunner) and about what happens   *)
(* inside the calls it makes (CLIProcess, BrowserConnector, GRPCConnector, *)
(* Retry): nothing that a step has brought up outlives it, what a call     *)
(* says has happened did happen, the verdict of a test rests on its steps, *)
(* and its records are in brackets.                                        *)
(*                                                                         *)
(* Each part has an inductive invariant of its own, and one lemma for each *)
(* group of its actions; the steps of the other parts leave its variables  *)
(* alone.  What is recursive (the powers of a multiplier, the assertions   *)
(* of the steps so far) is typed with the lemmas of Induction.             *)
(***************************************************************************)
EXTENDS MCStepRunner, Induction, FiniteSetTheorems
-----------------------------------------------------------------------------
(* core/engine/runner.go.                                                  *)

Places == {"off", "enter", "check", "start", "lookup", "setup", "interpolate", "execute", "capture",
           "assert", "teardown", "report", "verdict", "done"}

\* the places that have a step, and the ones of them with its connector up
InStep == {"start", "lookup", "setup", "interpolate", "execute", "capture", "assert", "teardown", "report"}
Connected == {"interpolate", "execute", "capture", "assert", "teardown"}

Verdicts == {"TestPass", "TestFail"}
Lifecycle == {"StepStart", "ConnectorSetup", "StepEnd", "ConnectorTeardown"}
Events == Verdicts \cup Lifecycle \cup {"TestStart", "Assertion", "Error"}

Counts == [runs : Nat, steps : Nat, passedAsserts : Nat, failedAsserts : Nat]

\* where the variables of a test range
RunnerTyped ==
  /\ test \in Seq(StepRecord)
  /\ ctxDone \in BOOLEAN
  /\ pc \in Places
  /\ step \in 1 .. Len(test) + 1
  /\ pc \in InStep => step <= Len(test)
  /\ checked \in Nat
  /\ ok \in BOOLEAN
  /\ results \in Seq(BOOLEAN) /\ reported \in Seq(BOOLEAN)
  /\ tel \in Seq(Events \X Nat)
  /\ cov \in Counts

\* the connector of the step that is running is up, no other one ever is
ConnectorsUp == live = IF pc \in Connected THEN {step} ELSE {}

\* the events that the log may hold of the current step
WrittenAt(p) ==
  IF p \in {"off", "enter", "check", "start"} THEN {"TestStart"}
  ELSE IF p = "lookup" THEN {"TestStart", "StepStart"}
  ELSE IF p \in {"setup", "interpolate", "execute", "capture"}
    THEN {"TestStart", "StepStart", "ConnectorSetup"}
  ELSE IF p = "assert" THEN {"TestStart", "StepStart", "ConnectorSetup", "Assertion"}
  ELSE IF p = "teardown" THEN Events \ (Verdicts \cup {"ConnectorTeardown"})
  ELSE Events

\* the records are in the order of the steps, a lifecycle event of a step is there once,
\* nothing but a verdict comes after the teardown of a step, or after a verdict
LogOrdered ==
  /\ \A n \in DOMAIN tel : tel[n][2] <= step /\ (tel[n][2] = step => tel[n][1] \in WrittenAt(pc))
  /\ \A n \in DOMAIN tel : tel[n][1] \in Verdicts => pc = "done" /\ n = Len(tel)
  /\ \A m, n \in DOMAIN tel :
       /\ m < n => tel[m][2] <= tel[n][2]
       /\ tel[m] = tel[n] /\ tel[m][1] \in Lifecycle => m = n
       /\ tel[n] = <<"ConnectorTeardown", tel[m][2]>> /\ m > n => tel[m][1] \in Verdicts

Logged(event, k) == \E n \in DOMAIN tel : tel[n] = <<event, k>>

\* steps 1 .. n have come to their ends, with all their assertions
AllRan(n) ==
  /\ cov.steps = n
  /\ cov.passedAsserts = AssertsUpTo[n]
  /\ \A k \in 1 .. n : Logged("StepEnd", k)

\* what the counts of the coverage tracker say of the steps so far
CountsSoFar ==
  /\ pc \in {"off", "enter", "check", "start", "lookup", "setup", "interpolate", "execute"} => AllRan(step - 1)
  /\ pc \in {"capture", "assert"} =>
       /\ cov.steps = step
       /\ cov.passedAsserts = AssertsUpTo[step - 1] + (IF pc = "assert" THEN checked ELSE 0)
       /\ \A k \in 1 .. step - 1 : Logged("StepEnd", k)
  /\ pc = "assert" => checked <= test[step].asserts
  /\ pc \in {"teardown", "report"} /\ ok => AllRan(step)
  /\ cov.failedAsserts # 0 =>
       \/ pc \in {"teardown", "report"} /\ ~ok
       \/ pc \in {"verdict", "done"} /\ ~passed

\* the results so far, and what has been said of them
VerdictInv ==
  /\ cov.runs = IF pc = "done" THEN 1 ELSE 0
  /\ pc \notin {"verdict", "done"} => Len(results) = step - 1 /\ passed /\ reported = results
  /\ pc \in {"verdict", "done"} =>
       \/ step = Len(test) + 1 /\ Len(results) = Len(test) /\ passed /\ reported = results /\ AllRan(Len(test))
       \/ /\ step <= Len(test) /\ Len(results) = step
          /\ \A k \in DOMAIN results : results[k] <=> k < step
          /\ \/ reported = results
             \/ ctxDone /\ results = Append(reported, FALSE) /\ ~Logged("StepStart", step)

RunnerIInv == RunnerTyped /\ ConnectorsUp /\ LogOrdered /\ CountsSoFar /\ VerdictInv
-----------------------------------------------------------------------------
(* core/retry.                                                             *)

\* where the variables of a call range; a policy matters to Do only
RetryTyped ==
  /\ op \in {"do", "timeout", "until", "off"}
  /\ op = "do" => policy \in Policies
  /\ turn \in {"check", "call", "select", "done"}
  /\ parent \in BOOLEAN /\ timer \in BOOLEAN
  /\ attempt \in 0 .. AttemptCap
  /\ fn \in {"none", "running", "true", "false", "error"}
  /\ wait \in Int
  /\ answer \in {"none", "nil", "error", "context", "timeout"}

\* the answer comes with the end, and a call of fn belongs to a place in the loop
RetryPlaces ==
  /\ turn = "done" <=> answer # "none"
  /\ attempt = 0 <=> fn = "none"
  /\ fn = "running" => op = "timeout" \/ turn = "call"
  /\ fn = "false" => op = "until"
  /\ op = "timeout" => (turn \in {"check", "call"} => fn = "none") /\ (turn = "select" => fn # "none")
  /\ op # "timeout" /\ turn = "select" => fn \in {"false", "error"}
  /\ op = "until" /\ turn \in {"check", "call", "select"} => fn \notin {"true", "error"}

\* Do goes round again only while attempts are left
RetryCounts ==
  op = "do" =>
    /\ turn = "check" => attempt = 0 \/ attempt < policy.attempts
    /\ turn = "call" /\ fn # "running" => attempt < policy.attempts
    /\ turn = "call" /\ fn = "running" => attempt <= policy.attempts
    /\ turn = "select" => attempt < policy.attempts

RetryIInv == RetryTyped /\ RetryPlaces /\ RetryCounts /\ RetrySound
-----------------------------------------------------------------------------
(* connector/cli.                                                          *)

\* a process that was killed had its context ended; one that executeExec waits for, or
\* has waited for, was given all its input
ExecIInv ==
  /\ execAt \in {"start", "feed", "wait", "done", "off"}
  /\ proc \in {"none", "running", "ended", "failed", "killed"}
  /\ execAt \in {"start", "off"} => proc = "none"
  /\ execAt \in {"feed", "wait"} => proc # "none"
  /\ execAt # "done" => outcome = "none"
  /\ execAt = "done" => outcome # "none"
  /\ execAt = "wait" => toFeed = 0
  /\ proc = "killed" => execOver
  /\ CommandAccounted
  /\ NoCommandLeft
-----------------------------------------------------------------------------
(* connector/browser.                                                      *)

\* what each stage of Setup has already brought up, and that only its end waits
BrowserIInv ==
  /\ stage \in {"off", "launch", "listen", "dial", "setup", "ready", "commands", "poll", "detach", "done"}
  /\ stage \in {"off", "launch"} => browser = "none"
  /\ stage \in {"off", "launch", "listen", "dial"} => socket = "none" /\ reader = "none"
  /\ stage # "done" => ~awaited
  /\ BrowserGone
-----------------------------------------------------------------------------
(* connector/grpc.                                                         *)

\* the place of a step in its call; a call is made with a complete set of types
RPCPlaces ==
  /\ rpcAt \in {"off", "lookup", "fetch", "find", "open", "send", "receive", "teardown", "done"}
  /\ rpcAt \notin {"teardown", "done"} => rpcSaid = "none"
  /\ handler \in {"none", "idle", "writing", "ok", "failed"}
  /\ rpcAt \in {"send", "receive"} => handler # "none"
  /\ rpcAt \in {"off", "lookup", "fetch", "find", "open"} => handler = "none" /\ "call" \notin streams

\* the method was found in a file of what was fetched, all imports of which are there
RPCTypes ==
  rpcAt \in {"find", "open", "send", "receive"} \/ handler # "none" =>
    /\ \A f \in have : server.needs[f] \subseteq have
    /\ rpcAt # "find" => resolved \in have \cap ({1} \cup server.namesakes)

\* a handler that has ended has no stream; one without a stream that has not ended has
\* lost it to the context or to the end of the step
RPCHandler ==
  /\ handler \in {"none", "ok", "failed"} => "call" \notin streams
  /\ handler \in {"idle", "writing"} /\ "call" \notin streams => rpcOver \/ rpcAt = "done"

\* no message is lost on the way, and none is left out before the end of the sending
RPCFlow ==
  /\ sent \in Nat /\ down \in Nat /\ heard \in Nat /\ answers \in Nat
  /\ heard + down = answers
  /\ rpcAt = "receive" => sent = parts
  /\ rpcSaid = "ok" => down = 0

RPCIInv == RPCPlaces /\ RPCTypes /\ RPCHandler /\ RPCFlow /\ CallAccounted /\ NoStreamLeft
-----------------------------------------------------------------------------
(* core/retry: proofs.                                                     *)

(* The powers of a multiplier of at least one are at least one.            *)
LEMMA PowPositive ==
  ASSUME policy \in Policies
  PROVE  Pow \in [0 .. AttemptCap -> Nat \ {0}]
<1> DEFINE S == Nat \ {0}
           grow == [p \in (1 .. AttemptCap) \X S |-> policy.multiplier * p[2]]
           F(g) == [n \in 0 .. AttemptCap |-> IF n = 0 THEN 1 ELSE policy.multiplier * g[n - 1]]
<1>1. policy.multiplier \in 1 .. 3 /\ AttemptCap \in Nat
  BY RetryAssumption DEF Policies
<1>2. \A s \in S : policy.multiplier * s \in S
  BY <1>1
<1>3. grow \in [(1 .. AttemptCap) \X S -> S]
  BY <1>2
<1>4. PICK g \in [0 .. AttemptCap -> S] : Follows(g, AttemptCap, 1, grow)
  <2>1. 1 \in S
    OBVIOUS
  <2> HIDE DEF grow, S
  <2>2. QED
    BY <1>1, <1>3, <2>1, RecursionExists
<1>5. g = F(g)
  <2>1. ASSUME NEW n \in 1 .. AttemptCap PROVE g[n] = policy.multiplier * g[n - 1]
    <3>1. n \in 1 .. AttemptCap /\ g[n - 1] \in S
      BY <1>1
    <3>2. grow[<<n, g[n - 1]>>] = policy.multiplier * g[n - 1]
      BY <3>1
    <3>3. QED
      BY <1>4, <3>2 DEF Follows
  <2>2. g[0] = 1
    BY <1>4 DEF Follows
  <2>3. QED
    BY <1>1, <2>1, <2>2
<1>6. Pow = F(Pow)
  BY <1>5, Zenon DEF Pow
<1>7. \A n \in 0 .. AttemptCap : Pow[n] = IF n = 0 THEN 1 ELSE policy.multiplier * Pow[n - 1]
  BY <1>6, Zenon
<1> DEFINE T == {n \in 0 .. AttemptCap : Pow[n] \in S}
<1>8. 0 .. AttemptCap \subseteq T
  <2>1. 0 \in T
    BY <1>1, <1>7
  <2>2. ASSUME NEW n \in 0 .. AttemptCap - 1, n \in T PROVE n + 1 \in T
    <3>1. n + 1 \in 0 .. AttemptCap /\ (n + 1) - 1 = n /\ n + 1 # 0
      BY <1>1
    <3>2. Pow[n + 1] = policy.multiplier * Pow[n]
      BY <1>7, <3>1
    <3>3. QED
      BY <1>2, <2>2, <3>1, <3>2
  <2> HIDE DEF T
  <2>3. QED
    BY <1>1, <2>1, <2>2, IntervalInduction
<1>9. QED
  BY <1>6, <1>8

(* Every call begins like this.                                            *)
LEMMA InitRetry ==
  ASSUME NEW ops, ops \subseteq {"do", "timeout", "until", "off"}, RetryStarts(ops)
  PROVE  RetryIInv
<1>1. RetryTyped
  <2>1. op \in {"do", "timeout", "until", "off"} /\ (op = "do" => policy \in Policies)
    BY Zenon DEF RetryStarts
  <2>2. turn = "check" /\ attempt = 0 /\ fn = "none" /\ wait = 0 /\ answer = "none"
    BY DEF RetryStarts
  <2>3. parent \in BOOLEAN /\ timer \in BOOLEAN
    BY DEF RetryStarts
  <2>4. QED
    BY <2>1, <2>2, <2>3, RetryAssumption DEF RetryTyped
<1>2. RetryPlaces
  BY DEF RetryStarts, RetryPlaces
<1>3. RetryCounts /\ RetrySound
  BY DEF RetryStarts, RetryCounts, RetrySound
<1>4. QED
  BY <1>1, <1>2, <1>3 DEF RetryIInv

(* The check before a call, and the call.                                  *)
LEMMA CheckContextKeeps == ASSUME RetryIInv, CheckContext PROVE RetryIInv'
<1> USE DEF CheckContext, Return, Exhausted
<1>1. RetryTyped'
  BY DEF RetryIInv, RetryTyped
<1>2. RetryPlaces'
  BY DEF RetryIInv, RetryTyped, RetryPlaces
<1>3. RetryCounts'
  BY DEF RetryIInv, RetryTyped, RetryCounts, Policies
<1>4. RetrySound'
  BY DEF RetryIInv, RetryTyped, RetryPlaces, RetryCounts, RetrySound, Policies
<1>5. QED
  BY <1>1, <1>2, <1>3, <1>4 DEF RetryIInv

(* Retry.Do calls the step: one call more, and its outcome is the last.    *)
LEMMA CallKeeps == ASSUME RetryIInv, Call PROVE RetryIInv'
<1> USE DEF Call
<1>1. RetryTyped'
  BY RetryAssumption DEF RetryIInv, RetryTyped
<1>2. RetryPlaces'
  BY RetryAssumption DEF RetryIInv, RetryTyped, RetryPlaces
<1>3. RetryCounts'
  BY DEF RetryIInv, RetryTyped, RetryCounts, Policies
<1>4. RetrySound'
  BY DEF RetryIInv, RetryTyped, RetryPlaces, RetryCounts, RetrySound, Policies
<1>5. QED
  BY <1>1, <1>2, <1>3, <1>4 DEF RetryIInv

(* What fn returns: the wait that may follow is at most MaxWait, and at    *)
(* least one unit unless the power has left its range.                     *)
LEMMA FnReturnsKeeps ==
  ASSUME RetryIInv, NEW r \in {"true", "false", "error"}, FnReturns(r)
  PROVE  RetryIInv'
<1> USE DEF FnReturns, Judge, Return
<1>1. ASSUME op = "do"
      PROVE  /\ Backoff(attempt - 1) \in Int /\ Backoff(attempt - 1) <= policy.maxWait
             /\ Pow[attempt - 1] <= MaxDuration => Backoff(attempt - 1) >= 1
  <2>1. policy \in Policies /\ attempt - 1 \in 0 .. AttemptCap /\ MaxDuration \in Nat \ {0}
    BY <1>1, RetryAssumption DEF RetryIInv, RetryTyped, RetryPlaces
  <2>2. Pow[attempt - 1] \in Nat \ {0}
    BY <2>1, PowPositive
  <2>3. policy.maxWait \in Nat /\ policy.maxWait >= 1
    BY <2>1 DEF Policies
  <2> HIDE DEF FnReturns, Judge, Return
  <2>4. QED
    BY <2>1, <2>2, <2>3 DEF Backoff
<1>2. RetryTyped'
  BY <1>1 DEF RetryIInv, RetryTyped
<1>3. RetryPlaces'
  BY DEF RetryIInv, RetryTyped, RetryPlaces
<1>4. RetryCounts'
  BY DEF RetryIInv, RetryTyped, RetryCounts, Policies
<1>5. RetrySound'
  <2>1. Pow' = Pow
    BY Zenon DEF Pow
  <2>2. op' = op /\ policy' = policy /\ attempt' = attempt
    OBVIOUS
  <2>3. QED
    BY <1>1, <2>1, <2>2 DEF RetryIInv, RetryTyped, RetryPlaces, RetryCounts, RetrySound, Policies
<1>6. QED
  BY <1>2, <1>3, <1>4, <1>5 DEF RetryIInv

(* The select, and what happens around the call.                           *)
LEMMA SelectKeeps ==
  ASSUME RetryIInv, WaitEnds \/ Select \/ ParentEnds \/ TimerFires
  PROVE  RetryIInv'
<1> USE DEF WaitEnds, Select, ParentEnds, TimerFires, Return
<1>1. RetryTyped'
  BY DEF RetryIInv, RetryTyped
<1>2. RetryPlaces'
  BY DEF RetryIInv, RetryTyped, RetryPlaces
<1>3. RetryCounts'
  BY DEF RetryIInv, RetryTyped, RetryCounts, Policies
<1>4. RetrySound'
  <2>1. Pow' = Pow
    BY Zenon DEF Pow
  <2>2. UNCHANGED <<op, policy, attempt, fn, wait>>
    OBVIOUS
  <2>3. QED
    BY <2>1, <2>2 DEF RetryIInv, RetryTyped, RetryPlaces, RetrySound
<1>5. QED
  BY <1>1, <1>2, <1>3, <1>4 DEF RetryIInv

(* Every step of a call of core/retry, and a step of another part.         *)
LEMMA RetryStep == ASSUME RetryIInv, [RetryNext]_retryVars PROVE RetryIInv'
<1>1. CASE RetryNext
  BY <1>1, CheckContextKeeps, CallKeeps, FnReturnsKeeps, SelectKeeps DEF RetryNext
<1>2. CASE UNCHANGED retryVars
  <2>1. Pow' = Pow
    BY <1>2, Zenon DEF Pow, retryVars
  <2>2. QED
    BY <1>2, <2>1 DEF retryVars, RetryIInv, RetryTyped, RetryPlaces, RetryCounts, RetrySound
<1>3. QED
  BY <1>1, <1>2
-----------------------------------------------------------------------------
(* connector/cli, connector/browser and connector/grpc: proofs.            *)

(* An exec step begins with nothing started.                               *)
LEMMA InitExec == ASSUME NEW place \in {"start", "off"}, ExecStarts(place) PROVE ExecIInv
  BY DEF ExecStarts, ExecIInv, CommandAccounted, NoCommandLeft

(* Each step of executeExec, of the command, and of the context.           *)
LEMMA ExecStep == ASSUME ExecIInv, [ExecNext]_execVars PROVE ExecIInv'
<1> USE DEF ExecIInv, CommandAccounted, NoCommandLeft, stdinVars, ExecReturns
<1>1. CASE StartCommand
  BY <1>1 DEF StartCommand
<1>2. CASE FeedStdin \/ FeedFails
  BY <1>2 DEF FeedStdin, FeedFails
<1>3. CASE WaitReturns
  BY <1>3 DEF WaitReturns
<1>4. CASE Kill
  BY <1>4 DEF Kill
<1>5. CASE CommandReads \/ CommandCloses \/ CommandForks \/ CommandExits \/ HeirEnds
  BY <1>5 DEF CommandReads, CommandCloses, CommandForks, CommandExits, HeirEnds
<1>6. CASE ExecContextEnds
  BY <1>6 DEF ExecContextEnds
<1>7. CASE UNCHANGED execVars
  BY <1>7 DEF execVars
<1>8. QED
  BY <1>1, <1>2, <1>3, <1>4, <1>5, <1>6, <1>7 DEF ExecNext, Connector

(* A browser step begins with no browser.                                  *)
LEMMA InitBrowser == ASSUME NEW place \in {"launch", "off"}, BrowserStarts(place) PROVE BrowserIInv
  BY DEF BrowserStarts, BrowserIInv, BrowserGone

(* Each step of the connector, of the browser and of what runs beside them.*)
LEMMA BrowserStepKeeps == ASSUME BrowserIInv, [BrowserNext]_browserVars PROVE BrowserIInv'
<1> USE DEF BrowserIInv, BrowserGone, linkVars, callVars, KillAndWait
<1>1. CASE Launch \/ FindURL \/ GiveUpLaunch
  BY <1>1 DEF Launch, FindURL, GiveUpLaunch
<1>2. CASE Dial \/ DialFails \/ SetupCallFails
  BY <1>2 DEF Dial, DialFails, SetupCallFails
<1>3. CASE SendBegins \/ SendWrites \/ NextCommand \/ SetupOver
  BY <1>3 DEF SendBegins, SendWrites, NextCommand, SetupOver
<1>4. CASE StepUnresolved \/ Dispatch \/ ActionEnds
  BY <1>4 DEF StepUnresolved, Dispatch, ActionEnds
<1>5. CASE PollEnds \/ PollSucceeds \/ PollAgain \/ DeadlinePasses
  BY <1>5 DEF PollEnds, PollSucceeds, PollAgain, DeadlinePasses
<1>6. CASE TeardownEnds
  BY <1>6 DEF TeardownEnds
<1>7. CASE BrowserAnswers \/ ReaderWakes \/ ReaderEnds
  BY <1>7 DEF BrowserAnswers, ReaderWakes, ReaderEnds
<1>8. CASE BrowserServes \/ BrowserFails \/ RunCancelled \/ ContextKills
  BY <1>8 DEF BrowserServes, BrowserFails, RunCancelled, ContextKills
<1>9. CASE UNCHANGED browserVars
  BY <1>9 DEF browserVars
<1>10. QED
  BY <1>1, <1>2, <1>3, <1>4, <1>5, <1>6, <1>7, <1>8, <1>9 DEF BrowserNext, BrowserStep

(* A call begins with no stream.                                           *)
LEMMA InitRPC == ASSUME NEW place \in {"lookup", "off"}, RPCStarts(place) PROVE RPCIInv
<1>1. RPCPlaces /\ RPCTypes /\ RPCHandler
  BY DEF RPCStarts, RPCPlaces, RPCTypes, RPCHandler
<1>2. RPCFlow
  BY DEF RPCStarts, RPCFlow
<1>3. CallAccounted /\ NoStreamLeft
  BY DEF RPCStarts, CallAccounted, NoStreamLeft
<1>4. QED
  BY <1>1, <1>2, <1>3 DEF RPCIInv

(* Looking the method up: the fetch goes on until no import is missing.    *)
LEMMA LookupKeeps ==
  ASSUME RPCIInv, AskForService \/ CollectMissing \/ (\E f \in missing : Fetch(f)) \/ FindMethod
  PROVE  RPCIInv'
<1> USE DEF RPCReturns, methodVars, flowVars, serverVars
<1>1. /\ rpcAt \in {"lookup", "fetch", "find"} /\ handler = "none" /\ "call" \notin streams /\ rpcSaid = "none"
      /\ UNCHANGED <<server, shape, parts, spoilt, sent, up, down, heard, handler, answers, mute, rpcOver>>
  BY DEF RPCIInv, RPCPlaces, AskForService, CollectMissing, Fetch, FindMethod
<1>2. \/ rpcAt' \in {"fetch", "find", "open"} /\ rpcSaid' = "none"
      \/ rpcAt' = "teardown" /\ rpcSaid' = "error"
  BY <1>1 DEF AskForService, CollectMissing, Fetch, FindMethod
<1>3. "call" \notin streams'
  BY <1>1 DEF AskForService, CollectMissing, Fetch, FindMethod
<1>4. RPCTypes'
  <2>1. CASE AskForService \/ \E f \in missing : Fetch(f)
    BY <1>1, <2>1 DEF RPCTypes, AskForService, Fetch
  <2>2. CASE CollectMissing
    <3> DEFINE needed == UNION {server.needs[f] : f \in have}
    <3>1. have' = have /\ missing' = needed \ have
      BY <2>2 DEF CollectMissing
    <3>2. rpcAt' \in {"fetch", "find"} /\ (rpcAt' = "find" => missing' = {})
      BY <2>2 DEF CollectMissing
    <3>3. \A f \in have : server.needs[f] \subseteq needed
      OBVIOUS
    <3> HIDE DEF needed
    <3>4. missing' = {} => needed \subseteq have
      BY <3>1
    <3>5. QED
      BY <1>1, <3>1, <3>2, <3>3, <3>4 DEF RPCTypes
  <2>3. CASE FindMethod
    BY <1>1, <2>3 DEF RPCIInv, RPCTypes, FindMethod
  <2>4. QED
    BY <2>1, <2>2, <2>3
<1>5. RPCPlaces' /\ RPCHandler'
  BY <1>1, <1>2, <1>3 DEF RPCPlaces, RPCHandler
<1>6. RPCFlow'
  BY <1>1, <1>2 DEF RPCIInv, RPCFlow
<1>7. CallAccounted' /\ NoStreamLeft'
  BY <1>1, <1>2 DEF CallAccounted, NoStreamLeft
<1>8. QED
  BY <1>4, <1>5, <1>6, <1>7 DEF RPCIInv

(* The call, from its opening to the end of the step.                      *)
LEMMA CallKeepsRPC ==
  ASSUME RPCIInv, Open \/ SendMsg \/ CloseSend \/ RecvMsg \/ RecvEnd \/ CloseConn
  PROVE  RPCIInv'
<1> USE DEF RPCReturns, methodVars, lookupVars, flowVars, serverVars, Sending
<1>1. UNCHANGED <<server, shape, parts, spoilt, have, missing, resolved, answers, mute, rpcOver>>
  BY DEF Open, SendMsg, CloseSend, RecvMsg, RecvEnd, CloseConn
<1>2. RPCPlaces'
  BY DEF RPCIInv, RPCPlaces, Open, SendMsg, CloseSend, RecvMsg, RecvEnd, CloseConn
<1>3. RPCTypes'
  BY <1>1 DEF RPCIInv, RPCPlaces, RPCTypes, Open, SendMsg, CloseSend, RecvMsg, RecvEnd, CloseConn
<1>4. RPCHandler'
  BY <1>1 DEF RPCIInv, RPCPlaces, RPCHandler, Open, SendMsg, CloseSend, RecvMsg, RecvEnd, CloseConn
<1>5. RPCFlow'
  <2>1. CASE Open \/ CloseSend \/ RecvEnd \/ CloseConn
    BY <1>1, <2>1 DEF RPCIInv, RPCPlaces, RPCFlow, Open, CloseSend, RecvEnd, CloseConn
  <2>2. CASE SendMsg
    BY <1>1, <2>2 DEF RPCIInv, RPCPlaces, RPCFlow, SendMsg
  <2>3. CASE RecvMsg
    BY <1>1, <2>3 DEF RPCIInv, RPCPlaces, RPCFlow, RecvMsg
  <2>4. QED
    BY <2>1, <2>2, <2>3
<1>6. CallAccounted'
  <2>1. CASE Open
    BY <1>1, <2>1 DEF RPCIInv, RPCPlaces, RPCTypes, CallAccounted, Open
  <2>2. CASE SendMsg
    BY <1>1, <2>2 DEF RPCIInv, RPCPlaces, RPCTypes, RPCHandler, RPCFlow, CallAccounted, SendMsg
  <2>3. CASE CloseSend \/ RecvMsg
    BY <1>1, <2>3 DEF RPCIInv, RPCPlaces, CallAccounted, CloseSend, RecvMsg
  <2>4. CASE RecvEnd
    BY <1>1, <2>4 DEF RPCIInv, RPCPlaces, RPCFlow, CallAccounted, RecvEnd
  <2>5. CASE CloseConn
    BY <1>1, <2>5 DEF RPCIInv, CallAccounted, CloseConn
  <2>6. QED
    BY <2>1, <2>2, <2>3, <2>4, <2>5
<1>7. NoStreamLeft'
  BY DEF RPCIInv, RPCPlaces, NoStreamLeft, Open, SendMsg, CloseSend, RecvMsg, RecvEnd, CloseConn
<1>8. QED
  BY <1>2, <1>3, <1>4, <1>5, <1>6, <1>7 DEF RPCIInv

(* The server, the connection and the context.                             *)
LEMMA ServerKeeps ==
  ASSUME RPCIInv,
         Handler \/ ConnectionBreaks \/ ReflectionEnds \/ ServerFallsSilent \/ RPCContextEnds
  PROVE  RPCIInv'
<1> USE DEF Handler, InCall, methodVars, lookupVars, flowVars, serverVars
<1>1. UNCHANGED <<rpcAt, server, shape, parts, spoilt, have, missing, resolved, sent, heard, rpcSaid>>
  BY DEF HandlerReads, HandlerSends, HandlerSent, HandlerReturns, ConnectionBreaks,
         ReflectionEnds, ServerFallsSilent, RPCContextEnds
<1>2. handler # "none" <=> handler' # "none"
  BY DEF RPCIInv, RPCHandler, HandlerReads, HandlerSends, HandlerSent, HandlerReturns,
         ConnectionBreaks, ReflectionEnds, ServerFallsSilent, RPCContextEnds
<1>3. RPCPlaces' /\ RPCHandler'
  BY <1>1, <1>2 DEF RPCIInv, RPCPlaces, RPCHandler, HandlerReads, HandlerSends, HandlerSent,
         HandlerReturns, ConnectionBreaks, ReflectionEnds, ServerFallsSilent, RPCContextEnds
<1>4. RPCTypes'
  BY <1>1, <1>2 DEF RPCIInv, RPCTypes
<1>5. RPCFlow'
  <2>1. CASE HandlerSent
    BY <1>1, <2>1 DEF RPCIInv, RPCHandler, RPCFlow, CallAccounted, HandlerSent
  <2>2. CASE ~HandlerSent
    <3>1. UNCHANGED <<down, answers>>
      BY <2>2 DEF HandlerReads, HandlerSends, HandlerReturns, ConnectionBreaks,
                  ReflectionEnds, ServerFallsSilent, RPCContextEnds
    <3>2. QED
      BY <1>1, <3>1 DEF RPCIInv, RPCFlow
  <2>3. QED
    BY <2>1, <2>2
<1>6. CallAccounted'
  <2>1. handler \in {"ok", "failed"} => handler' = handler /\ answers' = answers
    BY DEF RPCIInv, RPCHandler, HandlerReads, HandlerSends, HandlerSent, HandlerReturns,
           ConnectionBreaks, ReflectionEnds, ServerFallsSilent, RPCContextEnds
  <2>2. rpcOver => rpcOver'
    BY DEF HandlerReads, HandlerSends, HandlerSent, HandlerReturns, ConnectionBreaks,
           ReflectionEnds, ServerFallsSilent, RPCContextEnds
  <2>3. handler = "none" => handler' = "none"
    BY <1>2
  <2>4. QED
    BY <1>1, <1>2, <2>1, <2>2, <2>3 DEF RPCIInv, CallAccounted
<1>7. NoStreamLeft'
  BY <1>1 DEF RPCIInv, NoStreamLeft, HandlerReads, HandlerSends, HandlerSent, HandlerReturns,
              ConnectionBreaks, ReflectionEnds, ServerFallsSilent, RPCContextEnds
<1>8. QED
  BY <1>3, <1>4, <1>5, <1>6, <1>7 DEF RPCIInv

(* Each step of a remote call.                                             *)
LEMMA RPCStepKeeps == ASSUME RPCIInv, [RPCNext]_rpcVars PROVE RPCIInv'
<1>1. CASE RPCNext
  BY <1>1, LookupKeeps, CallKeepsRPC, ServerKeeps DEF RPCNext, RPCStep
<1>2. CASE UNCHANGED rpcVars
  BY <1>2 DEF rpcVars, methodVars, lookupVars, flowVars, serverVars, RPCIInv, RPCPlaces, RPCTypes,
              RPCHandler, RPCFlow, CallAccounted, NoStreamLeft
<1>3. QED
  BY <1>1, <1>2
-----------------------------------------------------------------------------
(* The operators of StepRunner.                                            *)

(* The assertions of the first n steps add up, step by step.               *)
LEMMA AssertsAdd ==
  ASSUME test \in Seq(StepRecord)
  PROVE  /\ AssertsUpTo[0] = 0
         /\ \A n \in 1 .. Len(test) : AssertsUpTo[n] = AssertsUpTo[n - 1] + test[n].asserts
         /\ \A n \in 0 .. Len(test) : AssertsUpTo[n] \in Nat
<1> DEFINE L == Len(test)
           a == [n \in 1 .. L |-> test[n].asserts]
           F(g) == [n \in 0 .. Len(test) |-> IF n = 0 THEN 0 ELSE g[n - 1] + test[n].asserts]
<1>1. L \in Nat /\ a \in [1 .. L -> Nat]
  <2>1. L \in Nat /\ \A n \in 1 .. L : test[n] \in StepRecord
    OBVIOUS
  <2>2. QED
    BY <2>1 DEF StepRecord
<1>2. PICK g : g = F(g)
  <2>1. \E g : g = [n \in 0 .. L |-> IF n = 0 THEN 0 ELSE g[n - 1] + a[n]]
    <3> HIDE DEF a, L
    <3>1. QED
      BY <1>1, SumExists
  <2>2. ASSUME NEW g PROVE [n \in 0 .. L |-> IF n = 0 THEN 0 ELSE g[n - 1] + a[n]] = F(g)
    BY <1>1
  <2> HIDE DEF F
  <2>3. QED
    BY <2>1, <2>2, Zenon
<1>3. AssertsUpTo = F(AssertsUpTo)
  BY <1>2, Zenon DEF AssertsUpTo
<1>4. \A n \in 0 .. L : AssertsUpTo[n] = IF n = 0 THEN 0 ELSE AssertsUpTo[n - 1] + test[n].asserts
  BY <1>3, Zenon
<1>5. \A n \in 0 .. L : AssertsUpTo[n] = IF n = 0 THEN 0 ELSE AssertsUpTo[n - 1] + a[n]
  BY <1>1, <1>4
<1>6. /\ AssertsUpTo[0] = 0 /\ \A n \in 1 .. L : AssertsUpTo[n] = AssertsUpTo[n - 1] + a[n]
      /\ \A n \in 0 .. L : AssertsUpTo[n] \in Nat
  <2> HIDE DEF a, L
  <2>1. QED
    BY <1>1, <1>5, SumTyped
<1>7. QED
  BY <1>6

-----------------------------------------------------------------------------
(* core/engine/runner.go: proofs.                                          *)

(* A test begins with an empty log and no result.                          *)
LEMMA InitRunner == ASSUME Init \/ RunnerOff PROVE RunnerIInv
<1>1. /\ test \in Seq(StepRecord) /\ ctxDone \in BOOLEAN /\ pc \in {"enter", "off"} /\ step = 1 /\ live = {}
      /\ checked = 0 /\ ok = TRUE /\ results = <<>> /\ reported = <<>> /\ tel = <<>>
      /\ cov = [runs |-> 0, steps |-> 0, passedAsserts |-> 0, failedAsserts |-> 0]
  <2>1. test \in Seq(StepRecord)
    <3>1. CASE Init
      BY <3>1, TestsAssumption DEF Init
    <3>2. CASE RunnerOff
      BY <3>2 DEF RunnerOff
    <3>3. QED
      BY <3>1, <3>2
  <2>2. QED
    BY <2>1 DEF Init, RunnerOff
<1>2. RunnerTyped /\ ConnectorsUp
  BY <1>1 DEF RunnerTyped, Counts, ConnectorsUp, Places, InStep, Connected
<1>3. LogOrdered
  BY <1>1 DEF LogOrdered
<1>4. AssertsUpTo[0] = 0
  BY <1>1, AssertsAdd
<1>5. CountsSoFar /\ VerdictInv
  BY <1>1, <1>4 DEF CountsSoFar, AllRan, VerdictInv, passed
<1>6. QED
  BY <1>2, <1>3, <1>5 DEF RunnerIInv

(* Writing a record leaves the ones before it as they are.                 *)
LEMMA Writes ==
  ASSUME RunnerTyped, NEW e \in Events, Emit(e)
  PROVE  /\ tel' \in Seq(Events \X Nat)
         /\ Len(tel) \in Nat /\ Len(tel') = Len(tel) + 1
         /\ DOMAIN tel = 1 .. Len(tel) /\ DOMAIN tel' = 1 .. Len(tel) + 1
         /\ \A n \in 1 .. Len(tel) : tel'[n] = tel[n] /\ tel[n] = <<tel[n][1], tel[n][2]>>
         /\ tel'[Len(tel) + 1] = <<e, step>>
<1>1. tel \in Seq(Events \X Nat) /\ <<e, step>> \in Events \X Nat
  BY DEF RunnerTyped
<1>2. tel' = Append(tel, <<e, step>>)
  BY DEF Emit
<1>3. \A n \in 1 .. Len(tel) : tel[n] \in Events \X Nat
  BY <1>1
<1>4. QED
  BY <1>1, <1>2, <1>3

(* A record that is new of its step keeps the log in order.                *)
LEMMA WritesInOrder ==
  ASSUME RunnerTyped, LogOrdered, NEW e \in Events, Emit(e), step' = step, pc # "done",
         e \in Lifecycle => e \notin WrittenAt(pc),
         e \in Verdicts \/ "ConnectorTeardown" \notin WrittenAt(pc),
         e \in Verdicts => pc' = "done",
         WrittenAt(pc) \cup {e} \subseteq WrittenAt(pc')
  PROVE  LogOrdered'
<1> DEFINE N == Len(tel)
<1>1. /\ N \in Nat /\ Len(tel') = N + 1 /\ DOMAIN tel = 1 .. N /\ DOMAIN tel' = 1 .. N + 1
      /\ \A n \in 1 .. N : tel'[n] = tel[n] /\ tel[n] = <<tel[n][1], tel[n][2]>> /\ tel[n][2] \in Nat
      /\ tel'[N + 1] = <<e, step>>
      /\ step \in Nat
  <2>1. step \in Nat /\ tel \in Seq(Events \X Nat)
    BY DEF RunnerTyped
  <2>2. \A n \in 1 .. N : tel[n] \in Events \X Nat
    BY <2>1
  <2>3. QED
    BY <2>1, <2>2, Writes
<1>2. \A n \in 1 .. N : tel[n][2] <= step /\ tel[n][1] \notin Verdicts
  BY <1>1 DEF LogOrdered
<1>3. \A n \in 1 .. N + 1 : tel'[n][2] <= step' /\ (tel'[n][2] = step' => tel'[n][1] \in WrittenAt(pc'))
  BY <1>1 DEF LogOrdered
<1>4. \A n \in 1 .. N + 1 : tel'[n][1] \in Verdicts => pc' = "done" /\ n = N + 1
  BY <1>1, <1>2
<1>5. ASSUME NEW m \in 1 .. N + 1, NEW n \in 1 .. N + 1
      PROVE  /\ m < n => tel'[m][2] <= tel'[n][2]
             /\ tel'[m] = tel'[n] /\ tel'[m][1] \in Lifecycle => m = n
             /\ tel'[n] = <<"ConnectorTeardown", tel'[m][2]>> /\ m > n => tel'[m][1] \in Verdicts
  <2>1. CASE m \in 1 .. N /\ n \in 1 .. N
    BY <1>1, <2>1 DEF LogOrdered
  <2>2. CASE m \in 1 .. N /\ n = N + 1
    BY <1>1, <2>2 DEF LogOrdered
  <2>3. CASE m = N + 1 /\ n \in 1 .. N
    <3>1. tel'[n] = tel[n] /\ tel[n] = <<tel[n][1], tel[n][2]>> /\ tel'[m] = <<e, step>>
      BY <1>1, <2>3
    <3>2. tel[n][2] = step => tel[n][1] \in WrittenAt(pc)
      BY <1>1, <2>3 DEF LogOrdered
    <3>3. QED
      BY <1>1, <2>3, <3>1, <3>2
  <2>4. CASE m = N + 1 /\ n = N + 1
    BY <1>1, <2>4
  <2>5. QED
    BY <1>1, <2>1, <2>2, <2>3, <2>4
<1>6. QED
  BY <1>1, <1>3, <1>4, <1>5 DEF LogOrdered

(* So does a step without a record that allows no less of its step, or     *)
(* goes on to the next one.                                                *)
LEMMA SilentInOrder ==
  ASSUME RunnerTyped, LogOrdered, UNCHANGED tel, pc # "done", 
         \/ step' = step /\ WrittenAt(pc) \subseteq WrittenAt(pc')
         \/ step' = step + 1
  PROVE  LogOrdered'
<1>1. step \in Nat /\ DOMAIN tel = 1 .. Len(tel) /\ \A n \in DOMAIN tel : tel[n][2] \in Nat
  BY DEF RunnerTyped
<1>2. QED
  BY <1>1 DEF LogOrdered

(* Each step of RunTest and runStep keeps the records in order.            *)
LEMMA LogKeeps == ASSUME RunnerIInv, Next PROVE LogOrdered'
<1> USE DEF RunnerIInv, stepVars, testVars, logVars, FailTo, WrittenAt, Events, Lifecycle, Verdicts
<1>1. CASE EnterTest
  BY <1>1, WritesInOrder DEF EnterTest
<1>2. CASE Verdict
  <2>1. PICK e \in Verdicts : Emit(e)
    BY <1>2 DEF Verdict
  <2>2. QED
    BY <1>2, <2>1, WritesInOrder DEF Verdict
<1>3. CASE StepsOver \/ StepCancelled \/ NextStep \/ ReportStep \/ CapturesOver \/ SetUp \/ Cancel
  BY <1>3, SilentInOrder DEF StepsOver, StepCancelled, NextStep, ReportStep, CapturesOver, SetUp, Cancel
<1>4. CASE StartStep \/ LookUp
  BY <1>4, WritesInOrder DEF StartStep, LookUp
<1>5. CASE SetUpFails
  BY <1>5, WritesInOrder DEF SetUpFails
<1>6. CASE Interpolate \/ Execute
  BY <1>6, WritesInOrder, SilentInOrder DEF Interpolate, Execute
<1>7. CASE \E x \in Vars : Capture(x)
  BY <1>7, WritesInOrder, SilentInOrder DEF Capture
<1>8. CASE Assert \/ AssertsOver
  BY <1>8, WritesInOrder DEF Assert, AssertsOver
<1>9. CASE Teardown
  BY <1>9, WritesInOrder DEF Teardown
<1>10. QED
  BY <1>1, <1>2, <1>3, <1>4, <1>5, <1>6, <1>7, <1>8, <1>9 DEF Next, Step

(* A record that is in the log stays there; only the one written is new.   *)
LEMMA LogGrows ==
  ASSUME RunnerTyped, NEW e \in Events, Emit(e), UNCHANGED step
  PROVE  /\ \A f, k : Logged(f, k) => Logged(f, k)'
         /\ \A f, k : Logged(f, k)' /\ f # e => Logged(f, k)
         /\ Logged(e, step)'
<1>1. /\ Len(tel) \in Nat /\ DOMAIN tel = 1 .. Len(tel) /\ DOMAIN tel' = 1 .. Len(tel) + 1
      /\ \A n \in 1 .. Len(tel) : tel'[n] = tel[n]
      /\ tel'[Len(tel) + 1] = <<e, step>>
  BY Writes
<1>2. ASSUME NEW f, NEW k, Logged(f, k) PROVE Logged(f, k)'
  <2>1. PICK n \in 1 .. Len(tel) : tel[n] = <<f, k>>
    BY <1>1, <1>2 DEF Logged
  <2>2. n \in DOMAIN tel' /\ tel'[n] = <<f, k>>
    BY <1>1, <2>1
  <2>3. QED
    BY <2>2 DEF Logged
<1>3. ASSUME NEW f, NEW k, Logged(f, k)', f # e PROVE Logged(f, k)
  <2>1. PICK n \in 1 .. Len(tel) + 1 : tel'[n] = <<f, k>>
    BY <1>1, <1>3 DEF Logged
  <2>2. n \in DOMAIN tel /\ tel[n] = <<f, k>>
    BY <1>1, <1>3, <2>1
  <2>3. QED
    BY <2>2 DEF Logged
<1>4. Logged(e, step)'
  <2>1. step' = step /\ tel'[Len(tel) + 1] = <<e, step>>
    BY <1>1
  <2>2. QED
    BY <1>1, <2>1 DEF Logged
<1>5. QED
  BY <1>2, <1>3, <1>4

(* A step that emits nothing leaves the log as it is.                      *)
LEMMA LogSame == ASSUME UNCHANGED tel PROVE \A f, k : Logged(f, k)' <=> Logged(f, k)
  BY DEF Logged

(* Whatever step is taken, no record is lost.                              *)
LEMMA NoRecordLost == ASSUME RunnerTyped, Next PROVE \A f, k : Logged(f, k) => Logged(f, k)'
<1> USE DEF testVars, stepVars, logVars, FailTo, Events, Lifecycle, Verdicts
<1>1. UNCHANGED tel \/ \E e \in Events : Emit(e) /\ UNCHANGED step
  BY DEF Next, Step, EnterTest, StepsOver, StepCancelled, NextStep, ReportStep, Verdict, StartStep, LookUp,
         SetUp, SetUpFails, Interpolate, Execute, Capture, CapturesOver, Assert, AssertsOver, Teardown, Cancel
<1>2. QED
  BY <1>1, LogGrows, LogSame

(* A sequence that grows by one.                                           *)
LEMMA Appends ==
  ASSUME NEW S, NEW s \in Seq(S), NEW e \in S
  PROVE  /\ Append(s, e) \in Seq(S)
         /\ Len(s) \in Nat /\ Len(Append(s, e)) = Len(s) + 1
         /\ DOMAIN s = 1 .. Len(s) /\ DOMAIN Append(s, e) = 1 .. Len(s) + 1
         /\ \A k \in 1 .. Len(s) : Append(s, e)[k] = s[k]
         /\ Append(s, e)[Len(s) + 1] = e
  OBVIOUS

(* The tracker counts one thing at a time.                                 *)
LEMMA CountsUp ==
  ASSUME NEW c \in Counts
  PROVE  /\ c.runs \in Nat /\ c.steps \in Nat /\ c.passedAsserts \in Nat /\ c.failedAsserts \in Nat
         /\ [c EXCEPT !.runs = @ + 1] \in Counts /\ [c EXCEPT !.steps = @ + 1] \in Counts
         /\ [c EXCEPT !.passedAsserts = @ + 1] \in Counts /\ [c EXCEPT !.failedAsserts = @ + 1] \in Counts
  BY DEF Counts

(* The variables of a test stay where they range.                          *)
LEMMA RunnerTypedKeeps == ASSUME RunnerIInv, Next PROVE RunnerTyped'
<1> USE DEF RunnerTyped, RunnerIInv, Places, InStep, stepVars, testVars, logVars, FailTo
<1>1. /\ UNCHANGED test /\ ctxDone' \in BOOLEAN /\ pc' \in Places /\ ok' \in BOOLEAN
  BY DEF Next, Step, EnterTest, StepsOver, StepCancelled, NextStep, ReportStep, Verdict, StartStep, LookUp,
         SetUp, SetUpFails, Interpolate, Execute, Capture, CapturesOver, Assert, AssertsOver, Teardown, Cancel
<1>2. step' \in 1 .. Len(test) + 1 /\ (pc' \in InStep => step' <= Len(test))
  <2>1. CASE ReportStep \/ NextStep
    <3>1. step \in Nat /\ step >= 1 /\ step <= Len(test) /\ Len(test) \in Nat
      BY <2>1 DEF ReportStep, NextStep
    <3>2. \/ step' = step /\ pc' \in {"start", "verdict"}
          \/ step' = step + 1 /\ pc' = "check"
      BY <2>1 DEF ReportStep, NextStep
    <3> HIDE DEF RunnerTyped, RunnerIInv
    <3>3. QED
      BY <3>1, <3>2
  <2>2. CASE ~(ReportStep \/ NextStep)
    BY <2>2 DEF Next, Step, EnterTest, StepsOver, StepCancelled, Verdict, StartStep, LookUp,
         SetUp, SetUpFails, Interpolate, Execute, Capture, CapturesOver, Assert, AssertsOver, Teardown, Cancel
  <2>3. QED
    BY <2>1, <2>2
<1>3. checked' \in Nat
  <2>1. CASE CapturesOver \/ Assert
    BY <2>1 DEF CapturesOver, Assert
  <2>2. CASE ~(CapturesOver \/ Assert)
    BY <2>2 DEF Next, Step, EnterTest, StepsOver, StepCancelled, NextStep, ReportStep, Verdict, StartStep, LookUp,
         SetUp, SetUpFails, Interpolate, Execute, Capture, AssertsOver, Teardown, Cancel
  <2>3. QED
    BY <2>1, <2>2
<1>4. results' \in Seq(BOOLEAN) /\ reported' \in Seq(BOOLEAN)
  <2>1. CASE StepCancelled \/ ReportStep
    <3>1. results \in Seq(BOOLEAN) /\ reported \in Seq(BOOLEAN) /\ ok \in BOOLEAN /\ FALSE \in BOOLEAN
      OBVIOUS
    <3> HIDE DEF RunnerTyped, RunnerIInv
    <3>2. \/ results' = Append(results, FALSE) /\ reported' = reported
          \/ results' = Append(results, ok) /\ reported' = Append(reported, ok)
      BY <2>1, Zenon DEF StepCancelled, ReportStep
    <3>3. /\ Append(results, FALSE) \in Seq(BOOLEAN) /\ Append(results, ok) \in Seq(BOOLEAN)
          /\ Append(reported, ok) \in Seq(BOOLEAN)
      BY <3>1, Appends
    <3>4. QED
      BY <3>1, <3>2, <3>3, Zenon
  <2>2. CASE ~(StepCancelled \/ ReportStep)
    BY <2>2 DEF Next, Step, EnterTest, StepsOver, NextStep, Verdict, StartStep, LookUp,
         SetUp, SetUpFails, Interpolate, Execute, Capture, CapturesOver, Assert, AssertsOver, Teardown, Cancel
  <2>3. QED
    BY <2>1, <2>2
<1>5. tel' \in Seq(Events \X Nat)
  <2>1. UNCHANGED tel \/ \E e \in Events : Emit(e)
    BY DEF Events, Lifecycle, Verdicts, Next, Step, EnterTest, StepsOver, StepCancelled, NextStep, ReportStep,
         Verdict, StartStep, LookUp, SetUp, SetUpFails, Interpolate, Execute, Capture, CapturesOver, Assert,
         AssertsOver, Teardown, Cancel
  <2>2. QED
    BY <2>1, Writes
<1>6. cov' \in Counts
  <2>1. CASE Verdict \/ Execute \/ Assert
    <3>1. \/ cov' = cov
          \/ cov' = [cov EXCEPT !.runs = @ + 1] \/ cov' = [cov EXCEPT !.steps = @ + 1]
          \/ cov' = [cov EXCEPT !.passedAsserts = @ + 1] \/ cov' = [cov EXCEPT !.failedAsserts = @ + 1]
      BY <2>1 DEF Verdict, Execute, Assert
    <3>2. QED
      BY <3>1, CountsUp
  <2>2. CASE ~(Verdict \/ Execute \/ Assert)
    BY <2>2 DEF Next, Step, EnterTest, StepsOver, StepCancelled, NextStep, ReportStep, StartStep, LookUp,
         SetUp, SetUpFails, Interpolate, Capture, CapturesOver, AssertsOver, Teardown, Cancel
  <2>3. QED
    BY <2>1, <2>2
<1>7. QED
  BY <1>1, <1>2, <1>3, <1>4, <1>5, <1>6

(* SetUp brings the connector of its step up, and every way out of a step  *)
(* that has one leads through its teardown.                                *)
LEMMA ConnectorsKeep == ASSUME RunnerIInv, Next PROVE ConnectorsUp'
<1> USE DEF RunnerIInv, ConnectorsUp, Connected, stepVars, testVars, logVars, FailTo
<1>1. CASE SetUp \/ Teardown
  BY <1>1 DEF SetUp, Teardown
<1>2. CASE ~(SetUp \/ Teardown)
  BY <1>2 DEF Next, Step, EnterTest, StepsOver, StepCancelled, NextStep, ReportStep, Verdict, StartStep, LookUp,
         SetUpFails, Interpolate, Execute, Capture, CapturesOver, Assert, AssertsOver, Cancel
<1>3. QED
  BY <1>1, <1>2

(* The counts of the tracker follow the steps and their assertions.        *)
LEMMA CountsKeep == ASSUME RunnerIInv, Next PROVE CountsSoFar'
<1> USE DEF RunnerIInv, CountsSoFar, AllRan, stepVars, testVars, logVars, FailTo
<1>1. test' = test /\ AssertsUpTo' = AssertsUpTo
  <2>1. test' = test
    BY DEF Next, Step, Cancel
  <2>2. QED
    BY <2>1, Zenon DEF AssertsUpTo
<1>2. /\ test \in Seq(StepRecord) /\ step \in 1 .. Len(test) + 1 /\ Len(test) \in Nat /\ checked \in Nat
      /\ cov \in Counts
      /\ pc \in InStep => step <= Len(test)
  BY DEF RunnerTyped
<1>3. \A n \in 1 .. Len(test) :
        /\ AssertsUpTo[n] = AssertsUpTo[n - 1] + test[n].asserts
        /\ AssertsUpTo[n - 1] \in Nat /\ test[n].asserts \in Nat
  <2>1. ASSUME NEW n \in 1 .. Len(test) PROVE n - 1 \in 0 .. Len(test) /\ test[n] \in StepRecord
    BY <1>2
  <2>2. QED
    BY <1>2, <2>1, AssertsAdd DEF StepRecord
<1>4. \A f, k : Logged(f, k) => Logged(f, k)'
  BY NoRecordLost
<1>5. ASSUME UNCHANGED cov
      PROVE  /\ step' = step => (AllRan(step - 1) => AllRan(step - 1)') /\ (AllRan(step) => AllRan(step)')
             /\ step' = step + 1 => (AllRan(step) => AllRan(step - 1)')
  BY <1>1, <1>2, <1>4, <1>5
<1> HIDE DEF AllRan
<1>6. CASE EnterTest \/ NextStep \/ StartStep \/ LookUp \/ SetUp \/ SetUpFails \/ Interpolate
  <2>1. /\ pc \in {"enter", "check", "start", "lookup", "setup", "interpolate"}
        /\ \/ pc' \in {"check", "start", "lookup", "setup", "interpolate", "execute"}
           \/ pc' \in {"teardown", "report"} /\ ok' = FALSE
        /\ cov' = cov /\ step' = step
    BY <1>6 DEF EnterTest, NextStep, StartStep, LookUp, SetUp, SetUpFails, Interpolate
  <2>2. AllRan(step - 1)' /\ cov'.failedAsserts = 0
    BY <1>5, <2>1
  <2>3. QED
    BY <2>1, <2>2
<1>7. CASE StepsOver \/ StepCancelled \/ Verdict
  <2>1. pc \in {"check", "verdict"} /\ pc' \in {"verdict", "done"} /\ cov'.failedAsserts = cov.failedAsserts
    <3>1. CASE StepsOver \/ StepCancelled
      BY <3>1 DEF StepsOver, StepCancelled
    <3>2. CASE Verdict
      <4>1. pc = "verdict" /\ pc' = "done" /\ cov' = [cov EXCEPT !.runs = @ + 1]
        BY <3>2 DEF Verdict
      <4>2. QED
        BY <1>2, <4>1 DEF Counts
    <3>3. QED
      BY <1>7, <3>1, <3>2
  <2>2. pc = "verdict" => passed' = passed
    BY <1>7 DEF StepsOver, StepCancelled, Verdict, passed
  <2>3. QED
    BY <2>1, <2>2
<1>8. CASE ReportStep
  <2>1. cov' = cov /\ pc = "report"
    BY <1>8 DEF ReportStep
  <2>2. CASE ok
    <3>1. AllRan(step - 1)' /\ cov.failedAsserts = 0 /\ pc' = "check"
      BY <1>5, <1>8, <2>1, <2>2 DEF ReportStep
    <3>2. QED
      BY <2>1, <3>1
  <2>3. CASE ~ok
    <3>1. results' = Append(results, ok) /\ pc' = "verdict"
      BY <1>8, <2>3 DEF ReportStep
    <3>2. ~passed'
      <4>1. results \in Seq(BOOLEAN) /\ ok \in BOOLEAN
        BY DEF RunnerTyped
      <4>2. Len(results) + 1 \in DOMAIN results' /\ results'[Len(results) + 1] = ok
        BY <3>1, <4>1, Appends
      <4>3. QED
        BY <2>3, <4>2, Zenon DEF passed
    <3>3. QED
      BY <3>1, <3>2
  <2>4. QED
    BY <2>2, <2>3
<1>9. CASE Execute
  <2>1. pc = "execute" /\ step' = step /\ AllRan(step - 1) /\ cov.failedAsserts = 0
    BY <1>9 DEF Execute
  <2>2. CASE cov' = [cov EXCEPT !.steps = @ + 1] /\ pc' = "capture"
    <3>1. cov'.steps = step /\ cov'.passedAsserts = cov.passedAsserts /\ cov'.failedAsserts = 0
      BY <1>2, <2>1, <2>2, CountsUp DEF AllRan, Counts
    <3>2. cov'.passedAsserts = AssertsUpTo'[step' - 1] /\ AssertsUpTo'[step' - 1] \in Nat
      BY <1>1, <1>2, <1>3, <2>1, <3>1 DEF AllRan, InStep
    <3>3. \A k \in 1 .. step' - 1 : Logged("StepEnd", k)'
      BY <1>4, <2>1 DEF AllRan
    <3>4. QED
      BY <2>1, <2>2, <3>1, <3>2, <3>3
  <2>3. CASE cov' = cov /\ pc' = "teardown" /\ ok' = FALSE
    BY <2>1, <2>3
  <2>4. QED
    BY <1>9, <2>2, <2>3 DEF Execute
<1>10. CASE (\E x \in Vars : Capture(x)) \/ CapturesOver
  <2>1. /\ pc = "capture" /\ cov' = cov /\ step' = step /\ cov.failedAsserts = 0
        /\ \/ pc' = "capture"
           \/ pc' = "assert" /\ checked' = 0
           \/ pc' = "teardown" /\ ok' = FALSE
    BY <1>10 DEF Capture, CapturesOver
  <2>2. \A k \in 1 .. step' - 1 : Logged("StepEnd", k)'
    BY <1>4, <2>1
  <2>3. test'[step'].asserts \in Nat /\ AssertsUpTo[step - 1] \in Nat
    BY <1>1, <1>2, <1>3, <2>1 DEF InStep
  <2>4. QED
    BY <1>1, <2>1, <2>2, <2>3
<1>11. CASE Assert
  <2>1. /\ pc = "assert" /\ step' = step /\ test' = test /\ checked' = checked + 1 /\ checked < test[step].asserts
        /\ cov.failedAsserts = 0
        /\ \/ cov' = [cov EXCEPT !.passedAsserts = @ + 1] /\ pc' = "assert"
           \/ pc' = "teardown" /\ ok' = FALSE
    BY <1>1, <1>11 DEF Assert, Current
  <2>2. CASE cov' = [cov EXCEPT !.passedAsserts = @ + 1] /\ pc' = "assert"
    <3>1. cov'.steps = cov.steps /\ cov'.passedAsserts = cov.passedAsserts + 1 /\ cov'.failedAsserts = 0
      BY <1>2, <2>1, <2>2, CountsUp DEF Counts
    <3>2. \A k \in 1 .. step' - 1 : Logged("StepEnd", k)'
      BY <1>4, <2>1
    <3>3. step \in 1 .. Len(test) /\ AssertsUpTo[step - 1] \in Nat /\ test[step].asserts \in Nat
      BY <1>1, <1>2, <1>3, <2>1 DEF InStep
    <3>4. cov.steps = step /\ cov.passedAsserts = AssertsUpTo[step - 1] + checked
      BY <2>1
    <3> HIDE DEF RunnerIInv
    <3>5. /\ cov'.steps = step'
          /\ cov'.passedAsserts = AssertsUpTo'[step' - 1] + checked'
          /\ checked' <= test'[step'].asserts
      <4>1. AssertsUpTo'[step' - 1] = AssertsUpTo[step - 1] /\ test'[step'].asserts = test[step].asserts
        BY <1>1, <2>1, Zenon
      <4>2. AssertsUpTo[step - 1] + checked + 1 = AssertsUpTo[step - 1] + (checked + 1)
        BY <1>2, <3>3
      <4>3. checked + 1 <= test[step].asserts
        BY <1>2, <2>1, <3>3
      <4>4. QED
        BY <2>1, <3>1, <3>4, <4>1, <4>2, <4>3
    <3>6. QED
      BY <2>1, <2>2, <3>1, <3>2, <3>5
  <2>3. CASE pc' = "teardown" /\ ok' = FALSE
    BY <2>3
  <2>4. QED
    BY <2>1, <2>2, <2>3
<1>12. CASE AssertsOver
  <2>1. /\ pc = "assert" /\ pc' = "teardown" /\ ok' /\ cov' = cov /\ step' = step
        /\ checked = test[step].asserts /\ cov.failedAsserts = 0 /\ Emit("StepEnd")
    BY <1>12 DEF AssertsOver, Current
  <2>2. Logged("StepEnd", step)'
    BY <2>1, LogGrows DEF Events, Lifecycle
  <2>3. \A k \in 1 .. step : Logged("StepEnd", k)'
    BY <1>2, <1>4, <2>1, <2>2
  <2>4. step \in 1 .. Len(test) /\ AssertsUpTo[step] = AssertsUpTo[step - 1] + test[step].asserts
    <3> HIDE DEF RunnerIInv, CountsSoFar
    <3>1. step \in 1 .. Len(test)
      BY <1>2, <2>1 DEF InStep
    <3>2. QED
      BY <1>3, <3>1
  <2>5. AllRan(step)'
    BY <1>1, <1>2, <2>1, <2>3, <2>4 DEF AllRan
  <2>6. QED
    BY <2>1, <2>5
<1>13. CASE Teardown \/ Cancel
  <2>1. CASE Teardown
    <3>1. pc = "teardown" /\ pc' = "report" /\ UNCHANGED <<ok, cov, step>>
      BY <2>1 DEF Teardown
    <3>2. QED
      BY <1>5, <3>1
  <2>2. CASE Cancel
    <3>1. UNCHANGED <<pc, ok, cov, step, test, checked, results>>
      BY <2>2 DEF Cancel
    <3>2. \A k : Logged("StepEnd", k)' <=> Logged("StepEnd", k)
      BY <2>2, LogSame DEF Cancel
    <3>3. QED
      BY <1>1, <3>1, <3>2 DEF AllRan, passed
  <2>3. QED
    BY <1>13, <2>1, <2>2
<1>14. QED
  BY <1>6, <1>7, <1>8, <1>9, <1>10, <1>11, <1>12, <1>13 DEF Next, Step

(* The results are those of the steps so far, the last one is the one that *)
(* has ended the test.                                                     *)
LEMMA VerdictKeeps == ASSUME RunnerIInv, Next PROVE VerdictInv'
<1> USE DEF RunnerIInv, VerdictInv, stepVars, testVars, logVars, FailTo
<1>1. test' = test /\ AssertsUpTo' = AssertsUpTo
  <2>1. test' = test
    BY DEF Next, Step, Cancel
  <2>2. QED
    BY <2>1, Zenon DEF AssertsUpTo
<1>2. /\ step \in 1 .. Len(test) + 1 /\ Len(test) \in Nat /\ cov \in Counts /\ (pc \in InStep => step <= Len(test))
      /\ results \in Seq(BOOLEAN) /\ ok \in BOOLEAN
  BY DEF RunnerTyped
<1>3. \A f, k : Logged(f, k) => Logged(f, k)'
  BY NoRecordLost
<1>4. CASE EnterTest \/ NextStep \/ StartStep \/ LookUp \/ SetUp \/ SetUpFails \/ Interpolate \/ Execute
           \/ (\E x \in Vars : Capture(x)) \/ CapturesOver \/ Assert \/ AssertsOver \/ Teardown
  <2>1. /\ pc \notin {"verdict", "done"} /\ pc' \notin {"verdict", "done"}
        /\ UNCHANGED <<step, results, reported>>
    BY <1>4 DEF EnterTest, NextStep, StartStep, LookUp, SetUp, SetUpFails, Interpolate, Execute, Capture,
                CapturesOver, Assert, AssertsOver, Teardown
  <2>2. cov'.runs = cov.runs
    <3>1. CASE Execute
      BY <1>2, <3>1 DEF Execute, Counts
    <3>2. CASE Assert
      BY <1>2, <3>2 DEF Assert, Counts
    <3>3. CASE ~(Execute \/ Assert)
      BY <1>4, <3>3 DEF EnterTest, NextStep, StartStep, LookUp, SetUp, SetUpFails, Interpolate, Capture,
                CapturesOver, AssertsOver, Teardown
    <3>4. QED
      BY <3>1, <3>2, <3>3
  <2>3. QED
    BY <2>1, <2>2 DEF passed
<1>5. CASE StepsOver
  <2>1. /\ pc = "check" /\ pc' = "verdict" /\ step > Len(test) /\ UNCHANGED <<step, results, reported, tel, cov>>
    BY <1>5 DEF StepsOver
  <2>2. step = Len(test) + 1 /\ AllRan(Len(test))
    <3>1. step = Len(test) + 1 /\ step - 1 = Len(test)
      BY <1>2, <2>1
    <3>2. AllRan(step - 1)
      BY <2>1 DEF CountsSoFar
    <3>3. QED
      BY <3>1, <3>2
  <2>3. AllRan(Len(test))'
    BY <1>1, <1>3, <2>1, <2>2 DEF AllRan
  <2>4. QED
    BY <1>1, <1>2, <2>1, <2>2, <2>3 DEF passed
<1>6. CASE StepCancelled
  <2>1. /\ pc = "check" /\ pc' = "verdict" /\ step <= Len(test) /\ ctxDone
        /\ results' = Append(results, FALSE) /\ UNCHANGED <<step, reported, tel, cov>>
    BY <1>6 DEF StepCancelled
  <2>2. ~Logged("StepStart", step)
    <3>1. ASSUME NEW n \in DOMAIN tel, tel[n] = <<"StepStart", step>> PROVE FALSE
      <4>1. tel[n][2] = step /\ tel[n][1] = "StepStart"
        BY <3>1
      <4>2. tel[n][1] \in WrittenAt(pc)
        BY <4>1 DEF LogOrdered
      <4>3. QED
        BY <2>1, <4>1, <4>2 DEF WrittenAt
    <3>2. QED
      BY <3>1 DEF Logged
  <2>3. ~Logged("StepStart", step)'
    BY <2>1, <2>2 DEF Logged
  <2>4. Len(results) = step - 1 /\ passed /\ reported = results
    BY <2>1
  <2>5. Len(results') = step /\ \A k \in DOMAIN results' : results'[k] <=> k < step
    <3>1. /\ Len(results') = step /\ DOMAIN results' = 1 .. step
          /\ \A k \in 1 .. step - 1 : results'[k] = results[k]
          /\ results'[step] = FALSE
      <4>1. PICK b \in BOOLEAN : b = FALSE /\ results' = Append(results, b)
        BY <2>1
      <4>2. QED
        BY <1>2, <2>4, <4>1, Appends
    <3>2. \A k \in 1 .. step - 1 : results[k]
      BY <1>2, <2>4 DEF passed
    <3>3. QED
      BY <1>2, <3>1, <3>2
  <2>6. ctxDone'
    <3>1. ctxDone' = ctxDone
      BY <1>6 DEF Next, Step, StepCancelled, Cancel
    <3>2. QED
      BY <2>1, <3>1
  <2>7. QED
    BY <1>1, <2>1, <2>3, <2>4, <2>5, <2>6
<1>7. CASE ReportStep
  <2>1. /\ pc = "report" /\ cov' = cov /\ step <= Len(test)
        /\ results' = Append(results, ok) /\ reported' = Append(reported, ok)
        /\ Len(results) = step - 1 /\ passed /\ reported = results
    BY <1>2, <1>7 DEF ReportStep, InStep
  <2>2. /\ Len(results') = step /\ DOMAIN results' = 1 .. step
        /\ \A k \in 1 .. step - 1 : results'[k] = results[k]
        /\ results'[step] = ok
    BY <1>2, <2>1, Appends
  <2>3. \A k \in 1 .. step - 1 : results[k]
    BY <1>2, <2>1 DEF passed
  <2>4. CASE ok
    <3>1. step' = step + 1 /\ pc' = "check"
      BY <1>7, <2>4 DEF ReportStep
    <3>2. passed'
      <4>1. ASSUME NEW k \in 1 .. step PROVE results'[k]
        <5>1. CASE k = step
          BY <2>2, <2>4, <5>1
        <5>2. CASE k # step
          BY <1>2, <2>2, <2>3, <5>2
        <5>3. QED
          BY <5>1, <5>2
      <4>2. QED
        BY <2>2, <4>1 DEF passed
    <3>3. Len(results') = step' - 1
      BY <1>2, <2>2, <3>1
    <3>4. QED
      BY <2>1, <3>1, <3>2, <3>3
  <2>5. CASE ~ok
    <3>1. step' = step /\ pc' = "verdict"
      BY <1>7, <2>5 DEF ReportStep
    <3>2. \A k \in DOMAIN results' : results'[k] <=> k < step
      <4>1. ASSUME NEW k \in 1 .. step PROVE results'[k] <=> k < step
        <5>1. CASE k = step
          BY <1>2, <2>2, <2>5, <5>1
        <5>2. CASE k # step
          BY <1>2, <2>2, <2>3, <5>2
        <5>3. QED
          BY <5>1, <5>2
      <4>2. QED
        BY <2>2, <4>1
    <3>3. QED
      BY <1>1, <2>1, <2>2, <3>1, <3>2
  <2>6. QED
    BY <2>4, <2>5
<1>8. CASE Verdict
  <2>1. /\ pc = "verdict" /\ pc' = "done" /\ cov' = [cov EXCEPT !.runs = @ + 1]
        /\ UNCHANGED <<step, results, reported>>
    BY <1>8 DEF Verdict
  <2>2. ctxDone => ctxDone'
    BY DEF Next, Step, Cancel
  <2>3. PICK e \in Verdicts : Emit(e)
    BY <1>8 DEF Verdict, Verdicts
  <2>4. ~Logged("StepStart", step) => ~Logged("StepStart", step)'
    <3>1. e \in Events /\ e # "StepStart" /\ step' = step
      BY <2>1 DEF Verdicts, Events
    <3>2. QED
      BY <2>3, <3>1, LogGrows
  <2>5. cov'.runs = 1
    BY <1>2, <2>1 DEF Counts
  <2>6. AllRan(Len(test)) => AllRan(Len(test))'
    <3>1. cov'.steps = cov.steps /\ cov'.passedAsserts = cov.passedAsserts
      BY <1>2, <2>1 DEF Counts
    <3>2. QED
      BY <1>1, <1>3, <3>1 DEF AllRan
  <2>7. passed' = passed
    BY <2>1 DEF passed
  <2>8. QED
    BY <1>1, <2>1, <2>2, <2>4, <2>5, <2>6, <2>7
<1>9. CASE Cancel
  <2>1. ctxDone' /\ UNCHANGED <<pc, step, results, reported, tel, cov>>
    BY <1>9 DEF Cancel
  <2>2. AllRan(Len(test)) => AllRan(Len(test))'
    BY <1>1, <1>3, <2>1 DEF AllRan
  <2>3. ~Logged("StepStart", step) => ~Logged("StepStart", step)'
    BY <2>1 DEF Logged
  <2>4. passed' = passed
    BY <2>1 DEF passed
  <2>5. QED
    BY <1>1, <2>1, <2>2, <2>3, <2>4
<1>10. QED
  BY <1>4, <1>5, <1>6, <1>7, <1>8, <1>9 DEF Next, Step

(* Each step of the runner, and a step of another part.                    *)
LEMMA RunnerStepKeeps == ASSUME RunnerIInv, [Next]_vars PROVE RunnerIInv'
<1>1. CASE Next
  BY <1>1, RunnerTypedKeeps, ConnectorsKeep, LogKeeps, CountsKeep, VerdictKeeps DEF RunnerIInv
<1>2. CASE UNCHANGED vars
  <2>1. AssertsUpTo' = AssertsUpTo
    BY <1>2, Zenon DEF AssertsUpTo, vars
  <2>2. UNCHANGED <<test, ctxDone, pc, live, checked, ok, step, results, reported, tel, cov>>
    BY <1>2 DEF vars, stepVars, testVars, logVars
  <2>3. RunnerTyped' /\ ConnectorsUp' /\ LogOrdered'
    BY <2>2 DEF RunnerIInv, RunnerTyped, ConnectorsUp, LogOrdered
  <2>4. CountsSoFar' /\ VerdictInv'
    BY <2>1, <2>2 DEF RunnerIInv, CountsSoFar, VerdictInv, AllRan, Logged, passed
  <2>5. QED
    BY <2>3, <2>4 DEF RunnerIInv
<1>3. QED
  BY <1>1, <1>2

-----------------------------------------------------------------------------
(* What the invariants say.                                                *)

(* An invariant of each part, each of them kept by the steps of all.       *)
PartsIInv == RunnerIInv /\ ExecIInv /\ BrowserIInv /\ RPCIInv /\ RetryIInv

(* The parts begin as their invariants say, whichever of them is on.       *)
LEMMA InitParts == MCInit => PartsIInv
<1> SUFFICES ASSUME MCInit PROVE PartsIInv
  OBVIOUS
<1>1. PICK part \in {"runner", "command", "browser", "call", "retry"} :
        /\ IF part = "runner" THEN Init ELSE RunnerOff
        /\ ExecStarts(IF part = "command" THEN "start" ELSE "off")
        /\ BrowserStarts(IF part = "browser" THEN "launch" ELSE "off")
        /\ RPCStarts(IF part = "call" THEN "lookup" ELSE "off")
        /\ RetryStarts(IF part = "retry" THEN {"do", "timeout", "until"} ELSE {"off"})
  BY DEF MCInit
<1>2. RunnerIInv
  <2>1. Init \/ RunnerOff
    BY <1>1
  <2>2. QED
    BY <2>1, InitRunner
<1>3. ExecIInv
  BY <1>1, InitExec
<1>4. BrowserIInv
  BY <1>1, InitBrowser
<1>5. RPCIInv
  BY <1>1, InitRPC
<1>6. RetryIInv
  <2>1. PICK ops : ops \subseteq {"do", "timeout", "until", "off"} /\ RetryStarts(ops)
    BY <1>1
  <2>2. QED
    BY <2>1, InitRetry
<1>7. QED
  BY <1>2, <1>3, <1>4, <1>5, <1>6 DEF PartsIInv

(* Each step is one of a part, and leaves the variables of the others.     *)
LEMMA NextParts ==
  PartsIInv /\ [MCNext]_<<vars, execVars, browserVars, rpcVars, retryVars>> => PartsIInv'
<1> SUFFICES ASSUME PartsIInv, [MCNext]_<<vars, execVars, browserVars, rpcVars, retryVars>>
             PROVE  PartsIInv'
  OBVIOUS
<1>1. [Next]_vars /\ [ExecNext]_execVars /\ [BrowserNext]_browserVars /\ [RPCNext]_rpcVars /\ [RetryNext]_retryVars
  BY DEF MCNext
<1>2. QED
  BY <1>1, RunnerStepKeeps, ExecStep, BrowserStepKeeps, RPCStepKeeps, RetryStep DEF PartsIInv

(* The invariants of the parts hold throughout.                            *)
THEOREM PartsInvariant == MCSpec => []PartsIInv
  BY InitParts, NextParts, PTL DEF MCSpec

(* A set with one element at most counts as one at most.                   *)
LEMMA AtMostOne ==
  ASSUME NEW S, \A a, b \in S : a = b
  PROVE  IsFiniteSet(S) /\ Cardinality(S) <= 1
<1>1. CASE S = {}
  BY <1>1, FS_EmptySet
<1>2. CASE S # {}
  <2>1. PICK a \in S : S = {a}
    BY <1>2
  <2>2. IsFiniteSet({a}) /\ Cardinality({a}) = 1
    BY FS_Singleton
  <2>3. QED
    BY <2>1, <2>2
<1>3. QED
  BY <1>1, <1>2

(* Whatever a step has brought up (a connector, the process of a command,  *)
(* a browser, the stream of a call) is gone when the step is over, on      *)
(* whichever path Runner.runStep or the connector leaves it.               *)
THEOREM StepsLeaveNothing == MCSpec => []NothingOutlivesStep
<1>1. PartsIInv => NothingOutlivesStep
  <2> SUFFICES ASSUME PartsIInv PROVE NothingOutlivesStep
    OBVIOUS
  <2>1. pc \in {"check", "start", "report", "verdict", "done"} => live = {}
    BY DEF PartsIInv, RunnerIInv, ConnectorsUp, Connected
  <2>2. Cardinality(live) <= 1
    BY AtMostOne DEF PartsIInv, RunnerIInv, ConnectorsUp
  <2>3. QED
    BY <2>1, <2>2 DEF PartsIInv, ExecIInv, BrowserIInv, RPCIInv, NothingOutlivesStep, NoConnectorOutlivesStep
<1>2. QED
  BY <1>1, PartsInvariant, PTL

(* What executeExec, a remote call and the functions of core/retry say     *)
(* when they come back is what has happened: the command was given its     *)
(* input and has ended, the call has been answered, and as many attempts   *)
(* were made, after waits as long, as the policy allows.                   *)
THEOREM CallsSayWhatHappened == MCSpec => []CallsTruthful
<1>1. PartsIInv => CallsTruthful
  BY DEF PartsIInv, ExecIInv, RPCIInv, RetryIInv, CallsTruthful
<1>2. QED
  BY <1>1, PartsInvariant, PTL

(* A passed verdict of RunTest rests on every assertion of every step, a   *)
(* failed one on the last result, and OnStepResult has seen the same.      *)
THEOREM VerdictRestsOnSteps == MCSpec => []VerdictSound
<1>1. PartsIInv => VerdictSound
  <2> SUFFICES ASSUME PartsIInv, pc = "done" PROVE
        /\ cov.runs = 1
        /\ passed =>
             /\ results = [k \in DOMAIN test |-> TRUE]
             /\ cov.steps = Len(test)
             /\ With("StepEnd") = DOMAIN test
             /\ cov.passedAsserts = AssertsUpTo[Len(test)]
             /\ cov.failedAsserts = 0
        /\ ~passed =>
             /\ results # <<>>
             /\ \A k \in DOMAIN results : results[k] <=> k < Len(results)
        /\ \/ reported = results
           \/ ctxDone /\ results = Append(reported, FALSE) /\ step \notin With("StepStart")
    BY DEF VerdictSound
  <2>1. /\ test \in Seq(StepRecord) /\ results \in Seq(BOOLEAN) /\ step \in 1 .. Len(test) + 1
        /\ DOMAIN test = 1 .. Len(test) /\ DOMAIN results = 1 .. Len(results) /\ Len(test) \in Nat
    BY DEF PartsIInv, RunnerIInv, RunnerTyped
  <2>2. cov.runs = 1 /\ (cov.failedAsserts # 0 => ~passed)
    BY DEF PartsIInv, RunnerIInv, VerdictInv, CountsSoFar
  <2>3. CASE step = Len(test) + 1 /\ Len(results) = Len(test) /\ passed /\ reported = results /\ AllRan(Len(test))
    <3>1. results = [k \in DOMAIN test |-> TRUE]
      <4>1. \A k \in 1 .. Len(test) : results[k] = TRUE
        <5>1. ASSUME NEW k \in 1 .. Len(test) PROVE results[k] = TRUE
          <6>1. results[k] \in BOOLEAN
            BY <2>1, <2>3
          <6>2. results[k]
            BY <2>1, <2>3 DEF passed
          <6>3. QED
            BY <6>1, <6>2
        <5>2. QED
          BY <5>1
      <4>2. results = [k \in 1 .. Len(results) |-> results[k]]
        BY <2>1
      <4>3. QED
        BY <2>1, <2>3, <4>1, <4>2
    <3>2. With("StepEnd") = DOMAIN test
      BY <2>1, <2>3 DEF AllRan, Logged, With
    <3>3. QED
      BY <2>2, <2>3, <3>1, <3>2 DEF AllRan
  <2>4. CASE /\ step <= Len(test) /\ Len(results) = step
             /\ \A k \in DOMAIN results : results[k] <=> k < step
             /\ \/ reported = results
                \/ ctxDone /\ results = Append(reported, FALSE) /\ ~Logged("StepStart", step)
    <3>1. ~passed /\ results # <<>>
      <4>1. step \in DOMAIN results /\ ~(step < step)
        BY <2>1, <2>4
      <4>2. QED
        BY <2>4, <4>1 DEF passed
    <3>2. ~Logged("StepStart", step) => step \notin With("StepStart")
      BY DEF Logged, With
    <3>3. QED
      BY <2>2, <2>4, <3>1, <3>2
  <2>5. QED
    BY <2>3, <2>4 DEF PartsIInv, RunnerIInv, VerdictInv
<1>2. QED
  BY <1>1, PartsInvariant, PTL

(* The records of a test are in brackets: one verdict, at the end, and for *)
(* each step its lifecycle events once, between its start and its teardown.*)
THEOREM RecordsBracketed == MCSpec => []TelemetryBracketed
<1>1. PartsIInv => TelemetryBracketed
  <2> SUFFICES ASSUME PartsIInv PROVE TelemetryBracketed
    OBVIOUS
  <2>1. LogOrdered
    BY DEF PartsIInv, RunnerIInv
  <2>2. ASSUME NEW k, NEW e \in Lifecycle PROVE Times(e, k) <= 1
    <3> DEFINE S == {n \in DOMAIN tel : tel[n] = <<e, k>>}
    <3>1. ASSUME NEW a \in S, NEW b \in S PROVE a = b
      <4>1. a \in DOMAIN tel /\ b \in DOMAIN tel /\ tel[a] = tel[b] /\ tel[a][1] \in Lifecycle
        BY <3>1
      <4>2. QED
        BY <2>1, <4>1 DEF LogOrdered
    <3> HIDE DEF S
    <3>2. Cardinality(S) <= 1
      BY <3>1, AtMostOne
    <3>3. QED
      BY <3>2 DEF Times, S
  <2>3. QED
    BY <2>1, <2>2 DEF TelemetryBracketed, LogOrdered, Lifecycle, Verdicts
<1>2. QED
  BY <1>1, PartsInvariant, PTL
=============================================================================
