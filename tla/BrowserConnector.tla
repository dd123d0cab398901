-------------------------- MODULE BrowserConnector --------------------------
(***************************************************************************)
(* connector/browser: the life of one connector in a step: Setup launches a*)
(* browser and connects to it, Execute sends it commands, Teardown closes  *)
(* everything.  The runner calls one after the other, so at most one       *)
(* command is on its way; the read loop of the CDP client, the goroutine   *)
(* that kills the browser with the context, and the browser itself run     *)
(* beside it.  CDPClient has the client with several callers.              *)
(*                                                                         *)
(* Bound: Execute sends at most CommandCap commands.                       *)
(***************************************************************************)
EXTENDS Naturals

CONSTANT CommandCap

ASSUME CommandAssumption == CommandCap \in Nat \ {0}

VARIABLES stage,    \* "off", "launch", "listen", "dial", "setup", "ready", "commands",
                    \* "poll", "detach", "done"
          cut,      \* the context of the run has ended
          browser,  \* "none", "starting", "serving", "hung", "dead"
          awaited,  \* cmd.Wait has seen the end of the browser
          socket,   \* "none", "open", "closed" on this side
          reader,   \* the read loop: "none", "on", "woken" (it has told the caller), "off"
          toSend,   \* commands of the stage not sent yet
          command,  \* "idle", "checked", "asked", "answered", "failed"
          late,     \* the deadline of waitForSelector has passed
          said      \* of the step: "none", "error" or "ok"

linkVars == <<socket, reader>>
callVars == <<toSend, command>>
browserVars == <<stage, cut, browser, awaited, linkVars, callVars, late, said>>

BrowserStarts(place) ==
  /\ stage = place /\ cut = FALSE /\ browser = "none" /\ awaited = FALSE
  /\ socket = "none" /\ reader = "none" /\ toSend = 0 /\ command = "idle"
  /\ late = FALSE /\ said = "none"

\* Kill, and the wait for the end of the process
KillAndWait == browser' = "dead" /\ awaited' = TRUE

Broken == browser = "dead" \/ socket = "closed"
-----------------------------------------------------------------------------
(* Setup.                                                                  *)

\* exec.CommandContext starts nothing once the context is over
Launch ==
  /\ stage = "launch"
  /\ \/ ~cut /\ browser' = "starting" /\ stage' = "listen" /\ UNCHANGED said
     \/ stage' = "done" /\ said' = "error" /\ UNCHANGED browser
  /\ UNCHANGED <<cut, awaited, linkVars, callVars, late>>

\* the scanner goroutine has found ws:// in the browser's stderr
FindURL ==
  /\ stage = "listen" /\ browser = "serving"
  /\ stage' = "dial"
  /\ UNCHANGED <<cut, browser, awaited, linkVars, callVars, late, said>>

\* variant: the browser whose address does not come is left running
GiveUpLaunchOnly ==
  /\ stage = "listen"
  /\ stage' = "done" /\ said' = "error"
  /\ UNCHANGED <<cut, browser, awaited, linkVars, callVars, late>>

\* stderr ends without an address, or ten seconds pass: killed, not waited for
GiveUpLaunch ==
  /\ stage = "listen"
  /\ browser' = "dead" /\ stage' = "done" /\ said' = "error"
  /\ UNCHANGED <<cut, awaited, linkVars, callVars, late>>

\* Target.createTarget, Target.attachToTarget and four domains
Dial ==
  /\ stage = "dial" /\ browser = "serving"
  /\ socket' = "open" /\ reader' = "on"
  /\ stage' = "setup" /\ toSend' = 6
  /\ UNCHANGED <<cut, browser, awaited, command, late, said>>

DialFails ==
  /\ stage = "dial" /\ browser # "hung"
  /\ KillAndWait
  /\ stage' = "done" /\ said' = "error"
  /\ UNCHANGED <<cut, linkVars, callVars, late>>

\* a command of connectToWSURL fails: the client is closed and the browser killed
SetupCallFails ==
  /\ stage = "setup" /\ command = "failed"
  /\ socket' = "closed" /\ KillAndWait
  /\ stage' = "done" /\ said' = "error"
  /\ UNCHANGED <<cut, reader, callVars, late>>
-----------------------------------------------------------------------------
(* Send, as one caller sees it: the look at done, then the store and the   *)
(* write, then the answer.                                                 *)

SendBegins ==
  /\ stage \in {"setup", "commands", "poll", "detach"} /\ command = "idle" /\ toSend > 0
  /\ stage = "poll" => ~late /\ ~cut
  /\ command' = IF reader = "off" THEN "failed" ELSE "checked"
  /\ UNCHANGED <<stage, cut, browser, awaited, linkVars, toSend, late, said>>

\* a write to a peer that is gone may still succeed; one on a closed socket not
SendWrites ==
  /\ command = "checked"
  /\ \/ socket = "open" /\ command' = "asked"
     \/ Broken /\ command' = "failed"
  /\ UNCHANGED <<stage, cut, browser, awaited, linkVars, toSend, late, said>>

\* the answer may be an error, or not what the caller expects
BrowserAnswers ==
  /\ command = "asked" /\ browser = "serving" /\ reader = "on"
  /\ command' \in {"answered", "failed"}
  /\ UNCHANGED <<stage, cut, browser, awaited, linkVars, toSend, late, said>>

\* the read loop fails, and wakes the caller if it has stored its command
ReaderWakes ==
  /\ reader = "on" /\ Broken
  /\ reader' = "woken"
  /\ command' = IF command = "asked" THEN "failed" ELSE command
  /\ UNCHANGED <<stage, cut, browser, awaited, socket, toSend, late, said>>

ReaderEnds ==
  /\ reader = "woken" /\ reader' = "off"
  /\ UNCHANGED <<stage, cut, browser, awaited, socket, callVars, late, said>>

\* stored after the read loop has woken the callers, written into a dead
\* connection: the caller waits for ever
Missed == command = "asked" /\ reader \in {"woken", "off"}

\* on to the next command
NextCommand ==
  /\ stage \in {"setup", "commands"} /\ command = "answered"
  /\ toSend' = toSend - 1 /\ command' = "idle"
  /\ UNCHANGED <<stage, cut, browser, awaited, linkVars, late, said>>
-----------------------------------------------------------------------------
(* Execute, and what the runner does around it.                            *)

SetupOver ==
  /\ stage = "setup" /\ toSend = 0
  /\ stage' = "ready"
  /\ UNCHANGED <<cut, browser, awaited, linkVars, callVars, late, said>>

\* the runner tears down at once if the parameters of the step do not resolve
StepUnresolved ==
  /\ stage = "ready"
  /\ stage' = "detach" /\ said' = "error" /\ toSend' = 1
  /\ UNCHANGED <<cut, browser, awaited, linkVars, command, late>>

\* dispatch: an action is a number of commands (two to focus and two for each key
\* of "type", four to click, one or two for the others) or a wait for a selector;
\* an action that is unknown or lacks a parameter sends nothing
Dispatch ==
  /\ stage = "ready"
  /\ \/ stage' = "commands" /\ toSend' \in 1 .. CommandCap /\ UNCHANGED said
     \/ stage' = "poll" /\ toSend' = 1 /\ UNCHANGED said
     \/ stage' = "detach" /\ toSend' = 1 /\ said' = "error"
  /\ UNCHANGED <<cut, browser, awaited, linkVars, command, late>>

ActionEnds ==
  /\ stage = "commands" /\ (toSend = 0 \/ command = "failed")
  /\ said' = IF toSend = 0 THEN "ok" ELSE "error"
  /\ stage' = "detach" /\ toSend' = 1 /\ command' = "idle"
  /\ UNCHANGED <<cut, browser, awaited, linkVars, late>>

\* the top of the loop of waitForSelector looks at the deadline, then at the context
PollEnds ==
  /\ stage = "poll" /\ command = "idle" /\ (late \/ cut)
  /\ said' = "error" /\ stage' = "detach"
  /\ UNCHANGED <<cut, browser, awaited, linkVars, callVars, late>>

\* the element is there
PollSucceeds ==
  /\ stage = "poll" /\ command = "answered"
  /\ said' = "ok" /\ stage' = "detach" /\ command' = "idle"
  /\ UNCHANGED <<cut, browser, awaited, linkVars, toSend, late>>

\* it is not, or the command has failed: another round after a pause
PollAgain ==
  /\ stage = "poll" /\ command \in {"answered", "failed"}
  /\ command' = "idle"
  /\ UNCHANGED <<stage, cut, browser, awaited, linkVars, toSend, late, said>>

DeadlinePasses ==
  /\ stage = "poll" /\ ~late /\ late' = TRUE
  /\ UNCHANGED <<stage, cut, browser, awaited, linkVars, callVars, said>>

\* Session.Close has its answer or its error; Client.Close and kill follow
TeardownEnds ==
  /\ stage = "detach" /\ command \in {"answered", "failed"}
  /\ socket' = "closed" /\ KillAndWait
  /\ command' = "idle" /\ stage' = "done"
  /\ UNCHANGED <<cut, reader, toSend, late, said>>
-----------------------------------------------------------------------------
(* The browser, and the context.                                           *)

BrowserServes ==
  /\ browser = "starting" /\ browser' = "serving"
  /\ UNCHANGED <<stage, cut, awaited, linkVars, callVars, late, said>>

\* it crashes, or stops to answer: a script that runs on, a dialog, or the pipe of
\* its stderr, which nobody reads once the address is found
BrowserFails ==
  /\ browser \in {"starting", "serving"} /\ browser' \in {"hung", "dead"}
  /\ UNCHANGED <<stage, cut, awaited, linkVars, callVars, late, said>>

RunCancelled ==
  /\ stage \notin {"off", "done"} /\ ~cut /\ cut' = TRUE
  /\ UNCHANGED <<stage, browser, awaited, linkVars, callVars, late, said>>

\* variant: the context is good for the launch only
ContextKillsLaunch ==
  /\ cut /\ stage = "listen" /\ browser \in {"starting", "serving", "hung"}
  /\ browser' = "dead"
  /\ UNCHANGED <<stage, cut, awaited, linkVars, callVars, late, said>>

\* the goroutine of exec.CommandContext
ContextKills ==
  /\ cut /\ browser \in {"starting", "serving", "hung"}
  /\ browser' = "dead"
  /\ UNCHANGED <<stage, cut, awaited, linkVars, callVars, late, said>>

BrowserStep ==
  \/ Launch \/ FindURL \/ GiveUpLaunch \/ Dial \/ DialFails \/ SetupCallFails
  \/ SendBegins \/ SendWrites \/ NextCommand \/ SetupOver \/ StepUnresolved \/ Dispatch
  \/ ActionEnds \/ PollEnds \/ PollSucceeds \/ PollAgain \/ TeardownEnds

BrowserNext ==
  \/ BrowserStep \/ BrowserAnswers \/ ReaderWakes \/ ReaderEnds \/ DeadlinePasses
  \/ BrowserServes \/ BrowserFails \/ RunCancelled \/ ContextKills

\* goroutines and timers go on; a browser that is not hung answers
BrowserFairness ==
  /\ WF_browserVars(BrowserStep) /\ WF_browserVars(ReaderWakes \/ ReaderEnds)
  /\ WF_browserVars(ContextKills) /\ WF_browserVars(DeadlinePasses)
  /\ WF_browserVars(BrowserAnswers)
-----------------------------------------------------------------------------
(* When the connector is done the browser is, on whichever way (browser.go *)
(* :72-107, :134-160, :317-347): it is dead, and waited for except after a *)
(* failed launch, and its connection is closed, with the read loop ended or*)
(* about to.                                                               *)
BrowserGone ==
  stage = "done" =>
    /\ browser \in {"none", "dead"} /\ socket # "open"
    /\ browser = "dead" /\ ~awaited => socket = "none" /\ said = "error"
    /\ reader # "none" => awaited

(* Once the run is cancelled the step comes back, whatever the browser does*)
(* (no call but waitForSelector looks at the context: it is the death of   *)
(* the browser that wakes them), except for a caller that the read loop has*)
(* missed.  A step that is not cancelled comes back if the browser has not *)
(* hung: Send has no deadline, and neither has Teardown.                   *)
BrowserStepEnds ==
  /\ cut ~> (stage = "done" \/ Missed)
  /\ stage # "off" ~> (stage = "done" \/ Missed \/ browser = "hung")
=============================================================================
