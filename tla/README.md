# Verification project for Scrutineer

Scrutineer (Go, `src/`) runs declarative tests: suites of tests made of steps, each step
executed by a connector (HTTP, GraphQL, gRPC, SSH, browser, CLI). The engine runs suites in a
pool, a suite's tests under an execution policy (passes, dispatch modes, nested interactions),
and writes reports, telemetry and coverage; beside it stand a fleet orchestrator, a load
tester, a fuzzer and the connectors themselves. This directory holds TLA+ models of that
program, TLC configurations that check them, and TLAPS proofs about them.

Paths below are relative to `src/`.

## 1. Inventory

| Part | State it keeps | Operations | Hard behaviour | What makes it correct |
|---|---|---|---|---|
| Dispatchers, `core/engine/dispatcher.go` | loop index, semaphore channel, WaitGroup, recovered panics | `Dispatch` in four modes | goroutines, panics, cancellation in a `select` | each pick at most once, bounded concurrency, nothing left running, the call returns |
| Loop controller, `core/engine/loop.go` | pass number, deadline context | `Run` | timeout and interrupt against repeat/duration/interval | repeats honoured, ends when told to |
| Runner, `core/engine/runner.go` | captured variables, the connector of a step, test result | `RunTest`, `runStep` | failure of any call, deferred teardown, cancellation | verdict, telemetry and coverage tell one story; connectors come down |
| Engine and pool, `core/engine/engine.go`, `parallel.go`, `suite.go` | result slice, semaphore, reporter, tracker | `Run`, `ExitCode`, simple suites | suites in parallel sharing one reporter | results complete, exit code sound |
| Suites with execution, `core/engine/engine.go:217-485` | SuiteResult under a mutex | `runSuiteWithExecution`, `runInteraction` | loop, outer and inner dispatch nested | no test of two passes at once, counts agree |
| Coverage, `core/coverage` | suites, tests, steps by name | register, record, results, gate | called by parallel suites | percentages add up |
| Reporters, `core/reporter` | entries of the current suite | six callbacks | no lock | the report tells what happened |
| Telemetry, `core/telemetry` | header flag, stream | `Write`, `Read`, dump | several writes per record, no lock | what is written can be read |
| Fleet, `core/fleet`, `provider/static` | providers, host pools, SSH clients | `Setup`, `SelectHost`, `CheckTTL`, `Teardown` | provider calls between critical sections | no host or client lost |
| Retry and wait, `core/retry` | attempt, timer | `Do`, `WithTimeout`, `Until` | timeout against completion | attempts bounded |
| Load test, `loadtest` | worker pools, result channel, metrics | `Run`, `Distribute`, `AggregateResults` | end of the test against results in flight | every call accounted for |
| CDP client, `connector/browser/cdp` | pending map, WebSocket | `Send`, read loop, `Close` | answers out of order, connection loss | calls return with their own answers |
| GraphQL subscription, `connector/http/graphql/subscription.go` | socket, reader goroutines | `Subscribe`, `Next`, `Close` | reader left behind after a timeout | messages in order, none lost |
| SSH connector, `connector/ssh` | client, listeners, WaitGroup | `Setup`, `exec`, tunnels, `Teardown` | forwarding goroutines, teardown | nothing outlives Teardown |
| CLI connector, `connector/cli` | the command, its pipes | `exec`, file actions | a command that does not read, does not end, or leaves a child behind | the outcome is that of the command; a timeout cuts it short |
| Browser connector, `connector/browser` | process, CDP client, target | `Setup`, `Execute`, `Teardown` | a browser that dies or hangs between any two commands | the step ends, no browser is left |
| gRPC connector, `connector/grpc` | connection, resolved method, streams | reflection, four shapes of call, conversion of messages | a server that falls silent, stops reading or lies about its files | calls end with the server's answer; what is sent can be asserted |
| HTTP connector, `connector/http` | a client | one request per step | I/O | mapping of a step to a request |
| Fuzzer, `fuzz` | failures | `Run` | - | failures kept |
| Schema, fixture, expression, assertion, yaml (`core/...`) | none | parse, validate, evaluate | the same text or tree read by two pieces of code; integer and float conversions | the readings agree, operators fit together, accepted suites run |
| Configuration and CLI, `core/config`, `cmd/scrutineer` | merged configuration | `cmdRun`, ... | order of overrides | what the user asked for is run |
| Browser installer, selectors, site, demos | - | - | downloads, rendering | out of scope |

How they interact: `cmd run` builds an `Engine` and calls `Run`; `Run` hands one function per
suite to the `Pool`; a suite either walks its tests itself or asks the `LoopController` for
passes, each of which is one `Dispatch` of interactions, each interaction another `Dispatch`
of tests; a test is one `Runner.RunTest`, which asks the registry for a connector per step.
Engine and runner call the one reporter, the one telemetry writer and the one coverage
tracker; the exit code comes from the results and the coverage gate. Cancellation is one
context handed all the way down.

## 2. Modules

| Module | Models | Correspondence |
|---|---|---|
| `Dispatch` | the promise of the `Dispatcher` interface (dispatcher.go:14-20) | abstract: which picks are started, finished, failed, late, and when control comes back |
| `ConcurrentDispatcher` | lines 62-126 | one action per statement that another goroutine can interleave with; `sem` is the number of values in the channel, `main` and `work` are program counters |
| `SerialDispatcher` | sequential, random and weighted dispatch, lines 22-54 and 129-167 | the Fisher-Yates loop and the weighted draw are steps with a free random number |
| `LoopController` | loop.go:26-69 | `loop` is the place in `Run`; time is the choice of when the timer fires |
| `SuiteExecution` | engine.go:217-485 | extends `LoopController` and `CoverageTracker`; the state of every interaction and of the tests it runs |
| `StepRunner` | runner.go:37-292 | one action per connector call, interpolation, capture or assertion, each able to fail |
| `CoverageTracker`, `JSONReporter` | coverage.go, json.go | operators on records, one per method, used by the modules above and below |
| `EngineRun` | engine.go:85-214, parallel.go, run.go:92-110 | one program counter per suite; the pool's semaphore; shared reporter and tracker |
| `StaticProvider`, `Fleet` | provider/static/provider.go, core/fleet/orchestrator.go | each critical section under `o.mu` or `p.mu` is a step; provider calls lie between them. `ready` is `o.providers` and `o.ttls` (a name and the entry it stands for), `up` and `stuck` keep account of instances, one per entry |
| `LoadTest`, `DistributedLoad` | loadtest/*.go | launcher, collector, workers and the channel; splitting and joining as functions |
| `CDPClient` | connector/browser/cdp/client.go, websocket.go | callers, read loop and browser on one connection |
| `Subscription` | connector/http/graphql/subscription.go | the caller is a place (`at`), each `readMessage` a goroutine of its own on one `bufio.Reader`; a frame is its kind and its number |
| `SSHConnector` | connector/ssh | Setup, remote commands, Teardown; per tunnel an accepting goroutine that `tunnelWg` counts, per connection a forwarding one that it does not |
| `BrowserConnector` | connector/browser/browser.go and the launch | the stages of a step; the read loop, the goroutine of `exec.CommandContext` and the browser beside it |
| `CLIProcess` | connector/cli/process.go, capture.go | the connector's statements; the command, its pipe and a child that inherits its output |
| `GRPCConnector` | connector/grpc: reflect.go:31-261, unary.go, stream.go, grpc.go | the rounds of reflection, the send and receive loops of each shape, flow control as a window, the server's handler |
| `Retry` | core/retry | `Do`, `WithTimeout`, `Until`; `fn`, timer and caller end when they like; waits overflow |
| `TelemetryLog` | core/telemetry, logdump.go | the file as cells; each `Write` is up to seven pieces between which another suite can write; the reader as a function of the file |
| `Values` | Go's `any`, the conversions of core/assertion, core/expression, core/fixture | a record with one field per kind of content; numbers counted in halves so that `.5` exists, rounded above `Exact`; `input` is what the functions are given in a behaviour |
| `Assertions` | core/assertion | one operator per assertion; `Builds` what the builder accepts |
| `Builtins`, `Interpolation` | core/expression, core/fixture | every function as the set of its outcomes; lexer, recursive-descent parser, evaluator, `findExpressionEnd` |
| `YAML` | core/yaml scanner.go, parser.go | tokens with the indentation the scanner gives them, the parser's functions over them |
| `Schema` | core/schema, core/yaml/decoder.go | the two readings of a suite file, validation, what the engine takes from the result |
| `Messages` | connector/grpc/reflect.go:264-578 | a step's parameters to a message and back, per type of field |
| `Command` | cmd/scrutineer, core/config | flags, loading, `Merge`, the order of `cmdRun`'s checks, exit codes |
| `ConcurrentDispatcher_proofs`, `SerialDispatcher_proofs`, `SuitesAndData_proofs` (of `SuiteExecution`, `TelemetryLog`, `Assertions`, `Command`), `EngineRun_proofs`, `MCStepRunner_proofs`, `FleetLoad_proofs` (of `Fleet`, `StaticProvider`, `LoadTest`, `DistributedLoad`), `MCConnections_proofs` | - | theorems about the module named (and the modules it extends), section 5 |
| `Induction` | - | induction and recursion on the naturals in the form the proofs cite |
| `MC...` | - | values for the constants and the choice of what runs; nothing of the models is replaced |

`Dispatch` is the abstract specification: `ConcurrentDispatcher` and `SerialDispatcher` are
checked, and proved, to implement it through the refinement mapping `Abstract` in each of them.
`SuiteExecution` then uses dispatching at the grain of `Dispatch` (picks, slots, the lost slot
of the concurrent dispatcher), so that loop, outer and inner dispatch can be composed.

Three MC modules put independent components side by side: `MCConnections` (CDP client,
subscription, SSH connector), `MCStepRunner` (the runner of a test, a command, a browser step, a
remote call, a retried function) and `MCData` (the telemetry log and the pure functions). In each
of their behaviours one component runs and the others are "off", in a state in which nothing of
them is enabled. The components do not share state in the program either: they are called by the
runner one after the other. So the union of the behaviours is that of the components alone, and the
properties that are conjunctions of several modules' (`NothingOutlivesStep`, `CallsTruthful`,
`CallsReturn`) say the same of each as if it was run by itself.

In `MCData` the pure functions are checked as a state with an input and no step: the invariant is a
statement about the functions for that input, and TLC goes through all of them.

## 3. Runs

| Run | Question | Bounds and why they are enough |
|---|---|---|
| `dispatch` | does a concurrent `Dispatch` keep its promise, and when does it not return? | 4 items on 2 slots: a slot is contended, reused and drained; panics and one cancellation anywhere |
| `dispatch_hang` (violation) | does `Dispatch` always return? | 3 items on 2 slots; the counterexample needs one running item |
| `serial` | do the other modes keep the same promise? | `Count` 3 with weights `<<0,1,0,2>>` (a zero first and one between others) and `<<0,0,0>>` (no weight at all) |
| `step_runner` | do verdict, telemetry, coverage and teardown agree; do the calls of a step come back, tell the truth and leave nothing behind? | tests of 0 to 3 steps with up to 2 captures and 2 assertions, a step using what an earlier one captures, steps without or with an unknown connector; a command fed up to 3 pieces (`StdinCap`) through a pipe of one; a browser asked for up to 3 commands (`CommandCap`); a gRPC service in 1 to 3 files with imports that are there, missing or shadowed by a namesake, up to 3 messages (`MessageCap`) and 2 responses (`ResponseCap`) through a window of 1, so that both directions can fill up; up to 4 attempts (`AttemptCap`) and waits cut above `MaxDuration` 8, which `3^2` exceeds |
| `connections` | do calls and events reach who asked for them, and does what a caller leaves behind end? | 2 callers with 2 commands each (`SendCap`); 3 frames of any kind (`FrameCap`) and 4 reading goroutines (`ReaderCap`), so that a reader left behind meets the one of the next call; 2 tunnels and 2 connections on either of them; close, loss and a context that ends anywhere |
| `engine` | results, exit code, coverage, sequential report, the pool's bound | 3 suites and 1 suite, a pool of 1 (parallelism 0) or 2, thresholds 60 and 80 that some results meet and some miss; skips, failures, interrupt anywhere |
| `engine_interleaved` (violation) | is the report right with suites in parallel? | 2 suites at a time |
| `suite_execution` | do loop and nested dispatch fit together? | 1 to 3 interactions of up to 3 tests in every outer and inner mode; two passes, one pass, and an unlimited timed run (`PassCap` 3 bounds only that one), with a fleet that is known, unknown or absent |
| `fleet` | does anything get lost while hosts expire, are selected and torn down? | a provider that rents up to 3 hosts (`HostCap`) and a static one of 2 nodes, 2 workers, a clock of 2 instants (`TimeCap` 1) so that hosts expire once; or the renting provider twice with two times to live; workers are interchangeable (symmetry; all properties are safety) |
| `load_test` | is every completed call accounted for, and is a distributed result that of one run? | one load test with 0, 1 or 3 workers, ramped or not, or one distributed over 1 to 3 nodes with concurrency 0, 2 or 4 (fewer workers than nodes, as many, more); 2 calls a worker (`WorkCap`) and 2 latencies a node (`RequestCap`) |
| `data` | what does the program make of its data? | 3 telemetry records of 2 suites (`RecordCap`), lengths modulo 3 (`Width`) so that one of length 3 wraps; floats exact up to 4 (`Exact`), integers of 4 bits (`MaxInt` 7); expressions of up to 4 pieces (`ExpressionSize`) and calls nested to `MaxDepth` 3 and past it; suites, documents and messages with one fault or two in every place; 32-bit fields of 3 bits (`Bits32`) with every value in and around their range; up to 2 flags |
| `documents` (violation) | is a block document read back as it was written? | trees of two levels over two keys; the counterexample is one key after a list |

What each property says stands above its definition. `CHECK_DEADLOCK FALSE` is set where the
modelled call ends (and where the program really hangs); `fleet` checks deadlock.

Fairness: a goroutine that can run is run (Go's scheduler), an armed timer fires (`LoadTest`,
where the duration is the only end there is, and the deadline of the browser's commands), a work
function of a dispatcher or of the load test comes back, and a browser that is neither dead nor
hung answers. Not assumed: that the user interrupts, that a call fails, that a connection ends,
that a command or its children end, that a gRPC or GraphQL server sends anything, that the function
given to `core/retry` returns. Liveness properties therefore start from the event that must end the
wait (a context that is over, a Teardown that was called) and name the cases in which the program
waits on: `CommandCutShort` a child that holds the output, `BrowserStepEnds` a browser that hangs,
`RPCEnds` a server that nobody's context ends, `TeardownDrains` the process that has crashed.

Every run has named properties that a plausible bug in the code breaks; the variants stand in the
modules, marked `variant:`, before the definition they would replace.

## 4. What the checks show

Three violations are real disagreements between the code and what it says of itself:

* `dispatch_hang`: after a cancellation the drain at dispatcher.go:98 takes a slot although the
  `select` may have left through `ctx.Done()` without acquiring one. The goroutine whose slot it
  was blocks for ever in its deferred receive, and `wg.Wait` with it. `ReturnsOrLosesOneSlot`
  (checked in `dispatch`) says that this is the only way to hang and that exactly one slot is
  lost; `EndsOrLosesSlot` carries it to whole suites.
* `engine_interleaved`: with a pool above one, suites call the reporter concurrently. Its
  `OnSuiteStart` resets the entries, so one suite's report has the tests of another.
* `documents`: the first key of a list item has no indentation of its own (the scanner gives 0 to
  everything that is not first on its line), so for the parser the next key that has one, wherever
  it stands, is the item's second key and sets the item's column. A list whose last item has one
  key swallows the keys that follow the list. docs/getting-started.md:26-31 is such a document (its
  `telemetry` section ends up inside the reporter), and so are the one-key assertions of :62-65.
  `DocumentReadBack` (in `SuitesReadAlike`) says that all other block documents, and all flow
  documents, are read as written.

Seen while modelling, described here only.

Engine and reports:

* dispatcher.go:57 says items of different passes can overlap; `PassBarrier` shows they cannot.
* A negative duration with `repeat: 0` passes validation (validate.go:120 wants to rule out
  infinite runs) and never ends.
* An interrupted suite loses its remaining tests silently: they are in no count, and the exit
  code can be 0 (exitcode.go:5 "all tests passed").
* Suites with an execution block are never registered with the coverage tracker. Concurrent
  interactions of concurrency 0 run one at a time.
* A suite whose fleet setup fails is announced twice (engine.go:260, 265); `cmd run` registers
  no fleet provider, so every suite with a fleet fails.
* A failing connector `Setup` is not followed by `Teardown` (connector.go:25 "Always called").
* `StepEnd` is written only for passing steps (docs/reference/telemetry.md:150).
* Two tests of one name share a report entry; two suites of one name share a coverage entry.
* Suites of a parallel run write telemetry without a lock: two inside `Write` at once spoil the
  file for the reader. Lengths are cut to 16 bits, so a longer tag does too. `LogReadable` says
  that without either every prefix of the file reads as the records written so far.

Fleet and load test:

* `Setup` "acquires initial hosts" (orchestrator.go:37) but acquires none; if a later
  provider fails, the earlier ones stay up; of a provider named twice the first instance loses its
  name to the second and stays up (orchestrator.go:49); an instance whose `Teardown` fails is not
  tried again (orchestrator.go:175); a failed `Acquire` loses the expired hosts (`HostsAccounted`
  names each of these, so it says what is left behind and nothing more); a `CheckTTL` that overlaps
  `Teardown` leaves replacements in a pool nobody releases; the static provider returns the first n
  nodes, so it can replace a host by one already in the pool (provider.go:105).
* Up to one completed call per worker is in no metric (`ResultsAccounted`); a node
  without workers makes the joined minimum zero (`AggregateSound`); the remote command
  `loadtest` is not a command of the CLI; `SplitConcurrency` of zero or less panics in
  `Distribute`.

Connectors:

* CDP: a call stored between the wake-up and the closing of `done` can wait for ever on a broken
  connection (`Missed`); `Close` never gets its close frame out (websocket.go:290).
* Browser: nobody reads stderr once the address is found; `Teardown` always reports an error, as the
  kill returns Wait's "signal: killed"; a failed launch leaves a process nobody waits for; webkit is
  started with `--inspector-pipe` and prints no address; the timeout of `waitForSelector` is not
  honoured when the browser hangs; the subscription of `waitForNavigation` is never removed.
* CLI: when feeding stdin fails, nobody waits for the command (process.go:69-72); a child that holds
  stdout keeps `Execute` past its timeout; empty quoted arguments are dropped.
* gRPC: a service of the same name in another package can be taken; fields that
  are maps with keys other than strings cannot be sent; enum names come back as numbers, zeros as
  missing keys; integers out of range wrap; a bidirectional call can jam, both sides waiting for
  room; a send error hides the status of a server that ended early; files that import each other are
  asked for without end.
* GraphQL: `Subscribe` waits for the answer to its upgrade without its context
  (subscription.go:107-113); a `Next` that was cut short leaves a reader behind that takes from the
  same buffer as the next one.
* SSH: a forwarding goroutine reads `c.client` twice (tunnel.go:104-111) and dies if Teardown sets it to
  nil in between, and the process with it; `Setup` never remakes `c.closed`, so a connector that was torn down
  forwards nothing; with `host_key_check`, the default, the key is compared with nil and never fits (ssh.go:99).
* `core/retry` has no caller; `MaxAttempts` of zero or less is a success without a call; a wait that
  overflows becomes negative and the loop busy.

Data:

* `eq` and `neq` panic on two lists or two maps; `each`, `any` and `all` cannot be built from a suite
  file; large integers are equal after rounding; `status` truncates floats; an integer for
  `response_time_below` is nanoseconds; `not_contains` fails on what is not a string; header keys that
  differ in case only collide.
* `ceil`, `floor` and `round` convert with `int(...)`: an integer whose float is past the largest
  `int`, as the largest is itself, becomes the smallest one (builtins.go:305; so on amd64).
* `random_int` and `random_string` panic when the range overflows; `min`, `max` and `abs` return floats;
  integer literals go through float64.
* `timeout: 5` and captures that are not strings are silently lost; the name and weight of an
  interaction must be exactly a string and an int.
* YAML: quoted scalars do not remember their quotes, so `"5"` is a number; a list at the column of its
  key drops the rest of the document (parser_test.go:621 says it is the key's value); what is left over is ignored;
  `- - a` is not read as a list in a list; an apostrophe in a plain key hides its colon.
* `--tags` (main.go:79, docs/guides/writing-tests.md:54, docs/reference/configuration.md:50) replaces `cfg.Tests`, so the tags
  are opened as files. `Config.Timeout` is used nowhere. `ParseConfig`, `ValidateConfig`,
  parameterized.go and `DistributeByWeight` have no caller.
* fuzz.go ignores the assertions of its cases, and counts calls that a cancellation cut short as failures.

## 5. Proofs

The theorems hold for every value of the constants that their named assumptions admit. Those say
what a constant is (a table of weights is a sequence of naturals, a set of suites consists of
records with the fields the model reads), that an execution block was validated (`ExecsAssumption`)
and that caps are naturals; the cap on the passes lies above every repeat count
(`PassCapAssumption`). TLC evaluates them in the runs. No theorem bounds the number of suites,
tests, items, callers, workers, nodes, requests, providers or hosts.

| Property of a run | Theorem | Invariant and argument |
|---|---|---|
| `SlotAccounting`, `NothingOutlivesDispatch` | `ConcurrentDispatcher_proofs`: `SlotsAccounted`, `NothingOutlives` (also `TypeCorrect`, `ConcurrencyBounded`) | `IInv`: `wg` is the number of goroutines before `wg.Done`, `sem` the number of holders plus or minus the slot in the dispatching goroutine's hands |
| `ImplementsDispatch` (concurrent) | `ConcurrentDispatcher_proofs`: `Refinement` | `RInv`: goroutines exist for the picks below `next` only, control comes back with a failure exactly when one panicked; every action maps to `Start`, `Finish`, `Cancel`, `Return` of `Dispatch` or to a stutter |
| `ImplementsDispatch` (the other modes) | `SerialDispatcher_proofs`: `Refinement` | at most one pick at work, and a pick begun after the cancellation is the last (`LateInv`) |
| `RightItemsRun` | `SerialDispatcher_proofs`: `RightItems` | the array under the shuffle has every item once (`ArrayInv`), what was worked on is a prefix of it (`RunInv`), a draw by weight finds a weight (`DrawHasWeight`, on partial sums) |
| `RepeatHonoured`, `NoPassAfterStop` | `SuitesAndData_proofs`: `RepeatIsHonoured`, `NothingAfterStop`, `SuiteHonoursRepeat` | `LoopInv`: at the top of the loop, and in the sleep before it, a bounded run has a pass to go. `SuiteRunsLoop`: a suite's steps are steps of the loop, so it inherits both |
| `PassBarrier`, `EachTestEachPass` | `SuitesAndData_proofs`: `PassesAreSeparate`, `EachTestInEachPass` | per interaction what was picked, begun and left over in this pass (`AtWork`), how often each test was begun in the passes so far (`RanInv`), and over all of them that what was begun is counted or running (`SumInv`) |
| `ResultsComplete`, `ExitCodeSound` | `EngineRun_proofs`: `ResultsAreComplete`, `ExitCodeIsSound` | what each suite's result holds of the tests behind it (`CountsInv`), whether those passed (`VerdictInv`), which goroutines hold a place in the pool (`PoolInv`), what the code is at and after the gate (`CodeInv`) |
| `CoverageAddsUp` | `EngineRun_proofs`: `CoverageIsExact` | per suite the registered tests are its first ones, the entry of each says run or skipped exactly when the suite is past it, with no more steps than the runner was allowed (`TrackedInv`), and a call for one suite leaves the entries of the others alone (`OnlyFor`). Distinct names make the counts of entries those of tests (`AsManyNames`) |
| `SequentialReportFaithful` | `EngineRun_proofs`: `ReportIsFaithful` | suites come one after the other (`OrderInv`), so the entry begun last is that of the suite at work; its keys in order and what they tell of the tests behind it (`RunningInv`), and what stays of it when it is over (`ClosedInv`) |
| `NothingOutlivesStep`, `CallsTruthful` | `MCStepRunner_proofs`: `StepsLeaveNothing`, `CallsSayWhatHappened` | one inductive invariant per component (command, browser, remote call, retry, runner), which the steps of the others leave alone |
| `VerdictSound`, `TelemetryBracketed` | `MCStepRunner_proofs`: `VerdictRestsOnSteps`, `RecordsBracketed` | the counts of assertions are sums over the steps behind the runner; records of a step are in the log exactly when the runner has passed the place that writes them, and none is ever lost |
| `HostsAccounted` | `FleetLoad_proofs`: `HostsAreAccounted` | a ledger: no host stands in two places (`Apart`), everything rented is written down, and Teardown's progress (`OwnerInv`) and CheckTTL's (`CheckInv`) say what each of them holds where. A name stands for the last of its entries (`NamesInv`), so every instance has lost its name or is behind one, and Teardown takes down what is behind the names one by one (`UpInv`, `AllInstances`) |
| `CapacityKept`, `NeverPassedOver` | `FleetLoad_proofs`: `CapacityIsKept`, `NobodyIsPassedOver` | parting a pool keeps its hosts, their number and their order, by induction over the pool; every step changes a pool in one of five ways (`PoolChange`), none of which moves a host back |
| `NoConnectionLost` | `FleetLoad_proofs`: `NoClientIsLost` | a worker that dials holds the mutex and its address is not cached (`CallsInv`) |
| `ResultsAccounted` | `FleetLoad_proofs`: `ResultsAreAccounted` | a returned call is in one of four places, and every step moves it or leaves it (`CountInv`); the workers are numbered as Run has asked for them (`BirthInv`), and the channel is closed when all have left (`EndInv`). What the workers completed together is a sum by induction over them (`OneMoreInSum`) |
| `AggregateSound` | `FleetLoad_proofs`: `AggregateIsSound` | `DistInv` says what is joined from what; the rest is about the functions: the shares add up (`SharesAddUp`), one turn of the loop of `AggregateResults` tells of one more node's requests (`JoinTells`), so its end tells of all (`JoinedTellsWhole`, by induction over the nodes), and a sum short by less than the divisor is short by at most one when divided (`DivClose`) |
| `LogReadable` | `SuitesAndData_proofs`: `LogIsReadable` (also `LogInvariant`) | at every moment the file is the header, the records written and the first pieces of the one begun (`FileInv`), as long as one suite at a time is inside `Write` (`TurnInv`); after a failed write it still begins with what it had (`FailInv`). The rest is about the functions: the keys can be sorted (`SortedInOrder`), the tags and the record come back from their cells whatever follows them (`TagsComeBack`, `RecordComesBack`), a proper part of a record is cut short (`CutRecord`), and the reader's run over such a file, by induction over the records (`WrittenAreRead`, `PrefixRead`, `WholeRead`) |
| `AssertionsHold` | `SuitesAndData_proofs`: `AssertionsFitTogether` | nothing moves, so the invariant is about one evaluation: the verdict of each operator apart from the others (`EqualityVerdicts`, `OrderVerdicts`, `TextVerdicts`, `SizeVerdicts`), a float behind every number (`FloatIsInt`), then pair by pair (`NeverBoth`, `EitherAccepts`, `OneOrder`, `ElementsOpposed`, `EndsAreParts`, `PathOfTwo`). A value is only assumed to be made of numbers, characters, elements and finitely many keys, and its elements likewise (`WellShaped`) |
| `ExitCodesTruthful` | `SuitesAndData_proofs`: `ExitCodesAreTruthful` | the command seen from its end: it was stopped with a code of its own, or read its flags and its file once (`OneReading`, `OneConfig`) and went through the gate (`RunEndsOneWay`, `GateFacts`). A threshold is only assumed to be a number and the coverage not to be negative |
| `CallsMatch` | `MCConnections_proofs`: `CallsAlwaysMatch` | ids in flight were counted (`Counted`); read loop and browser answer or wake callers and remove from the map only what they have answered |
| `EventsInOrder` | `MCConnections_proofs`: `EventsComeInOrder` | buffer and wire hold the rest of what was sent (`StreamInv`); one goroutine reads until a call is cut short, which shuts the connection (`ReadersInv`, `CutInv`); the answer it holds comes after every event returned (`ResultInv`), and what was read was returned or is in that answer (`SeenInv`) |

The theorems about the load test and the data are stated for `LoadSpec`, `DistSpec`, `LogSpec`,
`AssertionSpec` and `CommandSpec`, the specifications of the components by themselves; a behaviour of
`MCLoadTest` is one of the first or one of the second, one of `MCData` that has a log open is one of
the third, and every one of `MCData` is one of the last two.

Apart from those of the two functions of one input, none of these properties is inductive as it stands; the head of each module says what its
invariant adds and why. The invariants were checked with TLC on the runs of section 3 before they
were proved. The non-temporal facts (initial states, one lemma per action or group of actions,
implication) come first, and each temporal theorem joins them in its last step.

Data of unbounded size (sums over suites, steps and interactions, the parting of a pool, the powers
of a multiplier, the partial sums of weights, the cells of a record and of a file, the reader's run
over them) are recursive functions on an interval. `Induction`
proves that such a function exists and satisfies its equation (`RecursionExists`, `SumExists`,
`SumTyped`, `RunningSum`) and induction for a set in place of a predicate (`SetInduction`, `IntervalInduction`),
from the well-foundedness of the order on the naturals; a proof by induction then takes the set of
numbers for which the claim holds.

Model-checked only:

* liveness of any kind (`DispatchReturns`, `RunEnds`, `SendReturns`, `CommandCutShort`, `BrowserStepEnds`,
  `RPCEnds`, `TeardownDrains`, `ReadersEnd` and the others), for it needs fairness and ENABLED;
* what is said of `YAML`, `Builtins`, `Interpolation`, `Messages` and `Schema` (`ExpressionsHold`, `SuitesRun`,
  `SuitesReadAlike`, `MessagesEchoed`): RECURSIVE operators over texts, types and trees, which the
  prover does not translate, and claims by induction over such data;
* `SSHConnector`: what the run asks of it (`TeardownDrains`) is liveness;
* the violations of section 4, which are counterexamples by nature.

## 6. Plan

1. Engine core: dispatchers, loop, suites, runner, engine, reporter, coverage - done.
2. Around it: fleet, load test, CDP client - done.
3. Connections and telemetry: subscription, SSH, telemetry log - done.
4. The pure parts: expressions, assertions, YAML, schema, messages, commands, retry - done.
5. The other connectors: browser, CLI, gRPC - done.
6. Proofs of the core: both refinements of `Dispatch`, loop and suites, engine results and exit
   code, its coverage and sequential report, the runner and the calls of a step, the fleet, the CDP
   client's calls, the events of a subscription, the load test and its distribution, the telemetry
   log and its reader, the assertions, the exit code of the run command - done.
7. Open: a safety statement about the tunnels of `SSHConnector` worth proving.

## 7. Not modelled, and why

* The HTTP connector: one request and one answer per step in the hands of net/http, without state of
  its own between the two. The file actions of the CLI connector: one system call each.
* The fuzzer: one sequential loop around a random generator, which asks for no verdicts.
* The load test's report, the ANSI reporter, version and usage texts: wording only.
* The browser installer, selectors and key tables: downloads and tables. The web site, demos and
  end-to-end fixtures: no logic of the program.
* `ParseConfig`, `ValidateConfig`, parameterized.go, `DistributeByWeight` and gRPC's listing of services have
  no caller in the program.
* Formatting of times, elapsed times, and the wire formats of HTTP, SSH, WebSocket and protobuf. Clocks,
  hashes and codecs of expressions are opaque texts; a regular expression is a plain text that may fail
  to compile. Floats and booleans in YAML are left out.

What a connector, a provider, a browser, a server, a command or the user does is a choice in the models.
