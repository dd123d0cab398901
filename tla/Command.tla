------------------------------- MODULE Command -------------------------------
(***************************************************************************)
(* cmd/scrutineer and core/config: the run command, from its arguments and *)
(* the configuration file to its exit code.                                *)
(*                                                                         *)
(* An argument is a record of a flag and its value.  A tags value is the   *)
(* set of the texts between its commas.  What the suites do when they run  *)
(* is an input: whether a test fails, and the coverage they reach.         *)
(***************************************************************************)
EXTENDS Values, SequencesExt

CONSTANT Files  \* the suite files that load, each with the set of its tags

\* core/exitcode
OK == 0
TestFailure == 1
ConfigError == 3
InternalError == 4

\* Defaults, and the zero value of Flags
Defaults == [tests |-> <<>>, parallelism |-> 1, timeout |-> "30s", reporters |-> <<"ansi">>,
             telemetry |-> TRUE, threshold |-> 98]
NoFlags == [config |-> "", parallelism |-> 0, timeout |-> "", format |-> "", verbose |-> FALSE,
            tags |-> <<>>]

\* ParseFlags: the last value of a flag counts, but tags add up; {} when a flag is unknown
ParseFlags(args) ==
  IF \E k \in DOMAIN args : args[k].flag \notin DOMAIN NoFlags THEN {}
  ELSE {FoldLeft(LAMBDA f, a : IF a.flag = "tags" THEN [f EXCEPT !.tags = @ \o a.value]
                               ELSE [f EXCEPT ![a.flag] = a.value], NoFlags, args)}

\* LoadFromFile: what the file says replaces the defaults; {} when it cannot be
\* read or parsed.  A file is a record of some of the fields of Defaults.
Load(files, path) ==
  {[key \in DOMAIN Defaults |-> IF key \in DOMAIN files[p] THEN files[p][key] ELSE Defaults[key]] :
     p \in DOMAIN files \cap {IF path = "" THEN "scrutineer.yaml" ELSE path}}

\* Merge
Merge(cfg, flags) ==
  [cfg EXCEPT
     !.parallelism = IF flags.parallelism # 0 THEN flags.parallelism ELSE @,
     !.timeout = IF flags.timeout # "" THEN flags.timeout ELSE @,
     !.reporters = IF flags.format # "" THEN <<flags.format>> ELSE @,
     !.telemetry = @ \/ flags.verbose,
     !.tests = IF flags.tags # <<>> THEN flags.tags ELSE @]

\* loadSuites: {} when one of the files cannot be read or parsed
LoadSuites(paths) == IF ToSet(paths) \subseteq DOMAIN Files THEN {paths} ELSE {}

\* buildReporter: json when some reporter is
BuildReporter(cfg) == IF "json" \in ToSet(cfg.reporters) THEN "json" ELSE "ansi"

Stopped(code) == [code |-> code, ran |-> <<>>, reporter |-> "none", workers |-> 0]

\* variant: the gate decides the exit code, whatever the tests did
GateDecides(code, cfg, covered) ==
  IF cfg.threshold > 0 /\ covered < cfg.threshold THEN TestFailure ELSE OK

\* the coverage gate only turns a success into a failure
Gate(code, cfg, covered) ==
  IF cfg.threshold > 0 /\ covered < cfg.threshold /\ code = OK THEN TestFailure ELSE code

\* cmdRun; failing are the suites with a failed test
CmdRun(files, args, writable, failing, covered) ==
  IF ParseFlags(args) = {} THEN Stopped(ConfigError)
  ELSE LET flags == CHOOSE f \in ParseFlags(args) : TRUE IN
  IF Load(files, flags.config) = {} THEN Stopped(ConfigError)
  ELSE LET cfg == Merge(CHOOSE c \in Load(files, flags.config) : TRUE, flags) IN
  IF cfg.tests = <<>> \/ LoadSuites(cfg.tests) = {} THEN Stopped(ConfigError)
  ELSE IF cfg.telemetry /\ ~writable THEN Stopped(InternalError)
  ELSE LET code == IF ToSet(cfg.tests) \cap failing # {} THEN TestFailure ELSE OK IN
       [code |-> Gate(code, cfg, covered), ran |-> cfg.tests, reporter |-> BuildReporter(cfg),
        workers |-> cfg.parallelism]

\* main: the exit code of the other commands
Main(command) ==
  IF command \in {"", "version", "help", "--help", "-h"} THEN OK ELSE ConfigError
-----------------------------------------------------------------------------
\* The exit code tells a pipeline the truth: it is 0 only when every suite of
\* the manifest ran, none failed and the coverage reached the threshold, 1 only
\* when something ran, and a suite that cannot be loaded keeps all the others
\* from running.  (run.go:22-110, docs/guides/ci-integration.md:7-29)
ExitCodeTruthful(files, args, writable, failing, covered) ==
  LET run == CmdRun(files, args, writable, failing, covered) IN
  /\ run.code = OK => run.ran # <<>> /\ ToSet(run.ran) \cap failing = {}
  /\ run.code = TestFailure => run.ran # <<>>
  /\ run.ran # <<>> => run.code \in {OK, TestFailure} /\ ToSet(run.ran) \subseteq DOMAIN Files
  /\ ToSet(run.ran) \cap failing # {} => run.code = TestFailure
  /\ \A f \in ParseFlags(args) : \A c \in Load(files, f.config) :
       run.code = OK => c.threshold = 0 \/ covered >= c.threshold

\* 0 and 1 mean what a pipeline takes them for (cmd/scrutineer/run.go)
ExitCodesTruthful ==
  Of("command") => ExitCodeTruthful(input.files, input.args, input.writable, input.failing, input.covered)

\* one command, whatever its arguments and files: a threshold is an integer, a percentage no
\* less than zero
CommandSpec ==
  /\ Of("command") =>
       /\ input.covered \in Nat
       /\ \A p \in DOMAIN input.files :
            "threshold" \in DOMAIN input.files[p] => input.files[p].threshold \in Int
  /\ [][UNCHANGED input]_input
=============================================================================
