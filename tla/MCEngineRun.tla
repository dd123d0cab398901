----------------------------- MODULE MCEngineRun -----------------------------
(* Manifests for TLC: suites with tests that are skipped or have two steps,*)
(* one or two at a time.                                                   *)
EXTENDS EngineRun

T(name, steps) == [name |-> name, skip |-> FALSE, steps |-> steps]
Skipped(name) == [name |-> name, skip |-> TRUE, steps |-> 1]
S(name, tests) == [name |-> name, tests |-> tests]

MCDistinct ==
  { << S("a", <<T("t", 2), Skipped("u"), T("v", 1)>>), S("b", <<T("t", 1), T("u", 1)>>),
       S("c", <<Skipped("t")>>) >>,
    << S("a", <<T("t", 2)>>) >> }

MCSmall == { << S("a", <<T("t", 1)>>), S("b", <<T("u", 1)>>) >> }

Config(parallelism, threshold, reporter) ==
  [parallelism |-> parallelism, threshold |-> threshold, reporter |-> reporter]

MCConfigs == {Config(2, 60, "ansi"), Config(0, 80, "json")}
MCParallelJSON == {Config(2, 0, "json")}
=============================================================================
