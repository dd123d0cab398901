-------------------------- MODULE MCSuiteExecution --------------------------
(* Instances for TLC: up to three passes of one to three interactions, every*)
(* outer and inner mode, bounded and unlimited runs, a fleet whose provider*)
(* is registered and one whose is not.                                     *)
EXTENDS SuiteExecution

MCExecs ==
  { [repeat |-> 2, duration |-> 1, interval |-> -1], [repeat |-> 0, duration |-> 1, interval |-> 1],
    [repeat |-> 0, duration |-> 0, interval |-> 0] }
MCPassCap == 3

Plain == [skip |-> FALSE]
Skipped == [skip |-> TRUE]
Inter(mode, tests) == [mode |-> mode, tests |-> tests]
Suite(mode, concurrency, fleet, interactions) ==
  [mode |-> mode, concurrency |-> concurrency, fleet |-> fleet, interactions |-> interactions]

Pair == << Inter("concurrent", <<Plain, Plain>>), Inter("random", <<Skipped, Plain>>) >>
Three == << Inter("concurrent", <<Plain>>), Inter("sequential", <<Skipped>>),
            Inter("sequential", <<Plain>>) >>
Single(mode) == << Inter(mode, <<Plain, Skipped, Plain>>) >>

MCSuites ==
  { Suite("random", 2, "none", Pair),
    Suite("weighted", 0, "known", Pair), Suite("concurrent", 2, "none", Three),
    Suite("sequential", 0, "none", Single("weighted")),
    Suite("sequential", 0, "known", Single("sequential")),
    Suite("sequential", 0, "unknown", Single("random")) }
=============================================================================
