--------------------------- MODULE DistributedLoad ---------------------------
(***************************************************************************)
(* loadtest/distributed.go: Distribute splits the concurrency over the     *)
(* nodes and runs them one after the other; AggregateResults joins their   *)
(* snapshots (metrics.go).  What a node measures is a choice of at most    *)
(* RequestCap latencies out of Latencies; a node fails or answers.         *)
(* Percentiles are left out: AggregateResults does not join them.          *)
(***************************************************************************)
EXTENDS Integers, Sequences, SequencesExt

CONSTANTS Latencies, RequestCap,
          Requests      \* the distributed runs asked for: [nodes, concurrency]

\* Validate wants a node; any number may be given for the concurrency
ASSUME RequestsAssumption ==
  /\ Latencies \subseteq Nat /\ RequestCap \in Nat
  /\ Requests \subseteq [nodes : Nat \ {0}, concurrency : Int]

VARIABLES request,  \* the configuration Distribute is called with
          phase,    \* "off", "nodes", "failed", "joined" or "panicked"
          measured, \* per node done: the latencies of its requests and whether it failed
          joined    \* the result of AggregateResults

distVars == <<request, phase, measured, joined>>

\* variant: the remainder goes to the first node
SplitToFirst(concurrency, n) ==
  IF n <= 0 \/ concurrency <= 0 THEN <<>>
  ELSE [k \in 1 .. n |-> concurrency \div n + IF k = 1 THEN concurrency % n ELSE 0]

\* the first concurrency % n nodes get one more
SplitConcurrency(concurrency, n) ==
  IF n <= 0 \/ concurrency <= 0 THEN <<>>
  ELSE [k \in 1 .. n |-> concurrency \div n + IF k <= concurrency % n THEN 1 ELSE 0]

Sum(s) ==
  LET upTo[n \in 0 .. Len(s)] == IF n = 0 THEN 0 ELSE upTo[n - 1] + s[n]
  IN  upTo[Len(s)]
Least(s) == CHOOSE l \in ToSet(s) : \A m \in ToSet(s) : l <= m
Greatest(s) == CHOOSE l \in ToSet(s) : \A m \in ToSet(s) : l >= m

\* Metrics.Snapshot of a run with these latencies, the first `errors` of
\* them failed; with no request at all everything stays zero
Snapshot(lats, errors) ==
  LET none == lats = <<>> IN
  [total |-> Len(lats), success |-> Len(lats) - errors, errors |-> errors,
   mean |-> IF none THEN 0 ELSE Sum(lats) \div Len(lats),
   min |-> IF none THEN 0 ELSE Least(lats),
   max |-> IF none THEN 0 ELSE Greatest(lats)]

Empty == Snapshot(<<>>, 0)

\* variant: the mean of the nodes' means
JoinMeans(acc, s) ==
  [total |-> acc.total + s.total, success |-> acc.success + s.success,
   errors |-> acc.errors + s.errors, sum |-> acc.sum + s.mean, first |-> FALSE,
   min |-> IF acc.first \/ s.min < acc.min THEN s.min ELSE acc.min,
   max |-> IF acc.first \/ s.max > acc.max THEN s.max ELSE acc.max]

\* the loop over the nodes that answered
Join(acc, s) ==
  [total |-> acc.total + s.total, success |-> acc.success + s.success,
   errors |-> acc.errors + s.errors, sum |-> acc.sum + s.mean * s.total, first |-> FALSE,
   min |-> IF acc.first \/ s.min < acc.min THEN s.min ELSE acc.min,
   max |-> IF acc.first \/ s.max > acc.max THEN s.max ELSE acc.max]

NoneJoined ==
  [total |-> 0, success |-> 0, errors |-> 0, sum |-> 0, first |-> TRUE, min |-> 0, max |-> 0]

\* all holds per node what it measured; the results of one that failed are nil
AggregateResults(all) ==
  LET acc[n \in 0 .. Len(all)] ==
        IF n = 0 THEN NoneJoined
        ELSE IF all[n].failed THEN acc[n - 1] ELSE Join(acc[n - 1], Snapshot(all[n].lats, all[n].errors))
      end == acc[Len(all)]
  IN  [total |-> end.total, success |-> end.success, errors |-> end.errors,
       mean |-> IF end.total > 0 THEN end.sum \div end.total ELSE 0,
       min |-> end.min, max |-> end.max]

Splits == SplitConcurrency(request.concurrency, request.nodes)
Answered == {k \in DOMAIN measured : ~measured[k].failed}

DistInit ==
  /\ request \in Requests
  /\ phase = "nodes" /\ measured = <<>> /\ joined = Empty

\* one node after the other; a node without workers serves no request
RunNode ==
  /\ phase = "nodes" /\ Splits # <<>> /\ Len(measured) < request.nodes
  /\ \E lats \in BoundedSeq(Latencies, RequestCap), failed \in BOOLEAN :
       \E errors \in 0 .. Len(lats) :
         /\ (failed \/ Splits[Len(measured) + 1] = 0) => lats = <<>>
         /\ measured' = Append(measured, [lats |-> lats, errors |-> errors, failed |-> failed])
  /\ UNCHANGED <<request, phase, joined>>

\* splits[i] of a nil slice
RunNodePanics ==
  /\ phase = "nodes" /\ Splits = <<>> /\ request.nodes > 0
  /\ phase' = "panicked"
  /\ UNCHANGED <<request, measured, joined>>

\* all nodes are done: an error is returned beside the results; the caller
\* joins what there is
Aggregate ==
  /\ phase = "nodes" /\ Splits # <<>> /\ Len(measured) = request.nodes
  /\ phase' = IF Answered = DOMAIN measured THEN "joined" ELSE "failed"
  /\ joined' = AggregateResults(measured)
  /\ UNCHANGED <<request, measured>>

DistNext == RunNode \/ RunNodePanics \/ Aggregate
-----------------------------------------------------------------------------
\* the requests that the first n nodes served, and how many of these failed
Served[n \in 0 .. Len(measured)] ==
  IF n = 0 THEN <<>> ELSE IF n \in Answered THEN Served[n - 1] \o measured[n].lats ELSE Served[n - 1]
Failed[n \in 0 .. Len(measured)] ==
  IF n = 0 THEN 0 ELSE IF n \in Answered THEN Failed[n - 1] + measured[n].errors ELSE Failed[n - 1]

\* the snapshot of one run that served all requests of the nodes that answered
Whole == Snapshot(Served[Len(measured)], Failed[Len(measured)])

(* Splitting over nodes and joining their results tells what one run with  *)
(* all the workers would have told: no worker is lost and none invented,   *)
(* shares differ by at most one, counts and maximum are exact, the mean is *)
(* off by the rounding only, the minimum is exact when every node served a *)
(* request (a node without workers joins a minimum of zero).               *)
AggregateSound ==
  /\ phase \in {"failed", "joined"} =>
       /\ Sum(Splits) = request.concurrency
       /\ \A j, k \in DOMAIN Splits : Splits[j] - Splits[k] <= 1
       /\ <<joined.total, joined.success, joined.errors, joined.max>>
            = <<Whole.total, Whole.success, Whole.errors, Whole.max>>
       /\ Whole.mean - joined.mean \in {0, 1}
       /\ (\A k \in Answered : measured[k].lats # <<>>) => joined.min = Whole.min
  /\ phase = "panicked" => request.concurrency <= 0

DistSpec == DistInit /\ [][DistNext]_distVars
=============================================================================
