------------------------- MODULE FleetLoad_proofs -------------------------
(***************************************************************************)
(* Proofs about what the program does with other machines: the rented      *)
(* hosts of the fleet (Fleet and StaticProvider, for all providers,        *)
(* configurations, workers and nodes), and the load it puts on them        *)
(* (LoadTest and DistributedLoad, for all loads, workers, nodes and        *)
(* latencies).                                                             *)
(*                                                                         *)
(* None of the fleet's invariants is inductive.  That a host is accounted  *)
(* for after it was released, lost or moved needs that it stands in one    *)
(* place only (Apart), and that what Acquire hands out stands in none,     *)
(* because everything rented is in the ledger (Ledger).  What Teardown     *)
(* leaves needs to know which instance is behind a name (NamesInv), and at *)
(* each point of it which providers it has passed (OwnerInv) and which     *)
(* instances are still up (UpInv), and what CheckTTL holds at each of its  *)
(* points (CheckInv).  The cached SSH clients need that a worker that dials*)
(* holds the mutex and dials an address that is not cached (CallsInv).     *)
(*                                                                         *)
(* ResultsAccounted needs that a returned call is in exactly one of the    *)
(* report, the channel, a worker's hand and the thrown away (CountInv),    *)
(* hence who was started (BirthInv) and when the channel is closed         *)
(* (EndInv).  AggregateSound is about one result and needs little of the   *)
(* steps (DistInv); its work is the loop of AggregateResults, by           *)
(* induction over the nodes (Tells, JoinTells).                            *)
(***************************************************************************)
EXTENDS Fleet, LoadTest, DistributedLoad, Induction, FiniteSetTheorems, FunctionTheorems, SequenceTheorems

\* what provider p can hand out
HostsOf(p) ==
  [id : IF p = Static THEN Addresses ELSE 1 .. HostCap, provider : {p}, born : Nat]

Hosts == UNION {HostsOf(p) : p \in Providers}

\* the hosts that somebody has to give back
Rented == {h \in Hosts : h.provider # Static}

Checks == [at : {"idle", "next", "acquire", "add", "release"}, now : Nat,
           left : SUBSET Providers, p : Providers, expired : Seq(Hosts), fresh : Seq(Hosts)]

OwnerTyped ==
  /\ config \in Seq(FleetEntry) /\ clock \in Nat
  /\ ready \in [Providers -> Nat] /\ left \subseteq Registered /\ overlap \subseteq Providers
  /\ owner \in {"setup", "using", "teardown", "release", "down", "over"}
  /\ at \in Nat \ {0}
  /\ taken \in Providers \X Seq(Hosts) /\ taken[2] \in Seq(HostsOf(taken[1]))

PoolTyped ==
  /\ pool \in [Providers -> Seq(Hosts)]
  /\ \A p \in Providers : pool[p] \in Seq(HostsOf(p))

CheckTyped ==
  /\ ttl \in Checks
  /\ ttl.expired \in Seq(HostsOf(ttl.p)) /\ ttl.fresh \in Seq(HostsOf(ttl.p))

LedgerTyped == out \subseteq Rented /\ lost \subseteq out

TypedInv == OwnerTyped /\ PoolTyped /\ CheckTyped /\ LedgerTyped

\* where CheckTTL is and what it holds there
CheckInv ==
  /\ ttl.at \in {"idle", "next"} => ttl.expired = <<>> /\ ttl.fresh = <<>>
  /\ ttl.at = "add" => Len(ttl.fresh) = Len(ttl.expired)
  /\ ttl.left \subseteq Registered
  /\ ttl.at \notin {"idle", "next"} => ttl.p \in Registered

\* Teardown has begun, or Setup has failed, or neither
Unused == owner = "setup" \/ (owner = "over" /\ at <= Len(config))
TearingDown == owner \in {"teardown", "release", "down"} \/ (owner = "over" /\ at > Len(config))

\* the pools that Teardown has passed
Passed(p) == pool[p] # <<>> \/ (ttl.p = p /\ ttl.at \in {"acquire", "add"})

OwnerInv ==
  /\ \A p \in Providers : pool[p] # <<>> => p \in Registered
  /\ Unused => ttl.at = "idle" /\ \A p \in Providers : pool[p] = <<>>
  /\ owner \in {"release", "down"} => taken[1] \in Registered \ left
  /\ owner = "over" /\ TearingDown => left = {}
  /\ owner \in {"using", "teardown", "release", "down"} => at > Len(config)
  /\ TearingDown => \A p \in Providers \ left : Passed(p) => p \in overlap

\* a name stands for the last of its entries that Setup has met
NamesInv ==
  /\ at <= Len(config) + 1
  /\ \A p \in Registered : ready[p] < at /\ ready[p] <= Len(config) /\ config[ready[p]].provider = p
  /\ \A k \in 1 .. at - 1 : k <= ready[config[k].provider]

\* the instances that lost their name, those behind some names, and the names
\* whose instance Teardown has yet to tear down
Covered == {k \in 1 .. at - 1 : ready[config[k].provider] # k}
Behind(S) == {ready[p] : p \in S}
Waiting == IF owner \in {"release", "down"} THEN left \cup {taken[1]} ELSE left

UpInv ==
  /\ ~TearingDown => up = 1 .. at - 1 /\ stuck = {}
  /\ TearingDown => /\ up = Covered \cup Behind(Waiting) \cup stuck
                    /\ stuck \cap Behind(Waiting) = {}

\* hosts in the hands of Teardown, and the two kinds in those of CheckTTL
Taken == IF owner = "release" THEN ToSet(taken[2]) ELSE {}
Old == ToSet(ttl.expired)
New == IF ttl.at = "add" THEN ToSet(ttl.fresh) ELSE {}

Apart ==
  /\ Pooled \cap Taken \cap Rented = {} /\ Pooled \cap Old \cap Rented = {}
  /\ Pooled \cap New \cap Rented = {} /\ Taken \cap Old \cap Rented = {}
  /\ Taken \cap New \cap Rented = {} /\ Old \cap New \cap Rented = {}

Ledger == out \ lost = (Pooled \cup Taken \cup Old \cup New) \cap Rented

Stages == {"idle", "locking", "dialling", "running"}

CallsInv ==
  /\ conns \subseteq Addresses /\ open \in [Addresses -> Nat]
  /\ mu \in Workers \cup {None}
  /\ exec \in [Workers -> [at : Stages, addr : 0 .. Nodes]]
  /\ \A x \in Workers : exec[x].at # "idle" => exec[x].addr \in Addresses
  /\ \A x \in Workers : exec[x].at = "dialling" => mu = x /\ exec[x].addr \notin conns
  /\ NoConnectionLost

IInv == TypedInv /\ CheckInv /\ OwnerInv /\ NamesInv /\ UpInv /\ Apart /\ Ledger /\ CallsInv

-----------------------------------------------------------------------------
(* Parting a pool: the loop of CheckTTL over the hosts.                    *)

Parts(S) == [expired : Seq(S), remaining : Seq(S)]

(* One more host, put aside.                                               *)
LEMMA SetAsideTyped ==
  ASSUME NEW S, NEW h \in S, NEW parts \in Parts(S)
  PROVE  /\ SetAside(h, parts) \in Parts(S)
         /\ Expired(h) => /\ SetAside(h, parts).expired = Append(parts.expired, h)
                          /\ SetAside(h, parts).remaining = parts.remaining
         /\ ~Expired(h) => /\ SetAside(h, parts).remaining = Append(parts.remaining, h)
                           /\ SetAside(h, parts).expired = parts.expired
<1>1. CASE Expired(h)
  <2> DEFINE more == Append(parts.expired, h)
  <2>1. SetAside(h, parts) = [parts EXCEPT !.expired = more]
    BY <1>1, Zenon DEF SetAside
  <2>2. more \in Seq(S) /\ parts.remaining \in Seq(S)
    BY DEF Parts
  <2> HIDE DEF more
  <2>3. SetAside(h, parts).expired = more /\ SetAside(h, parts).remaining = parts.remaining
    BY <2>1 DEF Parts
  <2>4. SetAside(h, parts) \in Parts(S)
    BY <2>1, <2>2 DEF Parts
  <2>5. QED
    BY <1>1, <2>3, <2>4, Zenon DEF more
<1>2. CASE ~Expired(h)
  <2> DEFINE more == Append(parts.remaining, h)
  <2>1. SetAside(h, parts) = [parts EXCEPT !.remaining = more]
    BY <1>2, Zenon DEF SetAside
  <2>2. more \in Seq(S) /\ parts.expired \in Seq(S)
    BY DEF Parts
  <2> HIDE DEF more
  <2>3. SetAside(h, parts).remaining = more /\ SetAside(h, parts).expired = parts.expired
    BY <2>1 DEF Parts
  <2>4. SetAside(h, parts) \in Parts(S)
    BY <2>1, <2>2 DEF Parts
  <2>5. QED
    BY <1>2, <2>3, <2>4, Zenon DEF more
<1>3. QED
  BY <1>1, <1>2

(* The loop unfolded.                                                      *)
LEMMA PartedUnfold ==
  ASSUME NEW S, NEW hosts \in Seq(S)
  PROVE  /\ PartedUpTo(hosts)[0] = [expired |-> <<>>, remaining |-> <<>>]
         /\ \A n \in 1 .. Len(hosts) :
              PartedUpTo(hosts)[n] = SetAside(hosts[n], PartedUpTo(hosts)[n - 1])
         /\ \A n \in 0 .. Len(hosts) : PartedUpTo(hosts)[n] \in Parts(S)
<1> DEFINE none == [expired |-> <<>>, remaining |-> <<>>]
           setAside == [q \in (1 .. Len(hosts)) \X Parts(S) |-> SetAside(hosts[q[1]], q[2])]
           F == PartedUpTo(hosts)
<1>1. Len(hosts) \in Nat /\ \A n \in 1 .. Len(hosts) : hosts[n] \in S
  OBVIOUS
<1>2. none \in Parts(S)
  BY DEF Parts
<1>3. \A q \in (1 .. Len(hosts)) \X Parts(S) : SetAside(hosts[q[1]], q[2]) \in Parts(S)
  <2> SUFFICES ASSUME NEW q \in (1 .. Len(hosts)) \X Parts(S)
               PROVE  SetAside(hosts[q[1]], q[2]) \in Parts(S)
    BY Zenon
  <2>1. q[1] \in 1 .. Len(hosts) /\ q[2] \in Parts(S)
    OBVIOUS
  <2>2. hosts[q[1]] \in S
    BY <1>1, <2>1
  <2>3. QED
    BY <2>1, <2>2, SetAsideTyped
<1>4. setAside \in [(1 .. Len(hosts)) \X Parts(S) -> Parts(S)]
  BY <1>3, Zenon
<1> HIDE DEF none, setAside, F
<1>5. PICK f \in [0 .. Len(hosts) -> Parts(S)] : Follows(f, Len(hosts), none, setAside)
  BY <1>1, <1>2, <1>4, RecursionExists
<1>6. ASSUME NEW n \in 1 .. Len(hosts) PROVE f[n] = SetAside(hosts[n], f[n - 1])
  <2>1. n - 1 \in 0 .. Len(hosts) /\ f[n - 1] \in Parts(S)
    BY <1>1, <1>5
  <2>2. setAside[<<n, f[n - 1]>>] = SetAside(hosts[n], f[n - 1])
    BY <2>1, Zenon DEF setAside
  <2>3. QED
    BY <1>5, <2>2 DEF Follows
<1>7. f = [n \in 0 .. Len(hosts) |-> IF n = 0 THEN none ELSE SetAside(hosts[n], f[n - 1])]
  <2>1. \A n \in 0 .. Len(hosts) : n # 0 => n \in 1 .. Len(hosts)
    BY <1>1
  <2>2. \A n \in 0 .. Len(hosts) : f[n] = IF n = 0 THEN none ELSE SetAside(hosts[n], f[n - 1])
    BY <1>5, <1>6, <2>1, Zenon DEF Follows
  <2>3. QED
    BY <1>5, <2>2, Zenon
<1>8. F = CHOOSE g : g = [n \in 0 .. Len(hosts) |-> IF n = 0 THEN none ELSE SetAside(hosts[n], g[n - 1])]
  BY Zenon DEF F, PartedUpTo, none
<1>9. F = [n \in 0 .. Len(hosts) |-> IF n = 0 THEN none ELSE SetAside(hosts[n], F[n - 1])]
  BY <1>7, <1>8, Zenon
<1>10. F[0] = none
  <2>1. 0 \in 0 .. Len(hosts)
    BY <1>1
  <2>2. QED
    BY <1>9, <2>1, Zenon
<1>11. \A n \in 1 .. Len(hosts) : F[n] = SetAside(hosts[n], F[n - 1])
  <2>1. \A n \in 1 .. Len(hosts) : n \in 0 .. Len(hosts) /\ n # 0
    BY <1>1
  <2>2. QED
    BY <1>9, <2>1, Zenon
<1> DEFINE T == {n \in 0 .. Len(hosts) : F[n] \in Parts(S)}
<1>12. 0 \in T
  BY <1>1, <1>2, <1>10
<1>13. ASSUME NEW n \in 0 .. Len(hosts) - 1, n \in T PROVE n + 1 \in T
  <2>1. n + 1 \in 1 .. Len(hosts) /\ (n + 1) - 1 = n /\ n + 1 \in 0 .. Len(hosts)
    BY <1>1
  <2>2. F[n + 1] = SetAside(hosts[n + 1], F[n])
    BY <1>11, <2>1
  <2>3. SetAside(hosts[n + 1], F[n]) \in Parts(S)
    BY <1>1, <1>13, <2>1, SetAsideTyped
  <2>4. QED
    BY <2>1, <2>2, <2>3
<1> HIDE DEF T
<1>14. 0 .. Len(hosts) \subseteq T
  BY <1>1, <1>12, <1>13, IntervalInduction
<1>15. \A n \in 0 .. Len(hosts) : F[n] \in Parts(S)
  BY <1>14 DEF T
<1>16. QED
  BY <1>10, <1>11, <1>15, Zenon DEF F, none

\* old and rest are what the loop has made of the first n hosts
PartsOf(hosts, n, old, rest) ==
  /\ Len(old) + Len(rest) = n
  /\ \A k \in 1 .. Len(old) :
       Expired(old[k]) /\ \E j \in 1 .. n : hosts[j] = old[k]
  /\ \A k \in 1 .. Len(rest) :
       ~Expired(rest[k]) /\ \E j \in 1 .. n : hosts[j] = rest[k]
  /\ \A j \in 1 .. n : Expired(hosts[j]) =>
       \E k \in 1 .. Len(old) : old[k] = hosts[j]
  /\ \A j \in 1 .. n : ~Expired(hosts[j]) =>
       \E k \in 1 .. Len(rest) : k <= j /\ rest[k] = hosts[j]

(* A sequence with one more element.                                       *)
LEMMA Appended ==
  ASSUME NEW S, NEW s \in Seq(S), NEW h \in S
  PROVE  /\ Append(s, h) \in Seq(S) /\ Len(s) \in Nat /\ Len(Append(s, h)) = Len(s) + 1
         /\ Append(s, h)[Len(s) + 1] = h
         /\ \A k \in 1 .. Len(s) : Append(s, h)[k] = s[k]
         /\ \A k \in 1 .. Len(s) + 1 : k \in 1 .. Len(s) \/ k = Len(s) + 1
  OBVIOUS

(* One turn of the loop.                                                   *)
LEMMA OneSetAside ==
  ASSUME NEW S, NEW hosts \in Seq(S), NEW n \in 0 .. Len(hosts) - 1, NEW parts \in Parts(S),
         PartsOf(hosts, n, parts.expired, parts.remaining)
  PROVE  PartsOf(hosts, n + 1, SetAside(hosts[n + 1], parts).expired, SetAside(hosts[n + 1], parts).remaining)
<1> DEFINE h == hosts[n + 1]
           next == SetAside(h, parts)
           E == parts.expired
           R == parts.remaining
<1>1. /\ n \in Nat /\ n + 1 \in 1 .. Len(hosts) /\ Len(hosts) \in Nat /\ h \in S
      /\ E \in Seq(S) /\ R \in Seq(S)
  BY DEF Parts
<1>2. /\ Expired(h) => next.expired = Append(E, h) /\ next.remaining = R
      /\ ~Expired(h) => next.remaining = Append(R, h) /\ next.expired = E
  BY <1>1, SetAsideTyped
<1>3. \A j \in 1 .. n + 1 : j \in 1 .. n \/ j = n + 1
  BY <1>1
<1>4. n + 1 \in 1 .. n + 1 /\ \A j \in 1 .. n : j \in 1 .. n + 1
  BY <1>1
<1>5. /\ Len(E) + Len(R) = n
      /\ \A k \in 1 .. Len(E) : Expired(E[k]) /\ \E j \in 1 .. n : hosts[j] = E[k]
      /\ \A k \in 1 .. Len(R) : ~Expired(R[k]) /\ \E j \in 1 .. n : hosts[j] = R[k]
      /\ \A j \in 1 .. n : Expired(hosts[j]) => \E k \in 1 .. Len(E) : E[k] = hosts[j]
      /\ \A j \in 1 .. n : ~Expired(hosts[j]) => \E k \in 1 .. Len(R) : k <= j /\ R[k] = hosts[j]
  BY DEF PartsOf
<1>6. Len(E) \in Nat /\ Len(R) \in Nat
  BY <1>1
<1> HIDE DEF next, E, R
<1>7. CASE Expired(h)
  <2> DEFINE F == next.expired
  <2>0. F = Append(E, h)
    BY <1>2, <1>7
  <2> HIDE DEF F
  <2>1. /\ Len(F) = Len(E) + 1 /\ F[Len(E) + 1] = h
        /\ \A k \in 1 .. Len(E) : F[k] = E[k]
        /\ \A k \in 1 .. Len(F) : k \in 1 .. Len(E) \/ k = Len(E) + 1
    BY <1>1, <2>0, Appended
  <2>2. next.remaining = R
    BY <1>2, <1>7
  <2>3. Len(F) + Len(R) = n + 1
    <3>1. Len(E) + Len(R) = n
      BY <1>5
    <3>2. Len(F) = Len(E) + 1
      BY <2>1
    <3>3. QED
      BY <1>6, <3>1, <3>2
  <2>4. ASSUME NEW k \in 1 .. Len(F) PROVE Expired(F[k]) /\ \E j \in 1 .. n + 1 : hosts[j] = F[k]
    <3>1. CASE k \in 1 .. Len(E)
      <4>1. F[k] = E[k]
        BY <2>1, <3>1
      <4>2. Expired(E[k]) /\ \E j \in 1 .. n : hosts[j] = E[k]
        BY <1>5, <3>1
      <4>3. QED
        BY <1>4, <4>1, <4>2
    <3>2. CASE k = Len(E) + 1
      <4>1. F[k] = h
        BY <2>1, <3>2
      <4>2. QED
        BY <1>4, <1>7, <4>1
    <3>3. QED
      BY <2>1, <3>1, <3>2
  <2>5. \A k \in 1 .. Len(R) : ~Expired(R[k]) /\ \E j \in 1 .. n + 1 : hosts[j] = R[k]
    BY <1>4, <1>5
  <2>6. (\A k \in 1 .. Len(E) : k \in 1 .. Len(F)) /\ Len(E) + 1 \in 1 .. Len(F)
    BY <1>6, <2>1
  <2>7. \A j \in 1 .. n + 1 : Expired(hosts[j]) => \E k \in 1 .. Len(F) : F[k] = hosts[j]
    BY <1>3, <1>5, <2>1, <2>6
  <2>8. \A j \in 1 .. n + 1 : ~Expired(hosts[j]) => \E k \in 1 .. Len(R) : k <= j /\ R[k] = hosts[j]
    BY <1>3, <1>5, <1>7
  <2>9. PartsOf(hosts, n + 1, F, R)
    BY <2>3, <2>4, <2>5, <2>7, <2>8, Zenon DEF PartsOf
  <2>10. QED
    BY <2>2, <2>9, Zenon DEF next, F
<1>8. CASE ~Expired(h)
  <2> DEFINE F == next.remaining
  <2>0. F = Append(R, h)
    BY <1>2, <1>8
  <2> HIDE DEF F
  <2>1. /\ Len(F) = Len(R) + 1 /\ F[Len(R) + 1] = h
        /\ \A k \in 1 .. Len(R) : F[k] = R[k]
        /\ \A k \in 1 .. Len(F) : k \in 1 .. Len(R) \/ k = Len(R) + 1
    BY <1>1, <2>0, Appended
  <2>2. next.expired = E
    BY <1>2, <1>8
  <2>3. Len(E) + Len(F) = n + 1
    <3>1. Len(E) + Len(R) = n
      BY <1>5
    <3>2. Len(F) = Len(R) + 1
      BY <2>1
    <3>3. QED
      BY <1>6, <3>1, <3>2
  <2>4. ASSUME NEW k \in 1 .. Len(F) PROVE ~Expired(F[k]) /\ \E j \in 1 .. n + 1 : hosts[j] = F[k]
    <3>1. CASE k \in 1 .. Len(R)
      <4>1. F[k] = R[k] /\ ~Expired(R[k]) /\ \E j \in 1 .. n : hosts[j] = R[k]
        BY <1>5, <2>1, <3>1, Zenon
      <4>2. QED
        BY <1>4, <4>1, Zenon
    <3>2. CASE k = Len(R) + 1
      <4>1. F[k] = h
        BY <2>1, <3>2
      <4>2. ~Expired(F[k])
        BY <1>8, <4>1, Zenon
      <4>3. \E j \in 1 .. n + 1 : hosts[j] = F[k]
        BY <1>4, <4>1, Zenon
      <4>4. QED
        BY <4>2, <4>3
    <3>3. QED
      BY <2>1, <3>1, <3>2
  <2>5. \A k \in 1 .. Len(E) : Expired(E[k]) /\ \E j \in 1 .. n + 1 : hosts[j] = E[k]
    BY <1>4, <1>5
  <2>6. (\A k \in 1 .. Len(R) : k \in 1 .. Len(F)) /\ Len(R) + 1 \in 1 .. Len(F) /\ Len(R) + 1 <= n + 1
    BY <1>5, <1>6, <2>1
  <2>7. ASSUME NEW j \in 1 .. n + 1, ~Expired(hosts[j])
        PROVE  \E k \in 1 .. Len(F) : k <= j /\ F[k] = hosts[j]
    <3>1. CASE j \in 1 .. n
      BY <1>5, <2>1, <2>6, <2>7, <3>1
    <3>2. CASE j = n + 1
      BY <2>1, <2>6, <3>2
    <3>3. QED
      BY <1>3, <3>1, <3>2
  <2>8. \A j \in 1 .. n + 1 : Expired(hosts[j]) => \E k \in 1 .. Len(E) : E[k] = hosts[j]
    BY <1>3, <1>5, <1>8
  <2>9. PartsOf(hosts, n + 1, E, F)
    BY <2>3, <2>4, <2>5, <2>7, <2>8, Zenon DEF PartsOf
  <2>10. QED
    BY <2>2, <2>9, Zenon DEF next, F
<1>9. QED
  BY <1>7, <1>8

(* The two parts of a pool hold all of it, each host in the part it belongs*)
(* to and no further back than it stood.                                   *)
LEMMA PartedParts ==
  ASSUME NEW S, NEW hosts \in Seq(S)
  PROVE  Parted(hosts) \in Parts(S) /\ PartsOf(hosts, Len(hosts), Parted(hosts).expired, Parted(hosts).remaining)
<1> DEFINE F == PartedUpTo(hosts)
           T == {n \in 0 .. Len(hosts) : PartsOf(hosts, n, F[n].expired, F[n].remaining)}
<1>1. /\ F[0] = [expired |-> <<>>, remaining |-> <<>>]
      /\ \A n \in 1 .. Len(hosts) : F[n] = SetAside(hosts[n], F[n - 1])
      /\ \A n \in 0 .. Len(hosts) : F[n] \in Parts(S)
  BY PartedUnfold, Zenon
<1>2. Len(hosts) \in Nat
  OBVIOUS
<1> HIDE DEF F
<1>3. 0 \in T
  <2>1. F[0].expired = <<>> /\ F[0].remaining = <<>>
    BY <1>1
  <2>2. PartsOf(hosts, 0, F[0].expired, F[0].remaining)
    BY <2>1 DEF PartsOf
  <2>3. QED
    BY <1>2, <2>2
<1>4. ASSUME NEW n \in 0 .. Len(hosts) - 1, n \in T PROVE n + 1 \in T
  <2>1. n + 1 \in 1 .. Len(hosts) /\ n \in 0 .. Len(hosts) /\ (n + 1) - 1 = n /\ n + 1 \in 0 .. Len(hosts)
    BY <1>2
  <2>2. F[n + 1] = SetAside(hosts[n + 1], F[n])
    BY <1>1, <2>1
  <2>3. PartsOf(hosts, n + 1, SetAside(hosts[n + 1], F[n]).expired, SetAside(hosts[n + 1], F[n]).remaining)
    BY <1>1, <1>4, <2>1, OneSetAside
  <2>4. QED
    BY <2>1, <2>2, <2>3
<1> HIDE DEF T
<1>5. 0 .. Len(hosts) \subseteq T
  BY <1>2, <1>3, <1>4, IntervalInduction
<1>6. Len(hosts) \in 0 .. Len(hosts)
  BY <1>2
<1>7. Parted(hosts) = F[Len(hosts)]
  BY Zenon DEF Parted, F
<1>8. QED
  BY <1>1, <1>5, <1>6, <1>7 DEF T

-----------------------------------------------------------------------------
(* Pools as sets of hosts.                                                 *)

(* A sequence over a set has its elements there; an empty one has none.    *)
LEMMA Elements ==
  ASSUME NEW S, NEW s \in Seq(S)
  PROVE  /\ ToSet(s) = {s[k] : k \in 1 .. Len(s)} /\ ToSet(s) \subseteq S
         /\ ToSet(<<>>) = {}
  BY DEF ToSet

(* AddHosts and the last append of CheckTTL.                               *)
LEMMA JoinedElements ==
  ASSUME NEW S, NEW s \in Seq(S), NEW t \in Seq(S)
  PROVE  /\ s \o t \in Seq(S) /\ Len(s \o t) = Len(s) + Len(t)
         /\ ToSet(s \o t) = ToSet(s) \cup ToSet(t)
<1>1. /\ s \o t \in Seq(S) /\ Len(s \o t) = Len(s) + Len(t) /\ Len(s) \in Nat /\ Len(t) \in Nat
      /\ \A k \in 1 .. Len(s) : (s \o t)[k] = s[k]
      /\ \A k \in 1 .. Len(t) : (s \o t)[Len(s) + k] = t[k]
  OBVIOUS
<1>2. \A k \in 1 .. Len(s \o t) : k \in 1 .. Len(s) \/ (k - Len(s) \in 1 .. Len(t) /\ k = Len(s) + (k - Len(s)))
  BY <1>1
<1>3. \A k \in 1 .. Len(s) : k \in 1 .. Len(s \o t)
  BY <1>1
<1>4. \A k \in 1 .. Len(t) : Len(s) + k \in 1 .. Len(s \o t)
  BY <1>1
<1> DEFINE J == s \o t
<1>0. J \in Seq(S)
  BY <1>1
<1> HIDE DEF J
<1>5. ToSet(s) = {s[k] : k \in 1 .. Len(s)} /\ ToSet(t) = {t[k] : k \in 1 .. Len(t)} /\ ToSet(J) = {J[k] : k \in 1 .. Len(J)}
  BY <1>0, Elements
<1>6. ASSUME NEW h PROVE h \in ToSet(J) <=> h \in ToSet(s) \cup ToSet(t)
  <2>1. ASSUME NEW k \in 1 .. Len(J) PROVE J[k] \in ToSet(s) \cup ToSet(t)
    BY <1>1, <1>2, <1>5 DEF J
  <2>2. ASSUME NEW k \in 1 .. Len(s) PROVE s[k] \in ToSet(J)
    BY <1>1, <1>3, <1>5, Zenon DEF J
  <2>3. ASSUME NEW k \in 1 .. Len(t) PROVE t[k] \in ToSet(J)
    BY <1>1, <1>4, <1>5, Zenon DEF J
  <2>4. QED
    BY <1>5, <2>1, <2>2, <2>3
<1>7. QED
  BY <1>1, <1>6 DEF J

(* SelectHost puts the first host last.                                    *)
LEMMA TurnedElements ==
  ASSUME NEW S, NEW s \in Seq(S), s # <<>>
  PROVE  LET t == Append(Tail(s), Head(s)) IN
         /\ t \in Seq(S) /\ Len(t) = Len(s) /\ ToSet(t) = ToSet(s) /\ Head(s) \in ToSet(s)
         /\ \A k \in 1 .. Len(s) - 1 : t[k] = s[k + 1]
         /\ t[Len(s)] = s[1]
<1> DEFINE t == Append(Tail(s), Head(s))
<1>1. /\ t \in Seq(S) /\ Len(t) = Len(s) /\ Len(s) \in Nat /\ Len(s) >= 1
      /\ \A k \in 1 .. Len(s) - 1 : t[k] = s[k + 1]
      /\ t[Len(s)] = s[1] /\ Head(s) = s[1]
  OBVIOUS
<1> HIDE DEF t
<1>2. ToSet(s) = {s[k] : k \in 1 .. Len(s)} /\ ToSet(t) = {t[k] : k \in 1 .. Len(s)}
  BY <1>1, Elements
<1>3. ASSUME NEW k \in 1 .. Len(s) PROVE t[k] \in ToSet(s) /\ s[k] \in ToSet(t)
  <2>1. k \in 1 .. Len(s) - 1 \/ k = Len(s)
    BY <1>1
  <2>2. k = 1 \/ (k - 1 \in 1 .. Len(s) - 1 /\ (k - 1) + 1 = k)
    BY <1>1
  <2>3. t[k] \in ToSet(s)
    <3>1. 1 \in 1 .. Len(s) /\ (k # Len(s) => k + 1 \in 1 .. Len(s))
      BY <1>1
    <3>2. QED
      BY <1>1, <1>2, <2>1, <3>1
  <2>4. s[k] \in ToSet(t)
    <3>1. Len(s) \in 1 .. Len(s) /\ (k # 1 => k - 1 \in 1 .. Len(s))
      BY <1>1
    <3>2. CASE k = 1
      BY <1>1, <1>2, <3>1, <3>2
    <3>3. CASE k # 1
      <4>1. t[k - 1] = s[k]
        BY <1>1, <2>2, <3>3
      <4>2. QED
        BY <1>2, <3>1, <3>3, <4>1
    <3>4. QED
      BY <3>2, <3>3
  <2>5. QED
    BY <2>3, <2>4
<1>4. ToSet(t) = ToSet(s)
  BY <1>2, <1>3
<1>5. Head(s) \in ToSet(s)
  BY <1>1, <1>2
<1>6. QED
  BY <1>1, <1>4, <1>5 DEF t

(* What CheckTTL makes of a pool: the expired hosts and the rest.          *)
LEMMA PartedSets ==
  ASSUME NEW S, NEW hosts \in Seq(S)
  PROVE  LET old == Parted(hosts).expired
             rest == Parted(hosts).remaining
         IN  /\ old \in Seq(S) /\ rest \in Seq(S)
             /\ Len(old) + Len(rest) = Len(hosts)
             /\ ToSet(old) \cup ToSet(rest) = ToSet(hosts)
             /\ ToSet(old) \cap ToSet(rest) = {}
             /\ \A j \in 1 .. Len(hosts) : hosts[j] \in ToSet(rest) =>
                  \E k \in 1 .. Len(rest) : k <= j /\ rest[k] = hosts[j]
<1> DEFINE old == Parted(hosts).expired
           rest == Parted(hosts).remaining
<1>1. Parted(hosts) \in Parts(S) /\ PartsOf(hosts, Len(hosts), old, rest)
  BY PartedParts
<1>2. old \in Seq(S) /\ rest \in Seq(S)
  BY <1>1 DEF Parts
<1> HIDE DEF old, rest
<1>3. /\ ToSet(old) = {old[k] : k \in 1 .. Len(old)} /\ ToSet(rest) = {rest[k] : k \in 1 .. Len(rest)}
      /\ ToSet(hosts) = {hosts[k] : k \in 1 .. Len(hosts)}
  BY <1>2, Elements
<1>4. /\ Len(old) + Len(rest) = Len(hosts)
      /\ \A k \in 1 .. Len(old) : Expired(old[k]) /\ \E j \in 1 .. Len(hosts) : hosts[j] = old[k]
      /\ \A k \in 1 .. Len(rest) : ~Expired(rest[k]) /\ \E j \in 1 .. Len(hosts) : hosts[j] = rest[k]
      /\ \A j \in 1 .. Len(hosts) : Expired(hosts[j]) => \E k \in 1 .. Len(old) : old[k] = hosts[j]
      /\ \A j \in 1 .. Len(hosts) : ~Expired(hosts[j]) =>
           \E k \in 1 .. Len(rest) : k <= j /\ rest[k] = hosts[j]
  BY <1>1, Zenon DEF PartsOf
<1>5. ToSet(old) \subseteq ToSet(hosts) /\ ToSet(rest) \subseteq ToSet(hosts)
  <2>1. \A k \in 1 .. Len(old) : old[k] \in ToSet(hosts)
    BY <1>3, <1>4, Zenon
  <2>2. \A k \in 1 .. Len(rest) : rest[k] \in ToSet(hosts)
    BY <1>3, <1>4, Zenon
  <2>3. QED
    BY <1>3, <2>1, <2>2
<1>6. ToSet(hosts) \subseteq ToSet(old) \cup ToSet(rest)
  <2> SUFFICES ASSUME NEW j \in 1 .. Len(hosts) PROVE hosts[j] \in ToSet(old) \cup ToSet(rest)
    BY <1>3
  <2>1. CASE Expired(hosts[j])
    BY <1>3, <1>4, <2>1
  <2>2. CASE ~Expired(hosts[j])
    BY <1>3, <1>4, <2>2
  <2>3. QED
    BY <2>1, <2>2
<1>7. \A h \in ToSet(rest) : ~Expired(h)
  BY <1>3, <1>4, Zenon
<1>8. \A h \in ToSet(old) : Expired(h)
  BY <1>3, <1>4, Zenon
<1>9. ToSet(old) \cap ToSet(rest) = {}
  BY <1>7, <1>8, Zenon
<1>10. \A j \in 1 .. Len(hosts) : hosts[j] \in ToSet(rest) => \E k \in 1 .. Len(rest) : k <= j /\ rest[k] = hosts[j]
  BY <1>4, <1>7, Zenon
<1>11. QED
  BY <1>2, <1>4, <1>5, <1>6, <1>9, <1>10 DEF old, rest

(* A bijection is a function that has no value twice.                      *)
LEMMA OneToOne ==
  ASSUME NEW S, NEW T, NEW g \in Bijection(S, T)
  PROVE  g \in [S -> T] /\ \A a, b \in S : g[a] = g[b] => a = b
<1>1. g \in [S -> T] /\ IsInjective(g)
  BY Zenon DEF Bijection, Injection
<1>2. QED
  BY <1>1 DEF IsInjective

(* What Acquire hands out are n hosts of p that nobody has to give back.   *)
LEMMA AcquiredHosts ==
  ASSUME TypedInv, NEW p \in Providers, NEW n \in Nat, MayAcquire(p, n)
  PROVE  /\ Acquired(p, n) \in Seq(HostsOf(p)) /\ Len(Acquired(p, n)) = n
         /\ ToSet(Acquired(p, n)) \cap out = {}
<1> DEFINE ids == IF p = Static THEN FirstNodes(n) ELSE CHOOSE f \in Injection(1 .. n, Free(p)) : TRUE
           hosts == [k \in 1 .. n |-> [id |-> ids[k], provider |-> p, born |-> clock]]
<1>1. Acquired(p, n) = hosts
  BY Zenon DEF Acquired
<1>2. clock \in Nat /\ out \subseteq Rented
  BY DEF TypedInv, OwnerTyped, LedgerTyped
<1>3. CASE p = Static
  <2>1. n <= Nodes
    BY <1>3 DEF MayAcquire
  <2>2. \A k \in 1 .. n : ids[k] = k
    BY <1>3 DEF FirstNodes
  <2> HIDE DEF ids
  <2>3. \A k \in 1 .. n : hosts[k] \in HostsOf(p) /\ hosts[k] \notin Rented
    BY <1>2, <1>3, <2>1, <2>2, NodesAssumption DEF HostsOf, Addresses, Rented
  <2> HIDE DEF hosts
  <2>4. hosts \in Seq(HostsOf(p)) /\ Len(hosts) = n
    BY <2>3 DEF hosts
  <2>5. ToSet(hosts) = {hosts[k] : k \in 1 .. n}
    BY <2>4, Elements
  <2>6. QED
    BY <1>1, <1>2, <2>3, <2>4, <2>5
<1>4. CASE p # Static
  <2>1. IsFiniteSet(Free(p)) /\ Cardinality(Free(p)) \in Nat /\ n <= Cardinality(Free(p))
    <3>1. IsFiniteSet(1 .. HostCap)
      BY FS_Interval, CapsAssumption
    <3>2. IsFiniteSet(Free(p))
      BY <3>1, FS_Subset DEF Free
    <3>3. QED
      BY <1>4, <3>2, FS_CardinalityType DEF MayAcquire
  <2>2. PICK g \in Bijection(1 .. Cardinality(Free(p)), Free(p)) : TRUE
    BY <2>1, FS_CardinalityType, Fun_ExistsBij
  <2> DEFINE f == [k \in 1 .. n |-> g[k]]
  <2>3. f \in Injection(1 .. n, Free(p))
    <3>1. /\ g \in [1 .. Cardinality(Free(p)) -> Free(p)]
          /\ \A a, b \in 1 .. Cardinality(Free(p)) : g[a] = g[b] => a = b
      BY <2>2, OneToOne
    <3>2. f \in [1 .. n -> Free(p)] /\ \A a, b \in 1 .. n : f[a] = f[b] => a = b
      <4>1. \A k \in 1 .. n : k \in 1 .. Cardinality(Free(p)) /\ f[k] = g[k]
        BY <2>1
      <4>2. \A k \in 1 .. n : f[k] \in Free(p)
        BY <3>1, <4>1
      <4>3. \A a, b \in 1 .. n : f[a] = f[b] => a = b
        BY <3>1, <4>1
      <4>4. QED
        BY <4>2, <4>3
    <3> HIDE DEF f
    <3>3. QED
      BY <3>2, Fun_IsInj
  <2>4. ids \in Injection(1 .. n, Free(p))
    BY <1>4, <2>3, Zenon
  <2>5. \A k \in 1 .. n : ids[k] \in Free(p)
    BY <2>4, Fun_InjectionProperties
  <2> HIDE DEF ids
  <2>6. \A k \in 1 .. n : hosts[k] \in HostsOf(p) /\ hosts[k] \notin out
    BY <1>2, <1>4, <2>5 DEF HostsOf, Free
  <2> HIDE DEF hosts
  <2>7. hosts \in Seq(HostsOf(p)) /\ Len(hosts) = n
    BY <2>6 DEF hosts
  <2>8. ToSet(hosts) = {hosts[k] : k \in 1 .. n}
    BY <2>7, Elements
  <2>9. QED
    BY <1>1, <2>6, <2>7, <2>8
<1>5. QED
  BY <1>3, <1>4

-----------------------------------------------------------------------------
(* The static provider's clients.                                          *)

(* What a step does to the static provider: nothing, a step of a worker's  *)
(* call, the beginning of one on the host whose turn it is, or Teardown.   *)
LEMMA StaticSteps ==
  ASSUME [Next]_vars
  PROVE  \/ UNCHANGED staticVars
         \/ \E x \in Workers : CallStep(x)
         \/ \E x \in Workers : pool[Static] # <<>> /\ Execute(x, Head(pool[Static]).id)
         \/ CloseAll
<1>1. CASE Owner
  BY <1>1, Zenon DEF Owner, SetupProvider, SetupFails, SetupEnds, AddHosts, TakeHosts, BeginTeardown,
     ReleaseTaken, TearProviderDown, EndTeardown
<1>2. CASE CheckTTL
  BY <1>2, Zenon DEF CheckTTL, BeginCheck, PartPool, AcquireReplacements, AcquireFails, AddReplacements,
     ReleaseExpired, EndCheck
<1>3. ASSUME NEW x \in Workers, Use(x) \/ Call(x)
      PROVE  \/ UNCHANGED staticVars
             \/ CallStep(x)
             \/ pool[Static] # <<>> /\ Execute(x, Head(pool[Static]).id)
  BY <1>3, Zenon DEF Use, Call
<1>4. CASE Tick \/ Over \/ UNCHANGED vars
  BY <1>4 DEF Tick, Over, vars
<1>5. QED
  BY <1>1, <1>2, <1>3, <1>4, Zenon DEF Next

(* Calls, dials and Teardown keep every open client in the cache.          *)
LEMMA CallsKept == ASSUME TypedInv, CallsInv, [Next]_vars PROVE CallsInv'
<1>1. CASE UNCHANGED staticVars
  BY <1>1 DEF CallsInv, staticVars, NoConnectionLost
<1>2. ASSUME NEW x \in Workers, CallStep(x) PROVE CallsInv'
  <2> USE DEF CallsInv, NoConnectionLost, ExecGoes, Idle, Stages, Addresses, None
  <2> USE NodesAssumption, WorkersAssumption
  <2>1. CASE Found(x)
    BY <2>1 DEF Found
  <2>2. CASE Dial(x)
    BY <2>2 DEF Dial
  <2>3. CASE DialSucceeds(x)
    BY <2>3 DEF DialSucceeds
  <2>4. CASE DialFails(x)
    BY <2>4 DEF DialFails
  <2>5. CASE EndCommand(x)
    BY <2>5 DEF EndCommand
  <2>6. QED
    BY <1>2, <2>1, <2>2, <2>3, <2>4, <2>5 DEF CallStep
<1>3. ASSUME NEW x \in Workers, pool[Static] # <<>>, Execute(x, Head(pool[Static]).id) PROVE CallsInv'
  <2> DEFINE a == Head(pool[Static]).id
  <2>1. a \in Addresses
    <3>1. pool[Static] \in Seq(HostsOf(Static))
      BY StaticAssumption DEF TypedInv, PoolTyped
    <3>2. Head(pool[Static]) \in HostsOf(Static)
      BY <1>3, <3>1
    <3>3. QED
      BY <3>2 DEF HostsOf
  <2> HIDE DEF a
  <2>2. Execute(x, a)
    BY <1>3, Zenon DEF a
  <2>3. QED
    BY <2>1, <2>2, NodesAssumption DEF CallsInv, NoConnectionLost, Execute, Idle, Stages, Addresses, None
<1>4. CASE CloseAll
  <2>1. \A x \in Workers : exec[x].at # "dialling"
    BY <1>4, WorkersAssumption DEF CallsInv, CloseAll
  <2>2. \A b \in Addresses : open'[b] = 0
    BY <1>4 DEF CallsInv, CloseAll, NoConnectionLost
  <2>3. open' \in [Addresses -> Nat]
    <3>1. open' = [b \in Addresses |-> IF b \in conns THEN open[b] - 1 ELSE open[b]]
      BY <1>4, Zenon DEF CloseAll
    <3>2. \A b \in Addresses : (IF b \in conns THEN open[b] - 1 ELSE open[b]) \in Nat
      BY <2>2, <3>1
    <3>3. QED
      BY <3>1, <3>2, Zenon
  <2>4. QED
    BY <1>4, <2>1, <2>2, <2>3 DEF CallsInv, CloseAll, NoConnectionLost
<1>5. QED
  BY <1>1, <1>2, <1>3, <1>4, StaticSteps

(* The invariant holds at first.                                           *)
LEMMA InitIInv == Init => IInv
<1> SUFFICES ASSUME Init PROVE IInv
  OBVIOUS
<1>1. config \in Seq(FleetEntry)
  BY FleetsAssumption DEF Init
<1>2. Len(config) \in Nat
  BY <1>1
<1>3. Pooled = {} /\ Taken = {} /\ Old = {} /\ New = {}
  <2>1. \A p \in Providers : ToSet(pool[p]) = {}
    BY DEF Init, ToSet
  <2>2. QED
    BY <2>1 DEF Init, Pooled, Taken, Old, New, NoCheck, ToSet
<1>4. TypedInv
  <2>1. NoCheck \in Checks
    BY StaticAssumption DEF NoCheck, Checks
  <2>2. <<Static, <<>>>> \in Providers \X Seq(Hosts) /\ <<>> \in Seq(HostsOf(Static))
    <3>1. \A S : <<>> \in Seq(S)
      OBVIOUS
    <3>2. QED
      BY <3>1, StaticAssumption
  <2>3. \A p \in Providers : pool[p] \in Seq(HostsOf(p))
    BY DEF Init
  <2>4. pool \in [Providers -> Seq(Hosts)]
    BY DEF Init
  <2>5. taken[2] = <<>> /\ taken[1] = Static /\ ttl.p = Static /\ ttl.expired = <<>> /\ ttl.fresh = <<>>
    BY DEF Init, NoCheck
  <2>6. QED
    BY <1>1, <2>1, <2>2, <2>3, <2>4, <2>5 DEF Init, TypedInv, OwnerTyped, PoolTyped, CheckTyped, LedgerTyped
<1>5. CheckInv
  BY DEF Init, CheckInv, NoCheck
<1>6. OwnerInv
  BY <1>2 DEF Init, OwnerInv, NoCheck, Unused, TearingDown
<1>10. NamesInv /\ UpInv
  BY <1>2 DEF Init, NamesInv, UpInv, TearingDown, Registered
<1>7. Apart /\ Ledger
  BY <1>3 DEF Init, Apart, Ledger
<1>8. CallsInv
  BY NodesAssumption DEF Init, StaticInit, CallsInv, NoConnectionLost, Idle, Stages, Addresses, None
<1>9. QED
  BY <1>4, <1>5, <1>6, <1>7, <1>8, <1>10 DEF IInv

-----------------------------------------------------------------------------
(* Types.                                                                  *)

(* The hosts of one provider are hosts.                                    *)
LEMMA HostsOfOne ==
  ASSUME NEW p \in Providers, NEW s \in Seq(HostsOf(p))
  PROVE  s \in Seq(Hosts) /\ ToSet(s) \subseteq HostsOf(p) /\ \A h \in ToSet(s) : h.provider = p
<1>1. HostsOf(p) \subseteq Hosts
  BY DEF Hosts
<1>2. ToSet(s) \subseteq HostsOf(p)
  BY Elements
<1>3. \A h \in HostsOf(p) : h.provider = p
  BY DEF HostsOf
<1> DEFINE H == Hosts
           G == HostsOf(p)
<1> HIDE DEF H, G
<1>4. G \subseteq H /\ s \in Seq(G) => s \in Seq(H)
  OBVIOUS
<1>5. QED
  BY <1>1, <1>2, <1>3, <1>4 DEF H, G

(* A pool is set.                                                          *)
LEMMA PoolSet ==
  ASSUME PoolTyped, NEW p \in Providers, NEW s \in Seq(HostsOf(p)), pool' = [pool EXCEPT ![p] = s]
  PROVE  PoolTyped' /\ pool'[p] = s /\ \A q \in Providers : q # p => pool'[q] = pool[q]
<1>1. pool \in [Providers -> Seq(Hosts)] /\ s \in Seq(Hosts)
  BY HostsOfOne DEF PoolTyped
<1>2. pool' \in [Providers -> Seq(Hosts)] /\ pool'[p] = s /\ \A q \in Providers : q # p => pool'[q] = pool[q]
  BY <1>1
<1>3. \A q \in Providers : pool'[q] \in Seq(HostsOf(q))
  BY <1>2, Zenon DEF PoolTyped
<1>4. QED
  BY <1>2, <1>3, Zenon DEF PoolTyped, HostsOf, Addresses, Hosts

(* Names of providers in the configuration.                                *)
LEMMA NamesTyped == ASSUME OwnerTyped PROVE \A k \in 1 .. Len(config) : config[k].provider \in Providers
<1>1. \A k \in 1 .. Len(config) : config[k] \in FleetEntry
  BY DEF OwnerTyped
<1>2. \A e \in FleetEntry : e.provider \in Providers
  BY DEF FleetEntry
<1>3. QED
  BY <1>1, <1>2

(* While the names stay, the registered ones do.                           *)
LEMMA SameNames == ASSUME UNCHANGED ready PROVE Registered' = Registered
  BY DEF Registered

(* SelectHost, AddHosts, Setup and Teardown.                               *)
LEMMA OwnerTypes ==
  ASSUME TypedInv, Owner
  PROVE  OwnerTyped' /\ PoolTyped' /\ UNCHANGED ttl /\ Registered \subseteq Registered'
<1> USE SameNames DEF TypedInv
<1>1. CASE SetupProvider
  <2>1. config[at].provider \in Providers /\ at \in Nat \ {0}
    BY <1>1, NamesTyped DEF SetupProvider, OwnerTyped
  <2>2. ready' = [ready EXCEPT ![config[at].provider] = at] /\ ready \in [Providers -> Nat]
    BY <1>1 DEF SetupProvider, OwnerTyped
  <2>3. ready' \in [Providers -> Nat] /\ Registered \subseteq Registered'
    BY <2>1, <2>2 DEF Registered
  <2>4. OwnerTyped'
    BY <1>1, <2>1, <2>3 DEF SetupProvider, OwnerTyped
  <2>5. UNCHANGED <<pool, ttl>>
    BY <1>1 DEF SetupProvider
  <2>6. QED
    BY <2>3, <2>4, <2>5, Zenon DEF PoolTyped, HostsOf, Hosts, Addresses
<1>2. CASE SetupFails \/ SetupEnds \/ BeginTeardown \/ EndTeardown
  BY <1>2 DEF SetupFails, SetupEnds, BeginTeardown, EndTeardown, OwnerTyped, PoolTyped, ownerVars, ledgerVars
<1>3. ASSUME NEW p \in Providers, AddHosts(p) PROVE OwnerTyped' /\ PoolTyped' /\ UNCHANGED <<ttl, ready>>
  <2> DEFINE s == pool[p] \o Acquired(p, 1)
  <2>1. pool' = [pool EXCEPT ![p] = s] /\ UNCHANGED <<config, ready, clock, ownerVars, ttl, overlap>>
    BY <1>3, Zenon DEF AddHosts, ledgerVars
  <2>2. s \in Seq(HostsOf(p))
    <3>1. MayAcquire(p, 1)
      BY <1>3 DEF AddHosts
    <3>2. Acquired(p, 1) \in Seq(HostsOf(p)) /\ pool[p] \in Seq(HostsOf(p))
      BY <3>1, AcquiredHosts DEF PoolTyped
    <3>3. QED
      BY <3>2, JoinedElements
  <2> HIDE DEF s
  <2>3. PoolTyped'
    BY <2>1, <2>2, PoolSet
  <2>4. QED
    BY <2>1, <2>3 DEF OwnerTyped, ownerVars
<1>4. ASSUME NEW p \in Providers, TakeHosts(p) PROVE OwnerTyped' /\ PoolTyped' /\ UNCHANGED <<ttl, ready>>
  <2>1. /\ pool' = [pool EXCEPT ![p] = <<>>] /\ taken' = <<p, pool[p]>> /\ left' = left \ {p}
        /\ owner' = "release" /\ overlap' \subseteq overlap \cup {p}
        /\ UNCHANGED <<config, ready, clock, at, ttl>>
    BY <1>4 DEF TakeHosts
  <2>2. pool[p] \in Seq(HostsOf(p)) /\ <<>> \in Seq(HostsOf(p))
    BY DEF PoolTyped
  <2>3. PoolTyped' /\ pool[p] \in Seq(Hosts)
    BY <2>1, <2>2, PoolSet, HostsOfOne
  <2>4. taken' \in Providers \X Seq(Hosts) /\ taken'[1] = p /\ taken'[2] = pool[p]
    BY <2>1, <2>3
  <2>5. OwnerTyped'
    BY <2>1, <2>2, <2>4 DEF OwnerTyped
  <2>6. QED
    BY <2>1, <2>3, <2>5
<1>5. CASE ReleaseTaken
  BY <1>5 DEF ReleaseTaken, OwnerTyped, PoolTyped, ledgerVars
<1>6. CASE TearProviderDown
  <2>1. <<Static, <<>>>> \in Providers \X Seq(Hosts) /\ <<>> \in Seq(HostsOf(Static))
    <3>1. \A S : <<>> \in Seq(S)
      OBVIOUS
    <3>2. QED
      BY <3>1, StaticAssumption
  <2>2. taken' = <<Static, <<>>>> /\ owner' = "teardown"
        /\ UNCHANGED <<config, ready, pool, clock, at, left, ttl, overlap>>
    BY <1>6, Zenon DEF TearProviderDown
  <2>3. QED
    BY <2>1, <2>2 DEF OwnerTyped, PoolTyped
<1>7. QED
  BY <1>1, <1>2, <1>3, <1>4, <1>5, <1>6 DEF Owner, SetupFails, SetupEnds, BeginTeardown, EndTeardown,
     SetupProvider, ReleaseTaken, TearProviderDown

(* No check is under way.                                                  *)
LEMMA NoCheckTyped ==
  /\ NoCheck \in Checks /\ NoCheck.expired \in Seq(HostsOf(NoCheck.p)) /\ NoCheck.fresh \in Seq(HostsOf(NoCheck.p))
  /\ NoCheck.at = "idle" /\ NoCheck.expired = <<>> /\ NoCheck.fresh = <<>> /\ NoCheck.left = {} /\ NoCheck.p \in Providers
<1>1. \A S : <<>> \in Seq(S)
  OBVIOUS
<1>2. QED
  BY <1>1, StaticAssumption DEF NoCheck, Checks

(* CheckTTL as far as it has come.                                         *)
LEMMA CheckTypes ==
  ASSUME TypedInv, CheckInv, CheckTTL
  PROVE  PoolTyped' /\ CheckTyped' /\ CheckInv' /\ UNCHANGED <<config, ready, clock, ownerVars, ledgerVars>>
<1> USE DEF TypedInv
<1>1. UNCHANGED <<config, ready, clock, ownerVars, ledgerVars>>
  BY Zenon DEF CheckTTL, BeginCheck, PartPool, AcquireReplacements, AcquireFails, AddReplacements, ReleaseExpired, EndCheck
<1>2. Registered' = Registered /\ Registered \subseteq Providers /\ clock \in Nat
  BY <1>1, SameNames DEF OwnerTyped, Registered
<1>3. /\ ttl \in Checks /\ ttl.p \in Providers /\ ttl.left \subseteq Registered
      /\ ttl.expired \in Seq(HostsOf(ttl.p)) /\ ttl.fresh \in Seq(HostsOf(ttl.p))
      /\ ttl.expired \in Seq(Hosts) /\ ttl.fresh \in Seq(Hosts)
  BY DEF CheckTyped, CheckInv, Checks
<1>4. ASSUME UNCHANGED pool PROVE PoolTyped'
  BY <1>4, Zenon DEF PoolTyped, HostsOf, Hosts, Addresses
<1>5. ASSUME BeginCheck PROVE PoolTyped' /\ CheckTyped' /\ CheckInv'
  <2>1. ttl' = [NoCheck EXCEPT !.at = "next", !.now = clock, !.left = Registered] /\ UNCHANGED pool
    BY <1>5, Zenon DEF BeginCheck
  <2>2. /\ ttl' \in Checks /\ ttl'.at = "next" /\ ttl'.expired = <<>> /\ ttl'.fresh = <<>> /\ ttl'.left = Registered
        /\ ttl'.expired = NoCheck.expired /\ ttl'.fresh = NoCheck.fresh /\ ttl'.p = NoCheck.p
    BY <1>2, <2>1, NoCheckTyped DEF Checks
  <2>3. CheckTyped'
    BY <2>2, NoCheckTyped DEF CheckTyped, HostsOf, Addresses, Checks, Hosts
  <2>4. QED
    BY <1>1, <1>2, <1>4, <2>1, <2>2, <2>3 DEF CheckInv
<1>6. ASSUME NEW p \in Providers, PartPool(p) PROVE PoolTyped' /\ CheckTyped' /\ CheckInv'
  <2>1. ttl.at = "next" /\ p \in ttl.left
    BY <1>6 DEF PartPool
  <2>2. CASE NothingExpired(p)
    <3>1. ttl' = [ttl EXCEPT !.left = @ \ {p}] /\ UNCHANGED pool
      BY <2>2, Zenon DEF NothingExpired
    <3>2. /\ ttl' \in Checks /\ ttl'.at = ttl.at /\ ttl'.expired = ttl.expired /\ ttl'.left \subseteq ttl.left
          /\ ttl'.fresh = ttl.fresh /\ ttl'.p = ttl.p
      BY <1>3, <3>1 DEF Checks
    <3>3. CheckTyped'
      BY <1>3, <3>2 DEF CheckTyped, HostsOf, Addresses, Checks, Hosts
    <3>4. QED
      BY <1>2, <1>3, <1>4, <2>1, <3>1, <3>2, <3>3 DEF CheckInv
  <2>3. CASE SomeExpired(p)
    <3> DEFINE old == Parted(pool[p]).expired
               rest == Parted(pool[p]).remaining
    <3>1. /\ pool' = [pool EXCEPT ![p] = rest]
          /\ ttl' = [ttl EXCEPT !.left = @ \ {p}, !.p = p, !.at = "acquire", !.expired = old]
      BY <2>3 DEF SomeExpired, PoolTyped
    <3>2. old \in Seq(HostsOf(p)) /\ rest \in Seq(HostsOf(p))
      <4>1. pool[p] \in Seq(HostsOf(p))
        BY DEF PoolTyped
      <4>2. QED
        BY <4>1, PartedSets
    <3> HIDE DEF old, rest
    <3>3. PoolTyped' /\ old \in Seq(Hosts)
      BY <3>1, <3>2, PoolSet, HostsOfOne
    <3>4. /\ ttl' \in Checks /\ ttl'.at = "acquire" /\ ttl'.expired = old /\ ttl'.left \subseteq ttl.left
          /\ ttl'.fresh = ttl.fresh /\ ttl'.p = p
      BY <1>3, <3>1, <3>3 DEF Checks
    <3>5. ttl.fresh = <<>>
      BY <2>1 DEF CheckInv
    <3>6. CheckTyped'
      BY <3>2, <3>4, <3>5 DEF CheckTyped, HostsOf, Addresses, Checks, Hosts
    <3>7. QED
      BY <1>2, <1>3, <2>1, <3>3, <3>4, <3>6 DEF CheckInv
  <2>4. QED
    BY <1>6, <2>2, <2>3 DEF PartPool
<1>7. ASSUME AcquireReplacements PROVE PoolTyped' /\ CheckTyped' /\ CheckInv'
  <2> DEFINE new == Acquired(ttl.p, Len(ttl.expired))
  <2>1. /\ ttl.at = "acquire" /\ MayAcquire(ttl.p, Len(ttl.expired))
        /\ ttl' = [ttl EXCEPT !.at = "add", !.fresh = new] /\ UNCHANGED pool
    BY <1>7, Zenon DEF AcquireReplacements
  <2>2. new \in Seq(HostsOf(ttl.p)) /\ Len(new) = Len(ttl.expired)
    <3>1. Len(ttl.expired) \in Nat
      BY <1>3
    <3>2. QED
      BY <1>3, <2>1, <3>1, AcquiredHosts
  <2> HIDE DEF new
  <2>3. new \in Seq(Hosts)
    BY <1>3, <2>2, HostsOfOne
  <2>4. /\ ttl' \in Checks /\ ttl'.at = "add" /\ ttl'.expired = ttl.expired /\ ttl'.left = ttl.left
        /\ ttl'.fresh = new /\ ttl'.p = ttl.p
    BY <1>3, <2>1, <2>3 DEF Checks
  <2>5. CheckTyped'
    BY <1>3, <2>2, <2>4 DEF CheckTyped, HostsOf, Addresses, Checks, Hosts
  <2>6. QED
    BY <1>2, <1>3, <1>4, <2>1, <2>2, <2>4, <2>5 DEF CheckInv
<1>8. ASSUME ttl' = NoCheck, UNCHANGED pool PROVE PoolTyped' /\ CheckTyped' /\ CheckInv'
  <2>1. CheckTyped'
    BY <1>8, NoCheckTyped DEF CheckTyped, HostsOf, Addresses, Checks, Hosts
  <2>2. QED
    BY <1>4, <1>8, <2>1, NoCheckTyped DEF CheckInv
<1>9. ASSUME AcquireFails \/ EndCheck PROVE PoolTyped' /\ CheckTyped' /\ CheckInv'
  BY <1>8, <1>9, Zenon DEF AcquireFails, EndCheck
<1>10. ASSUME AddReplacements PROVE PoolTyped' /\ CheckTyped' /\ CheckInv'
  <2> DEFINE s == pool[ttl.p] \o ttl.fresh
  <2>1. ttl.at = "add" /\ ttl' = [ttl EXCEPT !.at = "release"] /\ pool' = [pool EXCEPT ![ttl.p] = s]
    BY <1>10 DEF AddReplacements
  <2>2. s \in Seq(HostsOf(ttl.p))
    <3>1. pool[ttl.p] \in Seq(HostsOf(ttl.p))
      BY <1>3 DEF PoolTyped
    <3>2. QED
      BY <1>3, <3>1, JoinedElements
  <2> HIDE DEF s
  <2>3. PoolTyped'
    BY <1>3, <2>1, <2>2, PoolSet
  <2>4. /\ ttl' \in Checks /\ ttl'.at = "release" /\ ttl'.expired = ttl.expired /\ ttl'.left = ttl.left
        /\ ttl'.fresh = ttl.fresh /\ ttl'.p = ttl.p
    BY <1>3, <2>1 DEF Checks
  <2>5. CheckTyped'
    BY <1>3, <2>4 DEF CheckTyped, HostsOf, Addresses, Checks, Hosts
  <2>6. QED
    BY <1>2, <1>3, <2>1, <2>3, <2>4, <2>5 DEF CheckInv
<1>11. ASSUME ReleaseExpired PROVE PoolTyped' /\ CheckTyped' /\ CheckInv'
  <2>1. ttl.at = "release" /\ UNCHANGED pool
    BY <1>11, Zenon DEF ReleaseExpired
  <2>2. ttl' = NoCheck \/ ttl' = [ttl EXCEPT !.at = "next", !.expired = <<>>, !.fresh = <<>>]
    BY <1>11, Zenon DEF ReleaseExpired
  <2>3. CASE ttl' = [ttl EXCEPT !.at = "next", !.expired = <<>>, !.fresh = <<>>]
    <3>1. \A S : <<>> \in Seq(S)
      OBVIOUS
    <3>2. /\ ttl' \in Checks /\ ttl'.at = "next" /\ ttl'.expired = <<>> /\ ttl'.left = ttl.left
          /\ ttl'.fresh = <<>> /\ ttl'.p = ttl.p
      BY <1>3, <2>3, <3>1 DEF Checks
    <3>3. CheckTyped'
      BY <3>1, <3>2 DEF CheckTyped, HostsOf, Addresses, Checks, Hosts
    <3>4. QED
      BY <1>2, <1>3, <1>4, <2>1, <3>2, <3>3 DEF CheckInv
  <2>4. QED
    BY <1>8, <2>1, <2>2, <2>3
<1>12. QED
  BY <1>1, <1>5, <1>6, <1>7, <1>9, <1>10, <1>11, Zenon DEF CheckTTL

-----------------------------------------------------------------------------
(* Where the owner is.                                                     *)

(* CheckTTL fills no pool that it had not found filled, and works only in  *)
(* the time of an orchestrator that was set up.                            *)
LEMMA CheckFills ==
  ASSUME TypedInv, CheckInv, OwnerInv, CheckTTL
  PROVE  /\ ~Unused
         /\ \A p \in Providers : Passed(p)' => Passed(p)
         /\ \A p \in Providers : pool'[p] # <<>> => p \in Registered
<1>1. /\ ttl \in Checks /\ ttl.p \in Providers /\ PoolTyped /\ Registered \subseteq Providers
      /\ \A p \in Providers : pool[p] # <<>> => p \in Registered
  BY DEF TypedInv, CheckTyped, Checks, OwnerInv, Registered
<1>2. CASE BeginCheck
  <2>1. owner = "using" /\ UNCHANGED pool /\ ttl' = [NoCheck EXCEPT !.at = "next", !.now = clock, !.left = Registered]
    BY <1>2, Zenon DEF BeginCheck
  <2>2. ttl'.at = "next"
    BY <2>1 DEF NoCheck
  <2>3. QED
    BY <1>1, <2>1, <2>2 DEF Unused, Passed
<1>3. ASSUME ttl.at # "idle" PROVE ~Unused
  BY <1>3 DEF OwnerInv
<1>4. ASSUME NEW p \in Providers, PartPool(p)
      PROVE  /\ ~Unused
             /\ \A q \in Providers : Passed(q)' => Passed(q)
             /\ \A q \in Providers : pool'[q] # <<>> => q \in Registered
  <2>1. ttl.at = "next" /\ p \in Registered
    BY <1>4 DEF PartPool, CheckInv
  <2>2. CASE NothingExpired(p)
    <3>1. UNCHANGED pool /\ ttl' = [ttl EXCEPT !.left = @ \ {p}]
      BY <2>2, Zenon DEF NothingExpired
    <3>2. ttl'.at = "next"
      BY <1>1, <2>1, <3>1 DEF Checks
    <3>3. QED
      BY <1>1, <1>3, <2>1, <3>1, <3>2 DEF Passed
  <2>3. CASE SomeExpired(p)
    <3> DEFINE old == Parted(pool[p]).expired
               rest == Parted(pool[p]).remaining
    <3>1. pool[p] \in Seq(HostsOf(p))
      BY <1>1 DEF PoolTyped
    <3>2. /\ old # <<>> /\ ttl' = [ttl EXCEPT !.left = @ \ {p}, !.p = p, !.at = "acquire", !.expired = old]
          /\ pool' = [pool EXCEPT ![p] = rest]
      BY <2>3, <1>1 DEF SomeExpired, PoolTyped
    <3>3. old \in Seq(HostsOf(p)) /\ rest \in Seq(HostsOf(p)) /\ Len(old) + Len(rest) = Len(pool[p])
      BY <3>1, PartedSets
    <3> HIDE DEF old, rest
    <3>4. pool[p] # <<>>
      BY <3>1, <3>2, <3>3
    <3>5. pool'[p] = rest /\ \A q \in Providers : q # p => pool'[q] = pool[q]
      BY <1>1, <3>2, <3>3, PoolSet
    <3>6. ttl'.p = p
      BY <1>1, <3>2 DEF Checks
    <3>7. QED
      BY <1>1, <1>3, <2>1, <3>4, <3>5, <3>6 DEF Passed
  <2>4. QED
    BY <1>4, <2>2, <2>3 DEF PartPool
<1>5. CASE AcquireReplacements
  <2>1. ttl.at = "acquire" /\ UNCHANGED pool
        /\ ttl' = [ttl EXCEPT !.at = "add", !.fresh = Acquired(ttl.p, Len(ttl.expired))]
    BY <1>5, Zenon DEF AcquireReplacements
  <2>2. ttl'.p = ttl.p
    BY <1>1, <2>1 DEF Checks
  <2>3. QED
    BY <1>1, <1>3, <2>1, <2>2 DEF Passed
<1>6. CASE AddReplacements
  <2>1. ttl.at = "add" /\ ttl' = [ttl EXCEPT !.at = "release"]
        /\ \A q \in Providers : q # ttl.p => pool'[q] = pool[q]
    BY <1>1, <1>6 DEF AddReplacements, PoolTyped
  <2>2. ttl'.at = "release" /\ ttl.p \in Registered
    BY <1>1, <2>1 DEF Checks, CheckInv
  <2>3. QED
    BY <1>1, <1>3, <2>1, <2>2 DEF Passed
<1>7. CASE AcquireFails \/ ReleaseExpired \/ EndCheck
  <2>1. ttl.at # "idle" /\ UNCHANGED pool
    BY <1>7 DEF AcquireFails, ReleaseExpired, EndCheck
  <2>2. ttl' = NoCheck \/ ttl' = [ttl EXCEPT !.at = "next", !.expired = <<>>, !.fresh = <<>>]
    BY <1>7, Zenon DEF AcquireFails, ReleaseExpired, EndCheck
  <2>3. ttl'.at \in {"idle", "next"}
    <3>1. [ttl EXCEPT !.at = "next", !.expired = <<>>, !.fresh = <<>>].at = "next"
      BY <1>1 DEF Checks
    <3>2. QED
      BY <2>2, <3>1, NoCheckTyped, Zenon
  <2>4. QED
    BY <1>1, <1>3, <2>1, <2>3 DEF Passed
<1>8. QED
  BY <1>2, <1>4, <1>5, <1>6, <1>7, Zenon DEF CheckTTL

(* The owner's own steps.                                                  *)
LEMMA OwnerKept == ASSUME TypedInv, CheckInv, OwnerInv, Owner PROVE OwnerInv'
<1>1. /\ PoolTyped /\ Len(config) \in Nat /\ at \in Nat /\ Registered \subseteq Providers /\ left \subseteq Registered
      /\ ttl.at \in {"idle", "next", "acquire", "add", "release"}
      /\ \A k \in 1 .. Len(config) : config[k].provider \in Providers
      /\ ttl.at \notin {"idle", "next"} => ttl.p \in Registered
  BY NamesTyped DEF TypedInv, OwnerTyped, CheckTyped, Checks, CheckInv, Registered
<1> USE SameNames DEF OwnerInv, Unused, TearingDown, Passed
<1>2. CASE SetupProvider
  BY <1>1, <1>2 DEF SetupProvider
<1>3. CASE SetupFails
  BY <1>1, <1>3 DEF SetupFails, ledgerVars
<1>4. CASE SetupEnds
  BY <1>1, <1>4 DEF SetupEnds, ledgerVars
<1>5. ASSUME NEW p \in Providers, AddHosts(p) PROVE OwnerInv'
  <2>1. /\ owner = "using" /\ p \in Registered /\ UNCHANGED <<config, ready, owner, at, left, taken, ttl, overlap>>
        /\ \A q \in Providers : q # p => pool'[q] = pool[q]
    BY <1>1, <1>5 DEF AddHosts, PoolTyped, ownerVars, ledgerVars
  <2>2. QED
    BY <1>1, <2>1
<1>6. CASE BeginTeardown
  BY <1>1, <1>6 DEF BeginTeardown, ledgerVars
<1>7. ASSUME NEW p \in Providers, TakeHosts(p) PROVE OwnerInv'
  <2>1. /\ owner = "teardown" /\ p \in left /\ owner' = "release" /\ left' = left \ {p} /\ taken'[1] = p
        /\ UNCHANGED <<config, ready, at, ttl>>
        /\ overlap' = IF ttl.p = p /\ ttl.at \in {"acquire", "add"} THEN overlap \cup {p} ELSE overlap
    BY <1>7 DEF TakeHosts
  <2>2. pool'[p] = <<>> /\ \A q \in Providers : q # p => pool'[q] = pool[q]
    BY <1>1, <1>7 DEF TakeHosts, PoolTyped
  <2>3. QED
    BY <1>1, <2>1, <2>2
<1>8. CASE ReleaseTaken
  BY <1>1, <1>8 DEF ReleaseTaken, ledgerVars
<1>9. CASE TearProviderDown
  <2>1. /\ owner = "down" /\ owner' = "teardown"
        /\ UNCHANGED <<config, ready, pool, clock, at, left, ttl, overlap>>
    BY <1>9, Zenon DEF TearProviderDown
  <2>2. QED
    BY <1>1, <2>1
<1>10. CASE EndTeardown
  BY <1>1, <1>10 DEF EndTeardown, ledgerVars
<1>11. QED
  BY <1>2, <1>3, <1>4, <1>5, <1>6, <1>7, <1>8, <1>9, <1>10, Zenon DEF Owner

(* A worker takes the host whose turn it is.                               *)
LEMMA UseTurns ==
  ASSUME TypedInv, NEW x \in Workers, Use(x)
  PROVE  /\ owner = "using" /\ UNCHANGED <<config, ready, clock, ownerVars, ttl, out, lost, ledgerVars>>
         /\ PoolTyped' /\ Pooled' = Pooled
         /\ \E p \in Providers :
              /\ pool[p] # <<>> /\ pool'[p] = Append(Tail(pool[p]), Head(pool[p]))
              /\ \A q \in Providers : q # p => pool'[q] = pool[q]
<1>1. owner = "using" /\ UNCHANGED <<config, ready, clock, ownerVars, ttl, out, lost, ledgerVars>>
  BY Zenon DEF Use
<1>2. PICK p \in Names : pool[p] # <<>> /\ pool' = [pool EXCEPT ![p] = Append(Tail(@), Head(@))]
  BY Zenon DEF Use
<1>3. p \in Providers
  <2>1. DOMAIN config = 1 .. Len(config)
    BY DEF TypedInv, OwnerTyped
  <2>2. QED
    BY <2>1, NamesTyped DEF Names, TypedInv
<1>4. PoolTyped /\ pool[p] \in Seq(HostsOf(p))
  BY <1>3 DEF TypedInv, PoolTyped
<1> DEFINE s == Append(Tail(pool[p]), Head(pool[p]))
<1>5. pool' = [pool EXCEPT ![p] = s]
  BY <1>2, <1>3, <1>4 DEF PoolTyped
<1>6. s \in Seq(HostsOf(p)) /\ ToSet(s) = ToSet(pool[p])
  BY <1>2, <1>4, TurnedElements
<1> HIDE DEF s
<1>7. PoolTyped' /\ pool'[p] = s /\ \A q \in Providers : q # p => pool'[q] = pool[q]
  BY <1>3, <1>4, <1>5, <1>6, PoolSet
<1>8. \A q \in Providers : ToSet(pool'[q]) = ToSet(pool[q])
  BY <1>6, <1>7, Zenon
<1>9. Pooled' = Pooled
  BY <1>8 DEF Pooled
<1>10. QED
  BY <1>1, <1>2, <1>3, <1>7, <1>9 DEF s

(* Every step leaves the owner's part as it should be.                     *)
LEMMA OwnerSteps == ASSUME TypedInv, CheckInv, OwnerInv, [Next]_vars PROVE OwnerInv'
<1> USE SameNames
<1>1. CASE CheckTTL
  <2>1. UNCHANGED <<config, ready, owner, at, left, taken, overlap>>
    BY <1>1, CheckTypes, Zenon DEF ownerVars, ledgerVars
  <2>2. ~Unused /\ (\A p \in Providers : Passed(p)' => Passed(p)) /\ \A p \in Providers : pool'[p] # <<>> => p \in Registered
    BY <1>1, CheckFills
  <2>3. (Unused' <=> Unused) /\ (TearingDown' <=> TearingDown)
    BY <2>1 DEF Unused, TearingDown
  <2>4. QED
    BY <2>1, <2>2, <2>3 DEF OwnerInv
<1>2. ASSUME NEW x \in Workers, Use(x) PROVE OwnerInv'
  <2>1. /\ owner = "using" /\ UNCHANGED <<config, ready, owner, at, left, taken, ttl, overlap>>
        /\ \A q \in Providers : pool'[q] # <<>> => q \in Registered
    <3>1. PICK p \in Providers : pool[p] # <<>> /\ \A q \in Providers : q # p => pool'[q] = pool[q]
      BY <1>2, UseTurns
    <3>2. QED
      BY <1>2, <3>1, UseTurns DEF OwnerInv, ownerVars, ledgerVars
  <2>2. QED
    BY <2>1 DEF OwnerInv, Unused, TearingDown
<1>3. ASSUME UNCHANGED <<config, ready, pool, ownerVars, ttl, out, lost, ledgerVars>> PROVE OwnerInv'
  BY <1>3 DEF OwnerInv, Unused, TearingDown, Passed, ownerVars, ledgerVars
<1>4. ASSUME Tick \/ Over \/ UNCHANGED vars \/ \E x \in Workers : Call(x) PROVE OwnerInv'
  BY <1>3, <1>4, Zenon DEF Tick, Over, Call, vars, fleetVars
<1>5. QED
  BY <1>1, <1>2, <1>4, OwnerKept, Zenon DEF Next

(* The names and the ledger of instances look at the owner's part only.    *)
LEMMA NamesSame ==
  ASSUME NamesInv, UpInv, UNCHANGED <<config, ready, owner, at, left, taken, up, stuck>>
  PROVE  NamesInv' /\ UpInv'
<1>1. Registered' = Registered /\ (TearingDown' <=> TearingDown) /\ Covered' = Covered /\ Waiting' = Waiting
  BY SameNames DEF TearingDown, Covered, Waiting
<1>2. Behind(Waiting)' = Behind(Waiting)
  BY <1>1, Zenon DEF Behind
<1>3. QED
  BY <1>1, <1>2, Zenon DEF NamesInv, UpInv

(* The instances are those that lost their name and those behind the names.*)
LEMMA AllInstances ==
  ASSUME TypedInv, NamesInv, at > Len(config)
  PROVE  /\ Covered \cup Behind(Registered) = 1 .. at - 1
         /\ \A S \in SUBSET Registered : \A p \in Registered \ S : ready[p] \notin Covered \cup Behind(S)
<1>1. /\ at \in Nat \ {0} /\ Len(config) \in Nat /\ at = Len(config) + 1 /\ ready \in [Providers -> Nat]
      /\ \A k \in 1 .. at - 1 : config[k].provider \in Providers
      /\ \A p \in Registered : ready[p] \in 1 .. at - 1 /\ config[ready[p]].provider = p
      /\ \A k \in 1 .. at - 1 : k <= ready[config[k].provider]
  BY NamesTyped DEF TypedInv, OwnerTyped, NamesInv, Registered
<1>2. ASSUME NEW k \in 1 .. at - 1 PROVE k \in Covered \cup Behind(Registered)
  <2> DEFINE p == config[k].provider
  <2>1. p \in Providers /\ k <= ready[p] /\ k # 0 /\ ready[p] \in Nat
    BY <1>1
  <2>2. p \in Registered
    BY <2>1 DEF Registered
  <2>3. QED
    BY <2>2 DEF Covered, Behind
<1>3. Covered \subseteq 1 .. at - 1 /\ Behind(Registered) \subseteq 1 .. at - 1
  BY <1>1 DEF Covered, Behind
<1>4. ASSUME NEW S \in SUBSET Registered, NEW p \in Registered \ S, ready[p] \in Covered \cup Behind(S)
      PROVE  FALSE
  <2>1. ready[p] \notin Covered
    BY <1>1 DEF Covered
  <2>2. PICK q \in S : ready[p] = ready[q]
    BY <1>4, <2>1 DEF Behind
  <2>3. QED
    BY <1>1, <2>2
<1>5. QED
  BY <1>2, <1>3, <1>4

(* Setup overlays names, Teardown takes down what is behind them, and      *)
(* nobody else touches either.                                             *)
LEMMA NamesKept ==
  ASSUME TypedInv, CheckInv, OwnerInv, NamesInv, UpInv, [Next]_vars
  PROVE  NamesInv' /\ UpInv'
<1>1. /\ at \in Nat \ {0} /\ Len(config) \in Nat /\ ready \in [Providers -> Nat] /\ left \subseteq Registered
      /\ \A k \in 1 .. Len(config) : config[k].provider \in Providers
  BY NamesTyped DEF TypedInv, OwnerTyped
<1>2. CASE SetupProvider
  <2> DEFINE q == config[at].provider
  <2>1. /\ owner = "setup" /\ at <= Len(config) /\ owner' = owner /\ at' = at + 1 /\ config' = config
        /\ ready' = [ready EXCEPT ![q] = at] /\ up' = up \cup {at} /\ stuck' = stuck
    BY <1>2 DEF SetupProvider
  <2>2. q \in Providers
    BY <1>1, <2>1
  <2>3. ~TearingDown /\ ~TearingDown'
    BY <2>1 DEF TearingDown
  <2>4. UpInv'
    BY <1>1, <2>1, <2>3 DEF UpInv
  <2>5. \A p \in Registered' : ready'[p] < at' /\ ready'[p] <= Len(config') /\ config'[ready'[p]].provider = p
    BY <1>1, <2>1, <2>2 DEF NamesInv, Registered
  <2>6. \A k \in 1 .. at' - 1 : k <= ready'[config'[k].provider]
    BY <1>1, <2>1, <2>2 DEF NamesInv
  <2>7. QED
    BY <1>1, <2>1, <2>4, <2>5, <2>6 DEF NamesInv
<1>3. ASSUME UNCHANGED <<config, ready, at, up, stuck>>, TearingDown' <=> TearingDown, TearingDown => Waiting' = Waiting
      PROVE  NamesInv' /\ UpInv'
  <2>1. Registered' = Registered /\ Covered' = Covered
    BY <1>3, SameNames DEF Covered
  <2>2. TearingDown => Behind(Waiting)' = Behind(Waiting)
    BY <1>3, Zenon DEF Behind
  <2>3. NamesInv'
    BY <1>3, <2>1, Zenon DEF NamesInv
  <2>4. QED
    BY <1>3, <2>1, <2>2, <2>3, Zenon DEF UpInv
<1>4. CASE SetupFails \/ SetupEnds
  <2>1. UNCHANGED <<config, ready, at, up, stuck>> /\ ~TearingDown /\ ~TearingDown'
    BY <1>1, <1>4 DEF SetupFails, SetupEnds, TearingDown, ledgerVars
  <2>2. QED
    BY <1>3, <2>1
<1>5. CASE BeginTeardown
  <2>1. /\ owner = "using" /\ owner' = "teardown" /\ left' = Registered
        /\ UNCHANGED <<config, ready, at, up, stuck>>
    BY <1>5 DEF BeginTeardown, ledgerVars
  <2>2. Registered' = Registered /\ Covered' = Covered /\ ~TearingDown /\ TearingDown' /\ Waiting' = Registered
    BY <2>1, SameNames DEF Covered, TearingDown, Waiting
  <2>3. Behind(Waiting)' = Behind(Registered)
    BY <2>1, <2>2, Zenon DEF Behind
  <2>4. up = 1 .. at - 1 /\ stuck = {}
    BY <2>2 DEF UpInv
  <2>5. Covered \cup Behind(Registered) = 1 .. at - 1
    BY <2>1, AllInstances DEF OwnerInv
  <2>6. UpInv'
    BY <2>1, <2>2, <2>3, <2>4, <2>5 DEF UpInv
  <2>7. NamesInv'
    BY <2>1, <2>2, Zenon DEF NamesInv
  <2>8. QED
    BY <2>6, <2>7
<1>6. ASSUME NEW p \in Providers, TakeHosts(p) PROVE NamesInv' /\ UpInv'
  <2>1. /\ owner = "teardown" /\ p \in left /\ owner' = "release" /\ left' = left \ {p} /\ taken'[1] = p
        /\ UNCHANGED <<config, ready, at, up, stuck>>
    BY <1>6 DEF TakeHosts
  <2>2. TearingDown /\ TearingDown' /\ Waiting' = Waiting
    BY <2>1 DEF TearingDown, Waiting
  <2>3. QED
    BY <1>3, <2>1, <2>2
<1>7. CASE ReleaseTaken \/ EndTeardown
  <2>1. /\ UNCHANGED <<config, ready, at, left, taken, up, stuck>>
        /\ \/ owner = "release" /\ owner' = "down"
           \/ owner = "teardown" /\ owner' = "over"
    BY <1>7 DEF ReleaseTaken, EndTeardown, ledgerVars
  <2>2. TearingDown /\ TearingDown' /\ Waiting' = Waiting
    BY <1>1, <2>1 DEF TearingDown, Waiting, OwnerInv
  <2>3. QED
    BY <1>3, <2>1, <2>2
<1>8. CASE TearProviderDown
  <2> DEFINE i == ready[taken[1]]
  <2>1. /\ owner = "down" /\ owner' = "teardown" /\ UNCHANGED <<config, ready, at, left>>
        /\ \/ up' = up \ {i} /\ UNCHANGED stuck
           \/ stuck' = stuck \cup {i} /\ UNCHANGED up
    BY <1>8, Zenon DEF TearProviderDown
  <2>2. taken[1] \in Registered \ left /\ at > Len(config)
    BY <2>1 DEF OwnerInv
  <2>3. /\ Registered' = Registered /\ Covered' = Covered /\ TearingDown /\ TearingDown'
        /\ Waiting = left \cup {taken[1]} /\ Waiting' = left
    BY <2>1, SameNames DEF Covered, TearingDown, Waiting
  <2>4. Behind(Waiting)' = Behind(left) /\ Behind(Waiting) = Behind(left) \cup {i}
    BY <2>1, <2>3 DEF Behind
  <2>5. i \notin Covered \cup Behind(left)
    BY <1>1, <2>2, AllInstances
  <2>6. up = Covered \cup Behind(left) \cup {i} \cup stuck /\ stuck \cap (Behind(left) \cup {i}) = {}
    BY <2>3, <2>4 DEF UpInv
  <2> HIDE DEF i
  <2>7. UpInv'
    BY <2>1, <2>3, <2>4, <2>5, <2>6 DEF UpInv
  <2>8. NamesInv'
    BY <2>1, <2>3, Zenon DEF NamesInv
  <2>9. QED
    BY <2>7, <2>8
<1>9. ASSUME UNCHANGED <<config, ready, ownerVars, ledgerVars>> PROVE NamesInv' /\ UpInv'
  BY <1>9, NamesSame DEF ownerVars, ledgerVars
<1>10. CASE CheckTTL
  BY <1>9, <1>10, CheckTypes
<1>11. ASSUME NEW p \in Providers, AddHosts(p) PROVE NamesInv' /\ UpInv'
  BY <1>9, <1>11, Zenon DEF AddHosts
<1>12. ASSUME NEW x \in Workers, Use(x) \/ Call(x) PROVE NamesInv' /\ UpInv'
  BY <1>9, <1>12, Zenon DEF Use, Call, fleetVars
<1>13. CASE Tick \/ Over \/ UNCHANGED vars
  BY <1>9, <1>13, Zenon DEF Tick, Over, vars, fleetVars
<1>14. QED
  BY <1>2, <1>4, <1>5, <1>6, <1>7, <1>8, <1>10, <1>11, <1>12, <1>13, Zenon DEF Next, Owner

-----------------------------------------------------------------------------
(* The ledger.  P, T, E and N are the hosts in pools, in the hands of      *)
(* Teardown, and the old and new ones in those of CheckTTL; o and l those  *)
(* handed out and those lost.                                              *)
Books(P, T, E, N, o, l) ==
  /\ o \subseteq Rented /\ l \subseteq o
  /\ P \cap T \cap Rented = {} /\ P \cap E \cap Rented = {} /\ P \cap N \cap Rented = {}
  /\ T \cap E \cap Rented = {} /\ T \cap N \cap Rented = {} /\ E \cap N \cap Rented = {}
  /\ o \ l = (P \cup T \cup E \cup N) \cap Rented

(* The books are what the invariant says of hosts.                         *)
LEMMA BooksKept ==
  Books(Pooled, Taken, Old, New, out, lost) <=> LedgerTyped /\ Apart /\ Ledger
  BY Zenon DEF Books, LedgerTyped, Apart, Ledger

(* Hosts acquired stand in no other place, whether they go to a pool or    *)
(* stay with CheckTTL.                                                     *)
LEMMA BooksAcquired ==
  ASSUME NEW P, NEW T, NEW E, NEW N, NEW o, NEW l, Books(P, T, E, N, o, l), NEW X, X \cap o = {}
  PROVE  /\ Books(P \cup X, T, E, N, o \cup (X \cap Rented), l)
         /\ N = {} => Books(P, T, E, X, o \cup (X \cap Rented), l)
<1> DEFINE R == Rented
<1>1. /\ o \subseteq R /\ l \subseteq o
      /\ P \cap T \cap R = {} /\ P \cap E \cap R = {} /\ P \cap N \cap R = {}
      /\ T \cap E \cap R = {} /\ T \cap N \cap R = {} /\ E \cap N \cap R = {}
      /\ o \ l = (P \cup T \cup E \cup N) \cap R
  BY DEF Books
<1> HIDE DEF R
<1>2. P \cap R \subseteq o /\ T \cap R \subseteq o /\ E \cap R \subseteq o /\ N \cap R \subseteq o
  BY <1>1
<1>3. /\ X \cap T \cap R = {} /\ X \cap E \cap R = {} /\ X \cap N \cap R = {} /\ P \cap X \cap R = {}
      /\ X \cap l = {}
  BY <1>1, <1>2
<1>4. /\ o \cup (X \cap R) \subseteq R /\ l \subseteq o \cup (X \cap R)
      /\ (P \cup X) \cap T \cap R = {} /\ (P \cup X) \cap E \cap R = {} /\ (P \cup X) \cap N \cap R = {}
      /\ T \cap X \cap R = {} /\ E \cap X \cap R = {}
  BY <1>1, <1>3
<1>5. (o \cup (X \cap R)) \ l = ((P \cup X) \cup T \cup E \cup N) \cap R
  BY <1>1, <1>3
<1>6. N = {} => (o \cup (X \cap R)) \ l = (P \cup T \cup E \cup X) \cap R
  BY <1>5
<1>7. Books(P \cup X, T, E, N, o \cup (X \cap R), l)
  BY <1>1, <1>4, <1>5, Zenon DEF Books, R
<1>8. N = {} => Books(P, T, E, X, o \cup (X \cap R), l)
  BY <1>1, <1>3, <1>4, <1>6, Zenon DEF Books, R
<1>9. QED
  BY <1>7, <1>8 DEF R

(* Hosts that leave a pool, for Teardown or for CheckTTL, and those that   *)
(* come to one.                                                            *)
LEMMA BooksMoved ==
  ASSUME NEW P, NEW T, NEW E, NEW N, NEW o, NEW l, Books(P, T, E, N, o, l),
         NEW Q, NEW A, NEW B, P = Q \cup A \cup B, Q \cap A = {}, A \cap B = {}
  PROVE  /\ E = {} => Books(Q \cup B, T, A, N, o, l)
         /\ T = {} => Books(Q \cup B, A, E, N, o, l)
         /\ Books(P \cup N, T, E, {}, o, l)
  BY DEF Books

(* Hosts given back, or lost because that has failed.                      *)
LEMMA BooksReleased ==
  ASSUME NEW P, NEW T, NEW E, NEW N, NEW o, NEW l, Books(P, T, E, N, o, l)
  PROVE  /\ Books(P, {}, E, N, o \ T, l) /\ Books(P, {}, E, N, o, l \cup (o \cap T))
         /\ Books(P, T, {}, N, o \ E, l) /\ Books(P, T, {}, N, o, l \cup (o \cap E))
  BY DEF Books

(* Hosts that a call hands out.                                            *)
LEMMA HandedOut ==
  ASSUME NEW p \in Providers, NEW hosts \in Seq(HostsOf(p)), HandOut(hosts)
  PROVE  out' = out \cup (ToSet(hosts) \cap Rented)
<1>1. ToSet(hosts) \subseteq Hosts
  BY HostsOfOne, Elements
<1>2. QED
  BY <1>1 DEF HandOut, Rented

(* One pool changes, the others do not share a host with it.               *)
LEMMA OnePool ==
  ASSUME PoolTyped, NEW p \in Providers, NEW s \in Seq(HostsOf(p)), pool' = [pool EXCEPT ![p] = s]
  PROVE  \E Q : /\ Pooled = Q \cup ToSet(pool[p]) /\ Q \cap ToSet(pool[p]) = {}
                /\ Pooled' = Q \cup ToSet(s)
<1> DEFINE Q == UNION {ToSet(pool[q]) : q \in Providers \ {p}}
<1>1. pool'[p] = s /\ \A q \in Providers : q # p => pool'[q] = pool[q]
  BY PoolSet
<1>2. Pooled = Q \cup ToSet(pool[p])
  BY DEF Pooled
<1>3. Pooled' = Q \cup ToSet(s)
  <2>1. Pooled' = UNION {ToSet(pool'[q]) : q \in Providers}
    BY Zenon DEF Pooled
  <2>2. \A q \in Providers : q # p => ToSet(pool'[q]) = ToSet(pool[q])
    BY <1>1, Zenon
  <2>3. ToSet(pool'[p]) = ToSet(s)
    BY <1>1, Zenon
  <2>4. QED
    BY <2>1, <2>2, <2>3
<1>4. Q \cap ToSet(pool[p]) = {}
  <2>1. \A q \in Providers : \A h \in ToSet(pool[q]) : h.provider = q
    BY HostsOfOne DEF PoolTyped
  <2>2. QED
    BY <2>1
<1>5. QED
  BY <1>2, <1>3, <1>4

(* Nobody's host changes hands.                                            *)
LEMMA BooksSame ==
  ASSUME Books(Pooled, Taken, Old, New, out, lost), Pooled' = Pooled, Taken' = Taken, Old' = Old,
         New' = New, UNCHANGED <<out, lost>>
  PROVE  Books(Pooled, Taken, Old, New, out, lost)'
<1>1. Books(Pooled', Taken', Old', New', out', lost')
  BY Zenon
<1>2. QED
  BY <1>1, Zenon DEF Books, Rented, Hosts, HostsOf, Addresses

(* The owner's steps keep the books.                                       *)
LEMMA OwnerBooks ==
  ASSUME TypedInv, Books(Pooled, Taken, Old, New, out, lost), Owner
  PROVE  Books(Pooled, Taken, Old, New, out, lost)'
<1>1. ASSUME NEW P, NEW T, NEW E, NEW N, NEW o, NEW l, Books(P, T, E, N, o, l),
             Pooled' = P, Taken' = T, Old' = E, New' = N, out' = o, lost' = l
      PROVE  Books(Pooled, Taken, Old, New, out, lost)'
  <2>1. Books(Pooled', Taken', Old', New', out', lost')
    BY <1>1, Zenon
  <2>2. QED
    BY <2>1, Zenon DEF Books, Rented, Hosts, HostsOf, Addresses
<1>2. UNCHANGED ttl
  BY OwnerTypes
<1>3. Old' = Old /\ New' = New
  BY <1>2, Zenon DEF Old, New
<1>4. PoolTyped
  BY DEF TypedInv
<1>5. ASSUME owner # "release", owner' # "release", UNCHANGED <<pool, out, lost>>
      PROVE  Books(Pooled, Taken, Old, New, out, lost)'
  <2>1. Taken = {} /\ Taken' = {} /\ Pooled' = Pooled
    BY <1>5, Zenon DEF Taken, Pooled
  <2>2. QED
    BY <1>3, <1>5, <2>1, BooksSame
<1>6. ASSUME SetupProvider \/ SetupFails \/ SetupEnds \/ BeginTeardown \/ EndTeardown \/ TearProviderDown
      PROVE  Books(Pooled, Taken, Old, New, out, lost)'
  <2>1. owner # "release" /\ owner' # "release" /\ UNCHANGED <<pool, out, lost>>
    BY <1>6 DEF SetupProvider, SetupFails, SetupEnds, BeginTeardown, EndTeardown, TearProviderDown
  <2>2. QED
    BY <1>5, <2>1
<1>7. ASSUME NEW p \in Providers, AddHosts(p) PROVE Books(Pooled, Taken, Old, New, out, lost)'
  <2> DEFINE new == Acquired(p, 1)
             s == pool[p] \o new
  <2>1. /\ owner = "using" /\ MayAcquire(p, 1) /\ pool' = [pool EXCEPT ![p] = s] /\ HandOut(new)
        /\ owner' = owner /\ lost' = lost
    BY <1>7, Zenon DEF AddHosts, ownerVars
  <2>2. new \in Seq(HostsOf(p)) /\ ToSet(new) \cap out = {} /\ pool[p] \in Seq(HostsOf(p))
    BY <2>1, AcquiredHosts DEF TypedInv, PoolTyped
  <2> HIDE DEF new
  <2>3. s \in Seq(HostsOf(p)) /\ ToSet(s) = ToSet(pool[p]) \cup ToSet(new)
    BY <2>2, JoinedElements
  <2> HIDE DEF s
  <2>4. out' = out \cup (ToSet(new) \cap Rented)
    BY <2>1, <2>2, HandedOut
  <2>5. PICK Q : Pooled = Q \cup ToSet(pool[p]) /\ Pooled' = Q \cup ToSet(s)
    BY <1>4, <2>1, <2>3, OnePool
  <2>6. Pooled' = Pooled \cup ToSet(new)
    BY <2>3, <2>5
  <2>7. Taken' = Taken
    BY <2>1 DEF Taken
  <2>8. Books(Pooled \cup ToSet(new), Taken, Old, New, out \cup (ToSet(new) \cap Rented), lost)
    BY <2>2, BooksAcquired
  <2>9. QED
    BY <1>1, <1>3, <2>1, <2>4, <2>6, <2>7, <2>8
<1>8. ASSUME NEW p \in Providers, TakeHosts(p) PROVE Books(Pooled, Taken, Old, New, out, lost)'
  <2>1. /\ owner = "teardown" /\ owner' = "release" /\ taken' = <<p, pool[p]>> /\ UNCHANGED <<out, lost>>
        /\ pool' = [pool EXCEPT ![p] = <<>>]
    BY <1>8, Zenon DEF TakeHosts
  <2>2. Taken = {} /\ Taken' = ToSet(pool[p])
    BY <2>1 DEF Taken
  <2>3. <<>> \in Seq(HostsOf(p)) /\ ToSet(<<>>) = {}
    BY DEF ToSet
  <2>4. PICK Q : /\ Pooled = Q \cup ToSet(pool[p]) /\ Q \cap ToSet(pool[p]) = {}
                 /\ Pooled' = Q \cup ToSet(<<>>)
    BY <1>4, <2>1, <2>3, OnePool
  <2>5. Pooled = Q \cup ToSet(pool[p]) \cup {} /\ ToSet(pool[p]) \cap {} = {} /\ Pooled' = Q \cup {}
    BY <2>3, <2>4
  <2>6. Books(Q \cup {}, ToSet(pool[p]), Old, New, out, lost)
    BY <2>2, <2>4, <2>5, BooksMoved
  <2>7. QED
    BY <1>1, <1>3, <2>1, <2>2, <2>5, <2>6
<1>9. ASSUME ReleaseTaken PROVE Books(Pooled, Taken, Old, New, out, lost)'
  <2>1. /\ owner = "release" /\ owner' = "down" /\ UNCHANGED pool
        /\ \/ out' = out \ ToSet(taken[2]) /\ UNCHANGED lost
           \/ lost' = lost \cup (out \cap ToSet(taken[2])) /\ UNCHANGED out
    BY <1>9, Zenon DEF ReleaseTaken
  <2>2. Taken = ToSet(taken[2]) /\ Taken' = {} /\ Pooled' = Pooled
    BY <2>1 DEF Taken, Pooled
  <2>3. /\ Books(Pooled, {}, Old, New, out \ Taken, lost)
        /\ Books(Pooled, {}, Old, New, out, lost \cup (out \cap Taken))
    BY BooksReleased
  <2>4. CASE out' = out \ ToSet(taken[2]) /\ UNCHANGED lost
    BY <1>1, <1>3, <2>2, <2>3, <2>4
  <2>5. CASE lost' = lost \cup (out \cap ToSet(taken[2])) /\ UNCHANGED out
    BY <1>1, <1>3, <2>2, <2>3, <2>5
  <2>6. QED
    BY <2>1, <2>4, <2>5
<1>10. QED
  BY <1>6, <1>7, <1>8, <1>9, Zenon DEF Owner

(* CheckTTL keeps the books.                                               *)
LEMMA CheckBooks ==
  ASSUME TypedInv, CheckInv, Books(Pooled, Taken, Old, New, out, lost), CheckTTL
  PROVE  Books(Pooled, Taken, Old, New, out, lost)'
<1>1. ASSUME NEW P, NEW T, NEW E, NEW N, NEW o, NEW l, Books(P, T, E, N, o, l),
             Pooled' = P, Taken' = T, Old' = E, New' = N, out' = o, lost' = l
      PROVE  Books(Pooled, Taken, Old, New, out, lost)'
  <2>1. Books(Pooled', Taken', Old', New', out', lost')
    BY <1>1, Zenon
  <2>2. QED
    BY <2>1, Zenon DEF Books, Rented, Hosts, HostsOf, Addresses
<1>2. Taken' = Taken
  BY CheckTypes, Zenon DEF Taken, ownerVars
<1>3. /\ PoolTyped /\ ttl \in Checks /\ ttl.p \in Providers /\ ttl.left \subseteq Providers
      /\ ttl.expired \in Seq(HostsOf(ttl.p)) /\ ttl.fresh \in Seq(HostsOf(ttl.p))
  BY DEF TypedInv, CheckTyped, Checks
<1>4. ToSet(<<>>) = {}
  BY DEF ToSet
<1>5. ASSUME UNCHANGED pool PROVE Pooled' = Pooled
  BY <1>5, Zenon DEF Pooled
<1>6. ASSUME ttl.at \in {"idle", "next"} PROVE Old = {} /\ New = {}
  BY <1>4, <1>6 DEF CheckInv, Old, New
<1>7. ASSUME BeginCheck PROVE Books(Pooled, Taken, Old, New, out, lost)'
  <2>1. ttl.at = "idle" /\ UNCHANGED <<pool, out, lost>>
    BY <1>7, Zenon DEF BeginCheck
  <2>2. ttl'.at = "next" /\ ttl'.expired = <<>>
    BY <1>7 DEF BeginCheck, NoCheck
  <2>3. Old' = {} /\ New' = {}
    BY <1>4, <2>2 DEF Old, New
  <2>4. QED
    BY <1>2, <1>5, <1>6, <2>1, <2>3, BooksSame
<1>8. ASSUME NEW p \in Providers, PartPool(p) PROVE Books(Pooled, Taken, Old, New, out, lost)'
  <2>1. ttl.at = "next" /\ UNCHANGED <<out, lost>>
    BY <1>8, Zenon DEF PartPool
  <2>2. CASE NothingExpired(p)
    <3>1. UNCHANGED pool /\ ttl' = [ttl EXCEPT !.left = @ \ {p}]
      BY <2>2, Zenon DEF NothingExpired
    <3>2. ttl'.at = ttl.at /\ ttl'.expired = ttl.expired
      BY <1>3, <3>1 DEF Checks
    <3>3. Old' = Old /\ New' = New
      BY <2>1, <3>2 DEF Old, New
    <3>4. QED
      BY <1>2, <1>5, <2>1, <3>1, <3>3, BooksSame
  <2>3. CASE SomeExpired(p)
    <3> DEFINE old == Parted(pool[p]).expired
               rest == Parted(pool[p]).remaining
    <3>1. /\ pool' = [pool EXCEPT ![p] = rest]
          /\ ttl' = [ttl EXCEPT !.left = @ \ {p}, !.p = p, !.at = "acquire", !.expired = old]
      BY <2>3, <1>3 DEF SomeExpired, PoolTyped
    <3>2. pool[p] \in Seq(HostsOf(p))
      BY <1>3 DEF PoolTyped
    <3>3. /\ rest \in Seq(HostsOf(p)) /\ ToSet(old) \cup ToSet(rest) = ToSet(pool[p])
          /\ ToSet(old) \cap ToSet(rest) = {}
      BY <3>2, PartedSets
    <3> HIDE DEF old, rest
    <3>4. ttl'.at = "acquire" /\ ttl'.expired = old
      BY <1>3, <3>1 DEF Checks
    <3>5. Old' = ToSet(old) /\ New' = {} /\ Old = {} /\ New = {}
      BY <1>6, <2>1, <3>4 DEF Old, New
    <3>6. PICK Q : /\ Pooled = Q \cup ToSet(pool[p]) /\ Q \cap ToSet(pool[p]) = {}
                   /\ Pooled' = Q \cup ToSet(rest)
      BY <1>3, <3>1, <3>3, OnePool
    <3>7. Pooled = Q \cup ToSet(old) \cup ToSet(rest) /\ Q \cap ToSet(old) = {}
      BY <3>3, <3>6
    <3>8. Books(Q \cup ToSet(rest), Taken, ToSet(old), New, out, lost)
      BY <3>3, <3>5, <3>7, BooksMoved
    <3>9. QED
      BY <1>1, <1>2, <2>1, <3>5, <3>6, <3>8
  <2>4. QED
    BY <1>8, <2>2, <2>3 DEF PartPool
<1>9. ASSUME AcquireReplacements PROVE Books(Pooled, Taken, Old, New, out, lost)'
  <2> DEFINE new == Acquired(ttl.p, Len(ttl.expired))
  <2>1. /\ ttl.at = "acquire" /\ MayAcquire(ttl.p, Len(ttl.expired)) /\ HandOut(new)
        /\ ttl' = [ttl EXCEPT !.at = "add", !.fresh = new] /\ UNCHANGED <<pool, lost>>
    BY <1>9, Zenon DEF AcquireReplacements
  <2>2. new \in Seq(HostsOf(ttl.p)) /\ ToSet(new) \cap out = {}
    <3>1. Len(ttl.expired) \in Nat
      BY <1>3
    <3>2. QED
      BY <1>3, <2>1, <3>1, AcquiredHosts
  <2> HIDE DEF new
  <2>3. ttl'.at = "add" /\ ttl'.fresh = new /\ ttl'.expired = ttl.expired
    BY <1>3, <2>1 DEF Checks
  <2>4. Old' = Old /\ New = {} /\ New' = ToSet(new)
    BY <2>1, <2>3 DEF Old, New
  <2>5. out' = out \cup (ToSet(new) \cap Rented)
    BY <1>3, <2>1, <2>2, HandedOut
  <2>6. Books(Pooled, Taken, Old, ToSet(new), out \cup (ToSet(new) \cap Rented), lost)
    BY <2>2, <2>4, BooksAcquired
  <2>7. QED
    BY <1>1, <1>2, <1>5, <2>1, <2>4, <2>5, <2>6
<1>10. ASSUME AddReplacements PROVE Books(Pooled, Taken, Old, New, out, lost)'
  <2> DEFINE s == pool[ttl.p] \o ttl.fresh
  <2>1. /\ ttl.at = "add" /\ ttl' = [ttl EXCEPT !.at = "release"] /\ pool' = [pool EXCEPT ![ttl.p] = s]
        /\ UNCHANGED <<out, lost>>
    BY <1>10 DEF AddReplacements
  <2>2. s \in Seq(HostsOf(ttl.p)) /\ ToSet(s) = ToSet(pool[ttl.p]) \cup ToSet(ttl.fresh)
    <3>1. pool[ttl.p] \in Seq(HostsOf(ttl.p))
      BY <1>3 DEF PoolTyped
    <3>2. QED
      BY <1>3, <3>1, JoinedElements
  <2> HIDE DEF s
  <2>3. ttl'.at = "release" /\ ttl'.expired = ttl.expired
    BY <1>3, <2>1 DEF Checks
  <2>4. Old' = Old /\ New = ToSet(ttl.fresh) /\ New' = {}
    BY <2>1, <2>3 DEF Old, New
  <2>5. PICK Q : /\ Pooled = Q \cup ToSet(pool[ttl.p]) /\ Q \cap ToSet(pool[ttl.p]) = {}
                 /\ Pooled' = Q \cup ToSet(s)
    BY <1>3, <2>1, <2>2, OnePool
  <2>6. Pooled' = Pooled \cup New
    BY <2>2, <2>4, <2>5
  <2>7. Books(Pooled \cup New, Taken, Old, {}, out, lost)
    <3>1. Pooled = Pooled \cup {} \cup {} /\ Pooled \cap {} = {}
      OBVIOUS
    <3>2. QED
      BY <3>1, BooksMoved
  <2>8. QED
    BY <1>1, <1>2, <2>1, <2>4, <2>6, <2>7
<1>11. ASSUME Old' = {}, New' = {}, New = {}, UNCHANGED pool,
              \/ out' = out \ Old /\ UNCHANGED lost
              \/ lost' = lost \cup (out \cap Old) /\ UNCHANGED out
       PROVE  Books(Pooled, Taken, Old, New, out, lost)'
  <2>1. /\ Books(Pooled, Taken, {}, New, out \ Old, lost)
        /\ Books(Pooled, Taken, {}, New, out, lost \cup (out \cap Old))
    BY BooksReleased
  <2>2. CASE out' = out \ Old /\ UNCHANGED lost
    BY <1>1, <1>2, <1>5, <1>11, <2>1, <2>2
  <2>3. CASE lost' = lost \cup (out \cap Old) /\ UNCHANGED out
    BY <1>1, <1>2, <1>5, <1>11, <2>1, <2>3
  <2>4. QED
    BY <1>11, <2>2, <2>3
<1>12. ASSUME AcquireFails PROVE Books(Pooled, Taken, Old, New, out, lost)'
  <2>1. /\ ttl.at = "acquire" /\ ttl' = NoCheck /\ UNCHANGED <<pool, out>>
        /\ lost' = lost \cup (out \cap ToSet(ttl.expired))
    BY <1>12, Zenon DEF AcquireFails
  <2>2. Old = ToSet(ttl.expired) /\ New = {} /\ Old' = {} /\ New' = {}
    BY <1>4, <2>1, NoCheckTyped DEF Old, New
  <2>3. QED
    BY <1>11, <2>1, <2>2
<1>13. ASSUME ReleaseExpired PROVE Books(Pooled, Taken, Old, New, out, lost)'
  <2>1. /\ ttl.at = "release" /\ UNCHANGED pool
        /\ \/ out' = out \ ToSet(ttl.expired) /\ UNCHANGED lost
           \/ lost' = lost \cup (out \cap ToSet(ttl.expired)) /\ UNCHANGED out
        /\ ttl' = NoCheck \/ ttl' = [ttl EXCEPT !.at = "next", !.expired = <<>>, !.fresh = <<>>]
    BY <1>13, Zenon DEF ReleaseExpired
  <2>2. ttl'.at # "add" /\ ttl'.expired = <<>>
    <3>1. /\ [ttl EXCEPT !.at = "next", !.expired = <<>>, !.fresh = <<>>].at = "next"
          /\ [ttl EXCEPT !.at = "next", !.expired = <<>>, !.fresh = <<>>].expired = <<>>
      BY <1>3 DEF Checks
    <3>2. CASE ttl' = NoCheck
      BY <3>2, NoCheckTyped
    <3>3. CASE ttl' = [ttl EXCEPT !.at = "next", !.expired = <<>>, !.fresh = <<>>]
      <4>1. ttl'.at = "next" /\ ttl'.expired = <<>>
        BY <3>1, <3>3, Zenon
      <4>2. QED
        BY <4>1
    <3>4. QED
      BY <2>1, <3>2, <3>3
  <2>3. Old = ToSet(ttl.expired) /\ New = {} /\ Old' = {} /\ New' = {}
    BY <1>4, <2>1, <2>2 DEF Old, New
  <2>4. QED
    BY <1>11, <2>1, <2>3
<1>14. ASSUME EndCheck PROVE Books(Pooled, Taken, Old, New, out, lost)'
  <2>1. ttl.at = "next" /\ ttl' = NoCheck /\ UNCHANGED <<pool, out, lost>>
    BY <1>14, Zenon DEF EndCheck
  <2>2. Old' = {} /\ New' = {}
    BY <1>4, <2>1, NoCheckTyped DEF Old, New
  <2>3. QED
    BY <1>2, <1>5, <1>6, <2>1, <2>2, BooksSame
<1>15. QED
  BY <1>7, <1>8, <1>9, <1>10, <1>12, <1>13, <1>14, Zenon DEF CheckTTL

-----------------------------------------------------------------------------
(* Every step keeps the invariant.                                         *)
LEMMA NextIInv == ASSUME IInv, [Next]_vars PROVE IInv'
<1> USE SameNames
<1>1. TypedInv /\ CheckInv /\ OwnerInv /\ NamesInv /\ UpInv /\ Apart /\ Ledger /\ CallsInv
  BY DEF IInv
<1>2. Books(Pooled, Taken, Old, New, out, lost)
  BY <1>1, BooksKept DEF TypedInv
<1>3. CASE Owner
  <2>1. OwnerTyped' /\ PoolTyped' /\ UNCHANGED ttl /\ Registered \subseteq Registered'
    BY <1>1, <1>3, OwnerTypes
  <2>2. CheckTyped' /\ CheckInv'
    BY <1>1, <2>1 DEF TypedInv, CheckTyped, CheckInv, HostsOf, Addresses, Checks, Hosts
  <2>3. Books(Pooled, Taken, Old, New, out, lost)'
    BY <1>1, <1>2, <1>3, OwnerBooks
  <2>4. QED
    BY <1>1, <2>1, <2>2, <2>3, BooksKept, OwnerSteps, NamesKept, CallsKept, PTL DEF IInv, TypedInv
<1>4. CASE CheckTTL
  <2>1. PoolTyped' /\ CheckTyped' /\ CheckInv' /\ UNCHANGED <<config, ready, clock, ownerVars, ledgerVars>>
    BY <1>1, <1>4, CheckTypes
  <2>2. OwnerTyped'
    BY <1>1, <2>1 DEF TypedInv, OwnerTyped, ownerVars, ledgerVars
  <2>3. Books(Pooled, Taken, Old, New, out, lost)'
    BY <1>1, <1>2, <1>4, CheckBooks
  <2>4. QED
    BY <1>1, <2>1, <2>2, <2>3, BooksKept, OwnerSteps, NamesKept, CallsKept, PTL DEF IInv, TypedInv
<1>5. CASE UNCHANGED <<config, ready, ownerVars, ttl, out, lost, ledgerVars>> /\ clock' \in Nat /\ PoolTyped' /\ Pooled' = Pooled
  <2>1. OwnerTyped' /\ CheckTyped' /\ CheckInv'
    BY <1>1, <1>5 DEF TypedInv, OwnerTyped, CheckTyped, CheckInv, ownerVars, ledgerVars, HostsOf, Addresses, Checks, Hosts
  <2>2. Taken' = Taken /\ Old' = Old /\ New' = New
    BY <1>5, Zenon DEF Taken, Old, New, ownerVars
  <2>3. Books(Pooled, Taken, Old, New, out, lost)'
    BY <1>2, <1>5, <2>2, BooksSame
  <2>4. QED
    BY <1>1, <1>5, <2>1, <2>3, BooksKept, OwnerSteps, NamesKept, CallsKept, PTL DEF IInv, TypedInv
<1>6. ASSUME NEW x \in Workers, Use(x) PROVE IInv'
  <2>1. UNCHANGED <<config, ready, clock, ownerVars, ttl, out, lost, ledgerVars>> /\ PoolTyped' /\ Pooled' = Pooled
    BY <1>1, <1>6, UseTurns
  <2>2. clock' \in Nat
    BY <1>1, <2>1 DEF TypedInv, OwnerTyped
  <2>3. QED
    BY <1>5, <2>1, <2>2
<1>7. ASSUME Tick \/ Over \/ UNCHANGED vars \/ \E x \in Workers : Call(x) PROVE IInv'
  <2>1. UNCHANGED <<config, ready, pool, ownerVars, ttl, out, lost, ledgerVars>>
    BY <1>7, Zenon DEF Tick, Over, Call, vars, fleetVars
  <2>2. clock' = clock \/ clock' = clock + 1
    BY <1>7, Zenon DEF Tick, Over, Call, vars, fleetVars
  <2>3. clock' \in Nat
    BY <1>1, <2>2 DEF TypedInv, OwnerTyped
  <2>4. PoolTyped' /\ Pooled' = Pooled
    BY <1>1, <2>1, Zenon DEF TypedInv, PoolTyped, Pooled, HostsOf, Hosts, Addresses
  <2>5. QED
    BY <1>5, <2>1, <2>3, <2>4
<1>8. QED
  BY <1>3, <1>4, <1>6, <1>7, Zenon DEF Next

(* The owner, CheckTTL and the workers keep the invariant in every         *)
(* interleaving, with every provider call failing or not.                  *)
THEOREM Invariance == Spec => []IInv
<1>1. IInv /\ [Next]_vars => IInv'
  BY NextIInv
<1>2. QED
  BY InitIInv, <1>1, PTL DEF Spec

(* After Setup the instances without a name are those whose name a later   *)
(* entry of the configuration takes.                                       *)
LEMMA CoveredReplaced == ASSUME TypedInv, NamesInv, at > Len(config) PROVE Covered = Replaced
<1>1. /\ Len(config) \in Nat /\ at = Len(config) + 1 /\ ready \in [Providers -> Nat]
      /\ DOMAIN config = 1 .. Len(config)
      /\ \A k \in 1 .. Len(config) : config[k].provider \in Providers
      /\ \A p \in Providers : ready[p] # 0 => ready[p] \in 1 .. Len(config) /\ config[ready[p]].provider = p
      /\ \A k \in 1 .. Len(config) : k <= ready[config[k].provider]
  BY NamesTyped DEF TypedInv, OwnerTyped, NamesInv, Registered
<1>2. ASSUME NEW k \in 1 .. Len(config)
      PROVE  ready[config[k].provider] # k
               <=> \E j \in 1 .. Len(config) : j > k /\ config[j].provider = config[k].provider
  <2> DEFINE j == ready[config[k].provider]
  <2>1. j \in 1 .. Len(config) /\ config[j].provider = config[k].provider /\ k <= j
    BY <1>1
  <2>2. \A i \in 1 .. Len(config) : config[i].provider = config[k].provider => i <= j
    BY <1>1
  <2> HIDE DEF j
  <2>3. QED
    BY <1>1, <2>1, <2>2 DEF j
<1>3. QED
  BY <1>1, <1>2 DEF Covered, Replaced

(* orchestrator.go: every host that a provider handed out is in a pool, in *)
(* the hands of CheckTTL or Teardown, or was lost where a provider call    *)
(* failed.  Teardown leaves only the pools that CheckTTL was refilling,    *)
(* the instances whose own Teardown failed and those that Setup overlaid   *)
(* with a later instance of the same provider.                             *)
THEOREM HostsAreAccounted == Spec => []HostsAccounted
<1>1. IInv => HostsAccounted
  <2> SUFFICES ASSUME IInv PROVE HostsAccounted
    OBVIOUS
  <2>1. out \ lost = {h \in Pooled \cup Held : h.provider # Static}
    <3>1. Held = Taken \cup Old \cup New
      BY Zenon DEF Held, Taken, Old, New
    <3>2. Pooled \subseteq Hosts
      <4>1. \A p \in Providers : ToSet(pool[p]) \subseteq Hosts
        BY Elements DEF IInv, TypedInv, PoolTyped
      <4>2. QED
        BY <4>1 DEF Pooled
    <3>3. Held \subseteq Hosts
      <4>1. taken[2] \in Seq(Hosts) /\ ttl.expired \in Seq(Hosts) /\ ttl.fresh \in Seq(Hosts)
        BY DEF IInv, TypedInv, OwnerTyped, CheckTyped, Checks
      <4>2. ToSet(taken[2]) \subseteq Hosts /\ ToSet(ttl.expired) \subseteq Hosts /\ ToSet(ttl.fresh) \subseteq Hosts
        BY <4>1, Elements
      <4>3. QED
        BY <4>2, Zenon DEF Held
    <3>4. out \ lost = (Pooled \cup Held) \cap Rented
      BY <3>1 DEF IInv, Ledger
    <3>5. QED
      BY <3>2, <3>3, <3>4 DEF Rented
  <2>2. ASSUME owner = "over"
        PROVE  /\ up = IF at > Len(config) THEN Replaced \cup stuck ELSE 1 .. at - 1
               /\ ttl.at = "idle" => \A p \in Providers : pool[p] # <<>> => p \in overlap
    <3>1. Len(config) \in Nat /\ at \in Nat
      BY DEF IInv, TypedInv, OwnerTyped
    <3>2. CASE at > Len(config)
      <4>1. TearingDown /\ Waiting = {}
        BY <2>2, <3>2 DEF IInv, OwnerInv, TearingDown, Waiting
      <4>2. up = Covered \cup stuck
        BY <4>1 DEF IInv, UpInv, Behind
      <4>3. Covered = Replaced
        BY <3>2, CoveredReplaced DEF IInv
      <4>4. QED
        BY <2>2, <3>2, <4>1, <4>2, <4>3 DEF IInv, OwnerInv, Passed
    <3>3. CASE at <= Len(config)
      <4>1. ~TearingDown
        BY <2>2, <3>1, <3>3 DEF TearingDown
      <4>2. QED
        BY <2>2, <3>1, <3>3, <4>1 DEF IInv, OwnerInv, UpInv, Unused
    <3>4. QED
      BY <3>1, <3>2, <3>3
  <2>3. QED
    BY <2>1, <2>2 DEF HostsAccounted
<1>2. QED
  BY Invariance, <1>1, PTL

(* provider.go, getOrDial and Teardown: the SSH clients that are open are  *)
(* those in the cache, however many workers dial and whatever fails.       *)
THEOREM NoClientIsLost == Spec => []NoConnectionLost
<1>1. IInv => NoConnectionLost
  BY DEF IInv, CallsInv
<1>2. QED
  BY Invariance, <1>1, PTL

-----------------------------------------------------------------------------
(* Capacity.                                                               *)

(* The step of CapacityKept.                                               *)
CapacityStep(p) ==
  ttl' = ttl \/ Capacity(p)' = Capacity(p) \/ (ttl.p = p /\ ttl.at = "acquire" /\ ttl'.at = "idle")

(* Capacity in the two cases of its definition.                            *)
LEMMA CapacityCases ==
  ASSUME NEW p
  PROVE  /\ ttl.p = p /\ ttl.at \in {"acquire", "add"} => Capacity(p) = Len(pool[p]) + Len(ttl.expired)
         /\ ~(ttl.p = p /\ ttl.at \in {"acquire", "add"}) => Capacity(p) = Len(pool[p]) + 0
  BY Zenon DEF Capacity

(* And after the step.                                                     *)
LEMMA CapacityCasesNext ==
  ASSUME NEW p
  PROVE  /\ ttl'.p = p /\ ttl'.at \in {"acquire", "add"} => Capacity(p)' = Len(pool'[p]) + Len(ttl'.expired)
         /\ ~(ttl'.p = p /\ ttl'.at \in {"acquire", "add"}) => Capacity(p)' = Len(pool'[p]) + 0
  BY Zenon DEF Capacity

(* What expires is replaced, host for host.                                *)
LEMMA CheckKeepsCapacity ==
  ASSUME TypedInv, CheckInv, CheckTTL, NEW q \in Providers
  PROVE  CapacityStep(q)
<1>1. /\ PoolTyped /\ ttl \in Checks /\ ttl.p \in Providers
      /\ ttl.expired \in Seq(HostsOf(ttl.p)) /\ ttl.fresh \in Seq(HostsOf(ttl.p))
      /\ pool[q] \in Seq(HostsOf(q)) /\ Len(pool[q]) \in Nat
  BY DEF TypedInv, CheckTyped, Checks, PoolTyped
<1>2. ASSUME ttl.at \notin {"acquire", "add"}, ttl'.at \notin {"acquire", "add"}, UNCHANGED pool
      PROVE  CapacityStep(q)
  <2>1. Capacity(q) = Len(pool[q]) + 0 /\ Capacity(q)' = Len(pool'[q]) + 0
    BY <1>2, CapacityCases, CapacityCasesNext
  <2>2. QED
    BY <1>2, <2>1 DEF CapacityStep
<1>3. ASSUME BeginCheck PROVE CapacityStep(q)
  <2>1. ttl.at = "idle" /\ UNCHANGED pool
    BY <1>3, Zenon DEF BeginCheck
  <2>2. ttl'.at = "next"
    BY <1>3 DEF BeginCheck, NoCheck
  <2>3. QED
    BY <1>2, <2>1, <2>2
<1>4. ASSUME NEW p \in Providers, PartPool(p) PROVE CapacityStep(q)
  <2>1. ttl.at = "next"
    BY <1>4 DEF PartPool
  <2>2. CASE NothingExpired(p)
    <3>1. UNCHANGED pool /\ ttl' = [ttl EXCEPT !.left = @ \ {p}]
      BY <2>2, Zenon DEF NothingExpired
    <3>2. ttl'.at = "next"
      BY <1>1, <2>1, <3>1 DEF Checks
    <3>3. QED
      BY <1>2, <2>1, <3>1, <3>2
  <2>3. CASE SomeExpired(p)
    <3> DEFINE old == Parted(pool[p]).expired
               rest == Parted(pool[p]).remaining
    <3>1. /\ pool' = [pool EXCEPT ![p] = rest]
          /\ ttl' = [ttl EXCEPT !.left = @ \ {p}, !.p = p, !.at = "acquire", !.expired = old]
      BY <2>3, <1>1 DEF SomeExpired, PoolTyped
    <3>2. pool[p] \in Seq(HostsOf(p))
      BY <1>1 DEF PoolTyped
    <3>3. /\ old \in Seq(HostsOf(p)) /\ rest \in Seq(HostsOf(p)) /\ Len(old) + Len(rest) = Len(pool[p])
      BY <3>2, PartedSets
    <3> HIDE DEF old, rest
    <3>4. ttl'.at = "acquire" /\ ttl'.expired = old /\ ttl'.p = p
      BY <1>1, <3>1 DEF Checks
    <3>5. pool'[p] = rest /\ (q # p => pool'[q] = pool[q])
      BY <1>1, <3>1, <3>3, PoolSet
    <3>6. Capacity(q) = Len(pool[q]) + 0
      BY <2>1, CapacityCases
    <3>7. CASE q = p
      <4>1. Capacity(q)' = Len(rest) + Len(old)
        BY <3>4, <3>5, <3>7, CapacityCasesNext
      <4>2. Len(rest) \in Nat /\ Len(old) \in Nat /\ Len(pool[p]) \in Nat
        BY <3>2, <3>3
      <4>3. Capacity(q)' = Capacity(q)
        BY <3>3, <3>6, <3>7, <4>1, <4>2
      <4>4. QED
        BY <4>3 DEF CapacityStep
    <3>8. CASE q # p
      <4>1. Capacity(q)' = Len(pool[q]) + 0
        BY <3>4, <3>5, <3>8, CapacityCasesNext
      <4>2. QED
        BY <3>6, <4>1, Zenon DEF CapacityStep
    <3>9. QED
      BY <3>7, <3>8
  <2>4. QED
    BY <1>4, <2>2, <2>3 DEF PartPool
<1>5. ASSUME AcquireReplacements PROVE CapacityStep(q)
  <2>1. ttl.at = "acquire" /\ UNCHANGED pool
        /\ ttl' = [ttl EXCEPT !.at = "add", !.fresh = Acquired(ttl.p, Len(ttl.expired))]
    BY <1>5, Zenon DEF AcquireReplacements
  <2>2. ttl'.at = "add" /\ ttl'.p = ttl.p /\ ttl'.expired = ttl.expired
    BY <1>1, <2>1 DEF Checks
  <2>3. CASE ttl.p = q
    BY <2>1, <2>2, <2>3, CapacityCases, CapacityCasesNext DEF CapacityStep
  <2>4. CASE ttl.p # q
    BY <2>1, <2>2, <2>4, CapacityCases, CapacityCasesNext DEF CapacityStep
  <2>5. QED
    BY <2>3, <2>4
<1>6. ASSUME AcquireFails PROVE CapacityStep(q)
  <2>1. ttl.at = "acquire" /\ UNCHANGED pool /\ ttl' = NoCheck
    BY <1>6, Zenon DEF AcquireFails
  <2>2. ttl'.at = "idle"
    BY <2>1, NoCheckTyped
  <2>3. CASE ttl.p = q
    BY <2>1, <2>2, <2>3 DEF CapacityStep
  <2>4. CASE ttl.p # q
    BY <2>1, <2>2, <2>4, CapacityCases, CapacityCasesNext DEF CapacityStep
  <2>5. QED
    BY <2>3, <2>4
<1>7. ASSUME AddReplacements PROVE CapacityStep(q)
  <2> DEFINE s == pool[ttl.p] \o ttl.fresh
  <2>1. ttl.at = "add" /\ ttl' = [ttl EXCEPT !.at = "release"] /\ pool' = [pool EXCEPT ![ttl.p] = s]
    BY <1>7 DEF AddReplacements
  <2>2. pool[ttl.p] \in Seq(HostsOf(ttl.p))
    BY <1>1 DEF PoolTyped
  <2>3. s \in Seq(HostsOf(ttl.p)) /\ Len(s) = Len(pool[ttl.p]) + Len(ttl.fresh)
    BY <1>1, <2>2, JoinedElements
  <2> HIDE DEF s
  <2>4. pool'[ttl.p] = s /\ (q # ttl.p => pool'[q] = pool[q])
    BY <1>1, <2>1, <2>3, PoolSet
  <2>5. ttl'.at = "release" /\ Len(ttl.fresh) = Len(ttl.expired)
    BY <1>1, <2>1 DEF Checks, CheckInv
  <2>6. Len(ttl.expired) \in Nat
    BY <1>1
  <2>7. CASE ttl.p = q
    <3>1. Capacity(q) = Len(pool[q]) + Len(ttl.expired)
      BY <2>1, <2>7, CapacityCases
    <3>2. Capacity(q)' = Len(s) + 0
      BY <2>4, <2>5, <2>7, CapacityCasesNext
    <3>3. Len(s) = Len(pool[q]) + Len(ttl.expired)
      BY <2>3, <2>5, <2>7, Zenon
    <3>4. Capacity(q)' = Capacity(q)
      BY <1>1, <2>6, <3>1, <3>2, <3>3
    <3>5. QED
      BY <3>4 DEF CapacityStep
  <2>8. CASE ttl.p # q
    BY <2>1, <2>4, <2>5, <2>8, CapacityCases, CapacityCasesNext DEF CapacityStep
  <2>9. QED
    BY <2>7, <2>8
<1>8. ASSUME ReleaseExpired \/ EndCheck PROVE CapacityStep(q)
  <2>1. ttl.at \in {"release", "next"} /\ UNCHANGED pool
    BY <1>8 DEF ReleaseExpired, EndCheck
  <2>2. ttl' = NoCheck \/ ttl' = [ttl EXCEPT !.at = "next", !.expired = <<>>, !.fresh = <<>>]
    BY <1>8, Zenon DEF ReleaseExpired, EndCheck
  <2>3. ttl'.at \in {"idle", "next"}
    <3>1. [ttl EXCEPT !.at = "next", !.expired = <<>>, !.fresh = <<>>].at = "next"
      BY <1>1 DEF Checks
    <3>2. QED
      BY <2>2, <3>1, NoCheckTyped, Zenon
  <2>4. QED
    BY <1>2, <2>1, <2>3
<1>9. QED
  BY <1>3, <1>4, <1>5, <1>6, <1>7, <1>8, Zenon DEF CheckTTL

(* Only CheckTTL moves its own state.                                      *)
LEMMA OthersLeaveCheck == ASSUME TypedInv, Next, ~CheckTTL PROVE ttl' = ttl
<1>1. CASE Owner
  BY <1>1, OwnerTypes
<1>2. CASE \E x \in Workers : Use(x) \/ Call(x)
  BY <1>2, Zenon DEF Use, Call, fleetVars
<1>3. CASE Tick \/ Over
  BY <1>3, Zenon DEF Tick, Over, vars, fleetVars
<1>4. QED
  BY <1>1, <1>2, <1>3, Zenon DEF Next

(* orchestrator.go:101, "acquires replacements": for every pool and any    *)
(* number of expired hosts the replacements are as many, and unless        *)
(* Acquire fails they all get into the pool they are for.                  *)
THEOREM CapacityIsKept == Spec => CapacityKept
<1>1. IInv /\ [Next]_vars => [\A p \in Providers : CapacityStep(p)]_vars
  <2>1. ASSUME IInv, Next, NEW p \in Providers PROVE CapacityStep(p)
    <3>1. CASE CheckTTL
      BY <2>1, <3>1, CheckKeepsCapacity DEF IInv
    <3>2. CASE ~CheckTTL
      BY <2>1, <3>2, OthersLeaveCheck DEF IInv, CapacityStep
    <3>3. QED
      BY <3>1, <3>2
  <2>2. QED
    BY <2>1, Zenon
<1>2. [\A p \in Providers : CapacityStep(p)]_vars =>
      [\A p \in Providers : ttl' = ttl \/ Capacity(p)' = Capacity(p)
         \/ (ttl.p = p /\ ttl.at = "acquire" /\ ttl'.at = "idle")]_vars
  BY Zenon DEF CapacityStep
<1>3. QED
  BY <1>1, <1>2, Invariance, PTL DEF Spec, CapacityKept

-----------------------------------------------------------------------------
(* Turns.                                                                  *)

(* A set of places has a least one.                                        *)
LEMMA LeastPlace ==
  ASSUME NEW K \in SUBSET Nat, K # {}
  PROVE  Min(K) \in K /\ \A k \in K : Min(K) <= k
<1>1. PICK x \in K : \A y \in K : ~ (<<y, x>> \in Less)
  BY LessWellFounded, WFMin
<1>2. ASSUME NEW y \in K PROVE x <= y
  <2>1. y < x => <<y, x>> \in Less
    BY DEF Less
  <2>2. ~(y < x) /\ x \in Nat /\ y \in Nat
    BY <1>1, <2>1
  <2>3. QED
    BY <2>2
<1>3. QED
  BY <1>2, Zenon DEF Min

(* Where a host stands first, and where it does not stand.                 *)
LEMMA PlaceIs ==
  ASSUME NEW S, NEW s \in Seq(S), NEW h
  PROVE  /\ h \in ToSet(s) => /\ Place(h, s) \in 1 .. Len(s) /\ s[Place(h, s)] = h
                              /\ \A k \in 1 .. Len(s) : s[k] = h => Place(h, s) <= k
         /\ h \notin ToSet(s) => Place(h, s) = 0
<1>1. ToSet(s) = {s[k] : k \in 1 .. Len(s)}
  BY Elements
<1>2. ASSUME h \in ToSet(s)
      PROVE  /\ Place(h, s) \in 1 .. Len(s) /\ s[Place(h, s)] = h
             /\ \A k \in 1 .. Len(s) : s[k] = h => Place(h, s) <= k
  <2> DEFINE K == {k \in 1 .. Len(s) : s[k] = h}
  <2>1. K \in SUBSET Nat /\ K # {}
    BY <1>1, <1>2
  <2>2. DOMAIN s = 1 .. Len(s)
    OBVIOUS
  <2>3. Place(h, s) = Min(K)
    BY <1>2, <2>2, Zenon DEF Place
  <2>4. Min(K) \in K /\ \A k \in K : Min(K) <= k
    BY <2>1, LeastPlace
  <2>5. QED
    BY <2>3, <2>4
<1>3. ASSUME h \notin ToSet(s) PROVE Place(h, s) = 0
  BY <1>3, Zenon DEF Place
<1>4. QED
  BY <1>2, <1>3

(* A host that stands somewhere at k or before has its place there.        *)
LEMMA PlaceAtMost ==
  ASSUME NEW S, NEW s \in Seq(S), NEW h, NEW n \in Nat,
         h \in ToSet(s) => \E k \in 1 .. Len(s) : k <= n /\ s[k] = h
  PROVE  Place(h, s) <= n
<1>1. CASE h \in ToSet(s)
  <2>1. PICK k \in 1 .. Len(s) : k <= n /\ s[k] = h
    BY <1>1
  <2>2. Place(h, s) <= k /\ Place(h, s) \in Nat
    BY <1>1, <2>1, PlaceIs
  <2>3. QED
    BY <2>1, <2>2
<1>2. CASE h \notin ToSet(s)
  BY <1>2, PlaceIs
<1>3. QED
  BY <1>1, <1>2

(* When a pool is turned every host but the first moves one place on.      *)
LEMMA TurnMovesUp ==
  ASSUME NEW S, NEW s \in Seq(S), s # <<>>, NEW h \in ToSet(s), Place(h, s) > 1
  PROVE  Place(h, Append(Tail(s), Head(s))) = Place(h, s) - 1
<1> DEFINE t == Append(Tail(s), Head(s))
           k == Place(h, s)
           j == Place(h, t)
<1>1. /\ t \in Seq(S) /\ Len(t) = Len(s) /\ ToSet(t) = ToSet(s)
      /\ \A i \in 1 .. Len(s) - 1 : t[i] = s[i + 1]
      /\ t[Len(s)] = s[1] /\ Len(s) \in Nat
  BY TurnedElements
<1> HIDE DEF t
<1>2. /\ k \in 1 .. Len(s) /\ s[k] = h /\ \A i \in 1 .. Len(s) : s[i] = h => k <= i
  BY PlaceIs
<1>3. /\ j \in 1 .. Len(s) /\ t[j] = h /\ \A i \in 1 .. Len(s) : t[i] = h => j <= i
  BY <1>1, PlaceIs
<1>4. k > 1
  OBVIOUS
<1> HIDE DEF k, j
<1>5. k - 1 \in 1 .. Len(s) - 1 /\ (k - 1) + 1 = k /\ k - 1 \in 1 .. Len(s)
  BY <1>1, <1>2, <1>4
<1>6. t[k - 1] = h
  BY <1>1, <1>2, <1>5
<1>7. j <= k - 1
  BY <1>3, <1>5, <1>6
<1>8. j \in 1 .. Len(s) - 1 /\ j + 1 \in 1 .. Len(s)
  BY <1>1, <1>2, <1>3, <1>7
<1>9. s[j + 1] = h
  BY <1>1, <1>3, <1>8
<1>10. k <= j + 1
  BY <1>2, <1>8, <1>9
<1>11. j = k - 1
  BY <1>2, <1>3, <1>7, <1>10
<1>12. QED
  BY <1>11 DEF k, j, t

(* Hosts that are added stand behind the others.                           *)
LEMMA JoinKeepsPlace ==
  ASSUME NEW S, NEW s \in Seq(S), NEW t \in Seq(S), NEW h \in ToSet(s)
  PROVE  Place(h, s \o t) <= Place(h, s)
<1> DEFINE J == s \o t
           k == Place(h, s)
<1>1. /\ J \in Seq(S) /\ Len(s) \in Nat /\ Len(t) \in Nat /\ Len(J) = Len(s) + Len(t)
      /\ \A i \in 1 .. Len(s) : J[i] = s[i]
  OBVIOUS
<1> HIDE DEF J
<1>2. k \in 1 .. Len(s) /\ s[k] = h
  BY PlaceIs
<1> HIDE DEF k
<1>3. k \in Nat /\ \E i \in 1 .. Len(J) : i <= k /\ J[i] = h
  BY <1>1, <1>2
<1>4. Place(h, J) <= k
  BY <1>1, <1>3, PlaceAtMost
<1>5. QED
  BY <1>4 DEF J, k

(* Hosts that expire bring nobody back.                                    *)
LEMMA PartKeepsPlace ==
  ASSUME NEW S, NEW s \in Seq(S), NEW h \in ToSet(s)
  PROVE  Place(h, Parted(s).remaining) <= Place(h, s)
<1> DEFINE rest == Parted(s).remaining
           k == Place(h, s)
<1>1. /\ rest \in Seq(S) /\ \A j \in 1 .. Len(s) : s[j] \in ToSet(rest) =>
           \E i \in 1 .. Len(rest) : i <= j /\ rest[i] = s[j]
  BY PartedSets
<1> HIDE DEF rest
<1>2. k \in 1 .. Len(s) /\ s[k] = h
  BY PlaceIs
<1> HIDE DEF k
<1>3. k \in Nat /\ (h \in ToSet(rest) => \E i \in 1 .. Len(rest) : i <= k /\ rest[i] = h)
  BY <1>1, <1>2
<1>4. Place(h, rest) <= k
  BY <1>1, <1>3, PlaceAtMost
<1>5. QED
  BY <1>4 DEF rest, k

(* The step of NeverPassedOver.                                            *)
TurnStep(p, h) ==
  LET before == Place(h, pool[p])
      after == Place(h, pool'[p])
  IN  IF Selected(p) THEN before > 1 => after = before - 1
                     ELSE after <= before

\* what a step can make of the pool of q
PoolChange(q) ==
  \/ pool'[q] = pool[q]
  \/ pool'[q] = <<>>
  \/ pool'[q] = Parted(pool[q]).remaining /\ ttl' # ttl
  \/ \E t \in Seq(HostsOf(q)) : pool'[q] = pool[q] \o t /\ (ttl' # ttl \/ Len(t) = 1)
  \/ pool[q] # <<>> /\ pool'[q] = Append(Tail(pool[q]), Head(pool[q])) /\ ttl' = ttl

(* A pool that is left alone, or loses hosts, or gets more at its end,     *)
(* passes nobody over; nor does one that is turned.                        *)
LEMMA TurnKept ==
  ASSUME PoolTyped, NEW p \in Providers, NEW h \in ToSet(pool[p]), PoolChange(p)
  PROVE  TurnStep(p, h)
<1> DEFINE before == Place(h, pool[p])
           after == Place(h, pool'[p])
<1>1. pool[p] \in Seq(HostsOf(p)) /\ Len(pool[p]) \in Nat
  BY DEF PoolTyped
<1>2. before \in 1 .. Len(pool[p]) /\ before \in Nat
  BY <1>1, PlaceIs
<1>3. ASSUME ~Selected(p), after <= before PROVE TurnStep(p, h)
  BY <1>3, Zenon DEF TurnStep
<1>4. CASE pool'[p] = pool[p]
  <2>1. after = before
    BY <1>4, Zenon
  <2>2. after <= before /\ ~Selected(p)
    BY <1>2, <1>4, <2>1 DEF Selected
  <2>3. QED
    BY <1>3, <2>2
<1>5. CASE pool'[p] = <<>>
  <2>1. after = 0
    <3>1. h \notin ToSet(<<>>)
      BY DEF ToSet
    <3>2. QED
      BY <1>5, <3>1, Zenon DEF Place
  <2>2. pool[p] # <<>>
    <3>1. ToSet(<<>>) = {}
      BY DEF ToSet
    <3>2. QED
      BY <3>1
  <2>3. ~Selected(p)
    <3>1. Len(pool[p]) # 0 /\ Len(pool'[p]) = 0
      BY <1>1, <1>5, <2>2
    <3>2. QED
      BY <3>1, Zenon DEF Selected
  <2>4. after <= before
    BY <1>2, <2>1
  <2>5. QED
    BY <1>3, <2>3, <2>4
<1>6. CASE pool'[p] = Parted(pool[p]).remaining /\ ttl' # ttl
  <2>1. Place(h, Parted(pool[p]).remaining) <= before
    BY <1>1, PartKeepsPlace
  <2>2. after <= before /\ ~Selected(p)
    BY <1>6, <2>1, Zenon DEF Selected
  <2>3. QED
    BY <1>3, <2>2
<1>7. ASSUME NEW t \in Seq(HostsOf(p)), pool'[p] = pool[p] \o t, ttl' # ttl \/ Len(t) = 1
      PROVE  TurnStep(p, h)
  <2>1. Place(h, pool[p] \o t) <= before
    BY <1>1, JoinKeepsPlace
  <2>2. after <= before
    BY <1>7, <2>1, Zenon
  <2>3. Len(pool[p] \o t) = Len(pool[p]) + Len(t)
    BY <1>1, JoinedElements
  <2>4. ~Selected(p)
    <3>1. CASE ttl' # ttl
      BY <3>1, Zenon DEF Selected
    <3>2. CASE Len(t) = 1
      <4>1. Len(pool'[p]) # Len(pool[p])
        BY <1>1, <1>7, <2>3, <3>2
      <4>2. QED
        BY <4>1, Zenon DEF Selected
    <3>3. QED
      BY <1>7, <3>1, <3>2
  <2>5. QED
    BY <1>3, <2>2, <2>4
<1>8. CASE pool[p] # <<>> /\ pool'[p] = Append(Tail(pool[p]), Head(pool[p])) /\ ttl' = ttl
  <2>1. Len(pool'[p]) = Len(pool[p])
    BY <1>1, <1>8, TurnedElements
  <2>2. CASE pool'[p] = pool[p]
    BY <1>4, <2>2
  <2>3. CASE pool'[p] # pool[p]
    <3>1. Selected(p)
      BY <1>8, <2>1, <2>3, Zenon DEF Selected
    <3>2. before > 1 => Place(h, Append(Tail(pool[p]), Head(pool[p]))) = before - 1
      BY <1>1, <1>8, TurnMovesUp
    <3>3. before > 1 => after = before - 1
      BY <1>8, <3>2, Zenon
    <3>4. QED
      BY <3>1, <3>3, Zenon DEF TurnStep
  <2>4. QED
    BY <2>2, <2>3
<1>9. QED
  BY <1>4, <1>5, <1>6, <1>7, <1>8, Zenon DEF PoolChange

(* What a step can do to a pool: nothing, empty it, keep what CheckTTL     *)
(* keeps, add what the provider handed out, or turn it by one host.        *)
LEMMA PoolSteps ==
  ASSUME TypedInv, CheckInv, Next, NEW q \in Providers
  PROVE  PoolChange(q)
<1>1. /\ pool \in [Providers -> Seq(Hosts)] /\ ttl \in Checks /\ ttl.p \in Providers
      /\ ttl.fresh \in Seq(HostsOf(ttl.p)) /\ PoolTyped
  BY DEF TypedInv, PoolTyped, CheckTyped, Checks
<1>2. ASSUME UNCHANGED pool PROVE PoolChange(q)
  BY <1>2, Zenon DEF PoolChange
<1>3. ASSUME NEW p \in Providers, AddHosts(p) PROVE PoolChange(q)
  <2> DEFINE new == Acquired(p, 1)
  <2>1. MayAcquire(p, 1) /\ pool' = [pool EXCEPT ![p] = @ \o new]
    BY <1>3, Zenon DEF AddHosts
  <2>2. new \in Seq(HostsOf(p)) /\ Len(new) = 1
    BY <2>1, AcquiredHosts
  <2> HIDE DEF new
  <2>3. CASE q = p
    <3>1. pool'[q] = pool[q] \o new
      BY <1>1, <2>1, <2>3
    <3>2. QED
      BY <2>2, <2>3, <3>1, Zenon DEF PoolChange
  <2>4. CASE q # p
    <3>1. pool'[q] = pool[q]
      BY <1>1, <2>1, <2>4
    <3>2. QED
      BY <3>1 DEF PoolChange
  <2>5. QED
    BY <2>3, <2>4
<1>4. ASSUME NEW p \in Providers, TakeHosts(p) PROVE PoolChange(q)
  <2>1. pool' = [pool EXCEPT ![p] = <<>>]
    BY <1>4, Zenon DEF TakeHosts
  <2>2. pool'[q] = <<>> \/ pool'[q] = pool[q]
    BY <1>1, <2>1
  <2>3. QED
    BY <2>2 DEF PoolChange
<1>5. CASE SetupProvider \/ SetupFails \/ SetupEnds \/ BeginTeardown \/ ReleaseTaken \/ TearProviderDown \/ EndTeardown
  BY <1>2, <1>5, Zenon DEF SetupProvider, SetupFails, SetupEnds, BeginTeardown, ReleaseTaken, TearProviderDown, EndTeardown
<1>6. ASSUME NEW p \in Providers, PartPool(p) PROVE PoolChange(q)
  <2>1. CASE NothingExpired(p)
    BY <1>2, <2>1, Zenon DEF NothingExpired
  <2>2. CASE SomeExpired(p)
    <3>1. /\ ttl' = [ttl EXCEPT !.left = @ \ {p}, !.p = p, !.at = "acquire", !.expired = Parted(pool[p]).expired]
          /\ pool' = [pool EXCEPT ![p] = Parted(@).remaining] /\ ttl.at = "next"
      BY <1>6, <2>2, Zenon DEF SomeExpired, PartPool
    <3>2. ttl'.at = "acquire"
      BY <1>1, <3>1 DEF Checks
    <3>3. ttl' # ttl
      BY <3>1, <3>2
    <3>4. pool'[q] = Parted(pool[q]).remaining \/ pool'[q] = pool[q]
      BY <1>1, <3>1
    <3>5. QED
      BY <3>3, <3>4 DEF PoolChange
  <2>3. QED
    BY <1>6, <2>1, <2>2 DEF PartPool
<1>7. CASE AddReplacements
  <2>1. ttl.at = "add" /\ ttl' = [ttl EXCEPT !.at = "release"] /\ pool' = [pool EXCEPT ![ttl.p] = @ \o ttl.fresh]
    BY <1>7, Zenon DEF AddReplacements
  <2>2. ttl'.at = "release"
    BY <1>1, <2>1 DEF Checks
  <2>3. ttl' # ttl
    BY <2>1, <2>2
  <2>4. CASE q = ttl.p
    <3>1. pool'[q] = pool[q] \o ttl.fresh /\ ttl.fresh \in Seq(HostsOf(q))
      BY <1>1, <2>1, <2>4
    <3>2. QED
      BY <2>3, <3>1, Zenon DEF PoolChange
  <2>5. CASE q # ttl.p
    <3>1. pool'[q] = pool[q]
      BY <1>1, <2>1, <2>5
    <3>2. QED
      BY <3>1 DEF PoolChange
  <2>6. QED
    BY <2>4, <2>5
<1>8. CASE BeginCheck \/ AcquireReplacements \/ AcquireFails \/ ReleaseExpired \/ EndCheck
  BY <1>2, <1>8, Zenon DEF BeginCheck, AcquireReplacements, AcquireFails, ReleaseExpired, EndCheck
<1>9. ASSUME NEW x \in Workers, Use(x) PROVE PoolChange(q)
  <2>1. PICK p \in Providers :
          /\ pool[p] # <<>> /\ pool'[p] = Append(Tail(pool[p]), Head(pool[p]))
          /\ \A r \in Providers : r # p => pool'[r] = pool[r]
    BY <1>9, UseTurns
  <2>2. ttl' = ttl
    BY <1>9, UseTurns
  <2>3. CASE q = p
    <3>1. pool[q] # <<>> /\ pool'[q] = Append(Tail(pool[q]), Head(pool[q]))
      BY <2>1, <2>3
    <3>2. QED
      BY <2>2, <3>1, Zenon DEF PoolChange
  <2>4. CASE q # p
    <3>1. pool'[q] = pool[q]
      BY <2>1, <2>4
    <3>2. QED
      BY <3>1, Zenon DEF PoolChange
  <2>5. QED
    BY <2>3, <2>4
<1>10. CASE Tick \/ Over \/ \E x \in Workers : Call(x)
  BY <1>2, <1>10, Zenon DEF Tick, Over, Call, vars, fleetVars
<1>11. ASSUME Owner PROVE PoolChange(q)
  BY <1>3, <1>4, <1>5, <1>11, Zenon DEF Owner
<1>12. ASSUME CheckTTL PROVE PoolChange(q)
  BY <1>6, <1>7, <1>8, <1>12, Zenon DEF CheckTTL
<1>13. QED
  BY <1>9, <1>10, <1>11, <1>12, Zenon DEF Next

(* orchestrator.go:77, "simple round-robin": for every pool, however hosts *)
(* expire and are added between two selections, no host that waits is      *)
(* overtaken, and each selection brings the others one place forward.      *)
THEOREM NobodyIsPassedOver == Spec => NeverPassedOver
<1>1. IInv /\ [Next]_vars => [\A p \in Providers : \A h \in ToSet(pool[p]) : TurnStep(p, h)]_vars
  <2>1. ASSUME IInv, Next, NEW p \in Providers, NEW h \in ToSet(pool[p]) PROVE TurnStep(p, h)
    <3>1. TypedInv /\ CheckInv /\ PoolTyped
      BY <2>1 DEF IInv, TypedInv
    <3>2. QED
      BY <2>1, <3>1, PoolSteps, TurnKept
  <2>2. QED
    BY <2>1, Zenon
<1>2. [\A p \in Providers : \A h \in ToSet(pool[p]) : TurnStep(p, h)]_vars =>
      [\A p \in Providers : \A h \in ToSet(pool[p]) :
         LET before == Place(h, pool[p])
             after == Place(h, pool'[p])
         IN  IF Selected(p) THEN before > 1 => after = before - 1
                            ELSE after <= before]_vars
  BY Zenon DEF TurnStep
<1>3. QED
  BY <1>1, <1>2, Invariance, PTL DEF Spec, NeverPassedOver
-----------------------------------------------------------------------------
(* LoadTest: one load test on this machine.                                *)

Results == {"ok", "error"}

\* how many workers the steps behind Run have asked for
Asked == IF step = 1 THEN 0 ELSE Schedule(load)[step - 1].workers

LoadTyped ==
  /\ load \in Loads
  /\ main \in {"ramp", "stop", "collect", "returned"}
  /\ step \in 1 .. Len(Schedule(load)) + 1
  /\ ctxDone \in BOOLEAN /\ closed \in BOOLEAN
  /\ results \in Seq(Results)
  /\ metrics \in [total : Nat, errors : Nat]
  /\ worker \in [WorkerIds -> {"unborn", "look", "working", "ok", "error", "gone"}]
  /\ calls \in [WorkerIds -> Nat]

\* the workers are numbered in the order they are started
BirthInv ==
  /\ active = Asked
  /\ \A x \in WorkerIds : worker[x] = "unborn" <=> x > active
  /\ \A x \in WorkerIds : worker[x] = "unborn" => calls[x] = 0

\* who threw a result away has left, and Run waits for all before it closes the channel
EndInv ==
  /\ dropped \subseteq In({"gone"})
  /\ dropped # {} => ctxDone
  /\ closed => main \in {"collect", "returned"} /\ Live = {}

CountInv ==
  CompletedBy[load.concurrency] =
    metrics.total + Len(results) + Cardinality(In(Results)) + Cardinality(dropped)

LoadInv == LoadTyped /\ BirthInv /\ EndInv /\ CountInv

-----------------------------------------------------------------------------
(* What Run asks of its pool, one step after the other: without a ramp-up  *)
(* all workers at once, with one a few more each time, never more than the *)
(* configured concurrency, never fewer than before.                        *)
LEMMA Scheduled ==
  ASSUME LoadsAssumption, NEW l \in Loads
  PROVE  /\ Schedule(l) \in Seq([timed : BOOLEAN, workers : Nat])
         /\ DOMAIN Schedule(l) = 1 .. Len(Schedule(l)) /\ Len(Schedule(l)) \in Nat
         /\ \A k \in 1 .. Len(Schedule(l)) : Schedule(l)[k].workers \in 0 .. l.concurrency
         /\ \A k \in 1 .. Len(Schedule(l)) - 1 : Schedule(l)[k].workers <= Schedule(l)[k + 1].workers
<1> DEFINE c == l.concurrency
<1>1. c \in Nat /\ l.ramped \in BOOLEAN
  BY DEF LoadsAssumption
<1>2. CASE c = 0
  <2>1. Schedule(l) = <<>>
    BY <1>2 DEF Schedule
  <2>2. QED
    BY <2>1
<1>3. CASE c # 0 /\ (c = 1 \/ ~l.ramped)
  <2>1. Schedule(l) = <<[timed |-> FALSE, workers |-> c]>>
    <3>1. ~(c <= 0)
      BY <1>1, <1>3
    <3>2. QED
      BY <1>3, <3>1, Zenon DEF Schedule
  <2>2. QED
    BY <1>1, <2>1
<1>4. CASE c # 0 /\ c # 1 /\ l.ramped
  <2>1. Schedule(l) = [k \in 1 .. c |-> [timed |-> k > 1, workers |-> k]]
    BY <1>1, <1>4 DEF Schedule
  <2> HIDE DEF c
  <2>2. Schedule(l) \in [1 .. c -> [timed : BOOLEAN, workers : Nat]]
    BY <1>1, <2>1
  <2>3. DOMAIN Schedule(l) = 1 .. c /\ Len(Schedule(l)) = c
    BY <1>1, <2>1, <2>2
  <2>4. \A k \in 1 .. c : Schedule(l)[k].workers = k
    BY <1>1, <2>1
  <2>5. Schedule(l) \in Seq([timed : BOOLEAN, workers : Nat])
    <3>1. ASSUME NEW S, Schedule(l) \in [1 .. c -> S] PROVE Schedule(l) \in Seq(S)
      BY <1>1, <3>1
    <3>2. QED
      BY <2>2, <3>1
  <2>6. QED
    BY <1>1, <2>3, <2>4, <2>5 DEF c
<1>5. QED
  BY <1>2, <1>3, <1>4

(* One summand more by one makes the sum more by one.                      *)
LEMMA OneMoreInSum ==
  ASSUME NEW n \in Nat, NEW a, NEW b, NEW x \in 1 .. n, \A k \in 1 .. n : a[k] \in Nat,
         b[x] = a[x] + 1, \A k \in 1 .. n : k # x => b[k] = a[k],
         NEW f, NEW g, SumsUp(f, a, n), SumsUp(g, b, n)
  PROVE  g[n] = f[n] + 1
<1> DEFINE T == {k \in 0 .. n : g[k] = f[k] + IF k < x THEN 0 ELSE 1}
<1>1. 0 \in T
  BY DEF SumsUp
<1>2. ASSUME NEW k \in 0 .. n - 1, k \in T PROVE k + 1 \in T
  <2>1. k + 1 \in 1 .. n /\ (k + 1) - 1 = k /\ k + 1 \in 0 .. n
    OBVIOUS
  <2>2. f[k + 1] = f[k] + a[k + 1] /\ g[k + 1] = g[k] + b[k + 1] /\ f[k] \in Nat /\ g[k] \in Nat
    BY <2>1 DEF SumsUp
  <2>3. g[k] = f[k] + IF k < x THEN 0 ELSE 1
    BY <1>2
  <2>4. a[k + 1] \in Nat
    BY <2>1
  <2>5. CASE k + 1 = x
    BY <2>1, <2>2, <2>3, <2>4, <2>5
  <2>6. CASE k + 1 # x
    <3>1. b[k + 1] = a[k + 1]
      BY <2>1, <2>6
    <3>2. QED
      BY <2>1, <2>2, <2>3, <2>4, <2>6, <3>1
  <2>7. QED
    BY <2>5, <2>6
<1> HIDE DEF T
<1>3. 0 .. n \subseteq T
  BY <1>1, <1>2, IntervalInduction
<1>4. QED
  BY <1>3 DEF T

(* A sum of zeros is zero.                                                 *)
LEMMA SumOfZeros ==
  ASSUME NEW n \in Nat, NEW a, \A k \in 1 .. n : a[k] = 0, NEW f, SumsUp(f, a, n)
  PROVE  f[n] = 0
<1> DEFINE T == {k \in 0 .. n : f[k] = 0}
<1>1. 0 \in T
  BY DEF SumsUp
<1>2. ASSUME NEW k \in 0 .. n - 1, k \in T PROVE k + 1 \in T
  <2>1. k + 1 \in 1 .. n /\ (k + 1) - 1 = k /\ k + 1 \in 0 .. n /\ a[k + 1] = 0
    OBVIOUS
  <2>2. f[k + 1] = f[k] + a[k + 1]
    BY <2>1 DEF SumsUp
  <2>3. QED
    BY <1>2, <2>1, <2>2
<1> HIDE DEF T
<1>3. 0 .. n \subseteq T
  BY <1>1, <1>2, IntervalInduction
<1>4. QED
  BY <1>3 DEF T

(* The calls completed by the workers of a test, before and after a step.  *)
LEMMA Completed ==
  ASSUME LoadsAssumption, load \in Loads, load' = load,
         calls \in [WorkerIds -> Nat], calls' \in [WorkerIds -> Nat]
  PROVE  /\ 1 .. load.concurrency \subseteq WorkerIds /\ load.concurrency \in Nat
         /\ SumsUp(CompletedBy, calls, load.concurrency)
         /\ SumsUp(CompletedBy', calls', load.concurrency)
<1>1. load.concurrency \in Nat /\ 1 .. load.concurrency \subseteq WorkerIds
  BY DEF LoadsAssumption, WorkerIds
<1>2. \A n \in 1 .. load.concurrency : calls[n] \in Nat /\ calls'[n] \in Nat
  BY <1>1
<1>3. CompletedBy = CHOOSE g : g = [n \in 0 .. load.concurrency |-> IF n = 0 THEN 0 ELSE g[n - 1] + calls[n]]
  BY Zenon DEF CompletedBy
<1>4. CompletedBy' = CHOOSE g : g = [n \in 0 .. load.concurrency |-> IF n = 0 THEN 0 ELSE g[n - 1] + calls'[n]]
  BY Zenon DEF CompletedBy
<1>5. SumsUp(CompletedBy, calls, load.concurrency)
  BY <1>1, <1>2, <1>3, RunningSum, Zenon
<1>6. SumsUp(CompletedBy', calls', load.concurrency)
  BY <1>1, <1>2, <1>4, RunningSum, Zenon
<1>7. QED
  BY <1>1, <1>5, <1>6

(* Workers that were started are those up to the last one asked for.       *)
LEMMA Numbered ==
  ASSUME LoadsAssumption, LoadTyped, BirthInv
  PROVE  /\ active \in Nat /\ active <= load.concurrency
         /\ In(Results) \subseteq 1 .. active /\ In({"gone"}) \subseteq 1 .. active /\ Live \subseteq 1 .. active
         /\ IsFiniteSet(In(Results)) /\ IsFiniteSet(In({"gone"})) /\ IsFiniteSet(Live)
         /\ \A x \in WorkerIds : worker[x] # "unborn" => x \in 1 .. load.concurrency
<1>1. load \in Loads /\ step \in 1 .. Len(Schedule(load)) + 1 /\ active = Asked
  BY DEF LoadTyped, BirthInv
<1>2. active \in Nat /\ active <= load.concurrency /\ load.concurrency \in Nat
  <2>1. load.concurrency \in Nat
    BY <1>1 DEF LoadsAssumption
  <2>2. step # 1 => step - 1 \in 1 .. Len(Schedule(load))
    BY <1>1, Scheduled
  <2>3. step # 1 => Schedule(load)[step - 1].workers \in 0 .. load.concurrency
    BY <1>1, <2>2, Scheduled
  <2>4. QED
    BY <1>1, <2>1, <2>3 DEF Asked
<1>3. \A x \in WorkerIds : x \in Nat /\ x >= 1
  BY DEF WorkerIds, LoadsAssumption
<1>4. \A x \in WorkerIds : worker[x] # "unborn" => x \in 1 .. active
  BY <1>2, <1>3 DEF BirthInv
<1>5. In(Results) \subseteq 1 .. active /\ In({"gone"}) \subseteq 1 .. active /\ Live \subseteq 1 .. active
  BY <1>4 DEF In, Live, Results
<1>6. IsFiniteSet(1 .. active)
  BY <1>2, FS_Interval
<1>7. IsFiniteSet(In(Results)) /\ IsFiniteSet(In({"gone"})) /\ IsFiniteSet(Live)
  BY <1>5, <1>6, FS_Subset
<1>8. QED
  BY <1>2, <1>4, <1>5, <1>7

(* A worker that goes on changes the sets it is in, and no other's.        *)
LEMMA WorkerMoves ==
  ASSUME LoadTyped, NEW x \in WorkerIds, NEW to, worker' = [worker EXCEPT ![x] = to]
  PROVE  /\ In(Results)' = IF to \in Results THEN In(Results) \cup {x} ELSE In(Results) \ {x}
         /\ In({"gone"})' = IF to = "gone" THEN In({"gone"}) \cup {x} ELSE In({"gone"}) \ {x}
         /\ Live' = IF to \in {"unborn", "gone"} THEN Live \ {x} ELSE Live \cup {x}
<1>1. worker'[x] = to /\ \A y \in WorkerIds : y # x => worker'[y] = worker[y]
  BY DEF LoadTyped
<1>2. ASSUME NEW S PROVE In(S)' = IF to \in S THEN In(S) \cup {x} ELSE In(S) \ {x}
  BY <1>1 DEF In
<1>3. QED
  BY <1>2 DEF Live, Results

(* Counting one more, or one less.                                         *)
LEMMA OneInOrOut ==
  ASSUME NEW S, IsFiniteSet(S), NEW x
  PROVE  /\ Cardinality(S) \in Nat
         /\ x \notin S => Cardinality(S \cup {x}) = Cardinality(S) + 1 /\ S \ {x} = S
         /\ x \in S => Cardinality(S \ {x}) = Cardinality(S) - 1 /\ S \cup {x} = S
<1>1. Cardinality(S) \in Nat
  BY FS_CardinalityType
<1>2. x \notin S => Cardinality(S \cup {x}) = Cardinality(S) + 1
  BY FS_AddElement
<1>3. x \in S => Cardinality(S \ {x}) = Cardinality(S) - 1
  BY FS_RemoveElement
<1>4. QED
  BY <1>1, <1>2, <1>3

(* Every step of Run, of a worker and of the collector keeps the types.    *)
LEMMA LoadTypedKept ==
  ASSUME LoadsAssumption, LoadTyped, [LoadNext]_loadVars
  PROVE  LoadTyped' /\ load' = load
<1>1. load \in Loads /\ Len(Schedule(load)) \in Nat
  BY Scheduled DEF LoadTyped
<1> DEFINE States == {"unborn", "look", "working", "ok", "error", "gone"}
<1>2. CASE UNCHANGED loadVars
  BY <1>2 DEF LoadTyped, loadVars
<1>3. CASE Launch
  <2>1. worker' \in [WorkerIds -> States]
    BY <1>3 DEF Launch, LoadTyped
  <2>2. QED
    BY <1>1, <1>3, <2>1 DEF Launch, LoadTyped, workVars
<1>4. CASE StopRamp \/ Close \/ Return \/ End
  <2>1. /\ UNCHANGED <<load, step, results, metrics, worker, calls>>
        /\ main' \in {main, "stop", "collect", "returned"} /\ ctxDone' \in BOOLEAN /\ closed' \in BOOLEAN
    BY <1>4 DEF StopRamp, Close, Return, End, LoadTyped, workVars
  <2>2. QED
    BY <2>1 DEF LoadTyped
<1>5. CASE Collect
  <2>1. results' \in Seq(Results) /\ metrics' \in [total : Nat, errors : Nat]
    BY <1>5 DEF Collect, LoadTyped
  <2>2. QED
    BY <1>5, <2>1 DEF Collect, LoadTyped
<1>6. ASSUME NEW x \in WorkerIds, WorkerStep(x) PROVE LoadTyped' /\ load' = load
  <2>1. CASE Look(x)
    BY <2>1 DEF Look, LoadTyped, workVars
  <2>2. ASSUME NEW to \in Results, Complete(x, to) PROVE LoadTyped' /\ load' = load
    BY <2>2 DEF Complete, LoadTyped, Results
  <2>3. CASE Send(x)
    <3>1. results' \in Seq(Results)
      BY <2>3 DEF Send, LoadTyped, Results
    <3>2. QED
      BY <2>3, <3>1 DEF Send, LoadTyped
  <2>4. CASE Drop(x)
    BY <2>4 DEF Drop, LoadTyped
  <2>5. QED
    BY <1>6, <2>1, <2>2, <2>3, <2>4 DEF WorkerStep, Results
<1>7. QED
  BY <1>2, <1>3, <1>4, <1>5, <1>6 DEF LoadNext, RunStep

(* startWorkers numbers its workers on from the ones that run, so what Run *)
(* has asked for so far is who was started, and nobody else has called the *)
(* connector.                                                              *)
LEMMA BirthKept ==
  ASSUME LoadsAssumption, LoadTyped, BirthInv, [LoadNext]_loadVars
  PROVE  BirthInv'
<1>1. load' = load /\ load \in Loads /\ Len(Schedule(load)) \in Nat /\ step \in 1 .. Len(Schedule(load)) + 1
  BY LoadTypedKept, Scheduled DEF LoadTyped
<1>2. active \in Nat /\ \A x \in WorkerIds : x \in Nat
  BY Numbered DEF WorkerIds, LoadsAssumption
<1>3. CASE Launch
  <2> DEFINE due == Schedule(load)[step]
  <2>1. /\ step <= Len(Schedule(load)) /\ step' = step + 1 /\ active' = due.workers /\ calls' = calls
        /\ worker' = [x \in WorkerIds |-> IF x \in active + 1 .. due.workers THEN "look" ELSE worker[x]]
    BY <1>3 DEF Launch, workVars
  <2>2. due.workers \in Nat /\ active <= due.workers
    <3>1. step \in 1 .. Len(Schedule(load)) /\ (step # 1 => step - 1 \in 1 .. Len(Schedule(load)) - 1 /\ (step - 1) + 1 = step)
      BY <1>1, <2>1
    <3>2. due.workers \in Nat
      BY <1>1, <3>1, Scheduled
    <3>3. step # 1 => Schedule(load)[step - 1].workers <= due.workers
      BY <1>1, <3>1, Scheduled
    <3>4. QED
      BY <3>2, <3>3 DEF BirthInv, Asked
  <2>3. active' = Asked'
    BY <1>1, <2>1 DEF Asked
  <2> HIDE DEF due
  <2>4. \A x \in WorkerIds : worker'[x] = "unborn" <=> x > active'
    BY <1>2, <2>1, <2>2 DEF BirthInv
  <2>5. \A x \in WorkerIds : worker'[x] = "unborn" => calls'[x] = 0
    BY <2>1 DEF BirthInv
  <2>6. QED
    BY <2>3, <2>4, <2>5 DEF BirthInv
<1>4. CASE UNCHANGED <<load, step, active, worker, calls>>
  BY <1>4 DEF BirthInv, Asked
<1>5. ASSUME NEW x \in WorkerIds, worker[x] # "unborn", UNCHANGED <<load, step, active>>,
             NEW to, to # "unborn", worker' = [worker EXCEPT ![x] = to],
             calls' = calls \/ calls' = [calls EXCEPT ![x] = @ + 1]
      PROVE  BirthInv'
  <2>1. Asked' = Asked
    BY <1>5 DEF Asked
  <2>2. \A y \in WorkerIds : (worker'[y] = "unborn" <=> worker[y] = "unborn") /\ (y # x => calls'[y] = calls[y])
    BY <1>5 DEF LoadTyped
  <2>3. worker'[x] # "unborn"
    BY <1>5 DEF LoadTyped
  <2>4. QED
    BY <1>5, <2>1, <2>2, <2>3 DEF BirthInv
<1>6. ASSUME NEW x \in WorkerIds, WorkerStep(x) PROVE BirthInv'
  <2>1. CASE Look(x)
    BY <1>5, <2>1 DEF Look, workVars
  <2>2. CASE Complete(x, "ok")
    BY <1>5, <2>2 DEF Complete
  <2>3. CASE Complete(x, "error")
    BY <1>5, <2>3 DEF Complete
  <2>4. CASE Send(x)
    BY <1>5, <2>4 DEF Send
  <2>5. CASE Drop(x)
    BY <1>5, <2>5 DEF Drop
  <2>6. QED
    BY <1>6, <2>1, <2>2, <2>3, <2>4, <2>5 DEF WorkerStep
<1>7. CASE StopRamp \/ Close \/ Return \/ Collect \/ End \/ UNCHANGED loadVars
  BY <1>4, <1>7 DEF StopRamp, Close, Return, Collect, End, workVars, loadVars
<1>8. QED
  BY <1>3, <1>6, <1>7 DEF LoadNext, RunStep

(* A worker that threw its result away has left, because the context was   *)
(* done; the channel is closed after the last worker has left.             *)
LEMMA EndKept ==
  ASSUME LoadsAssumption, LoadTyped, BirthInv, EndInv, [LoadNext]_loadVars
  PROVE  EndInv'
<1>1. CASE Launch
  <2>1. main = "ramp" /\ UNCHANGED <<main, ctxDone, dropped, closed>>
        /\ worker' = [x \in WorkerIds |->
                        IF x \in active + 1 .. Schedule(load)[step].workers THEN "look" ELSE worker[x]]
    BY <1>1 DEF Launch, workVars
  <2>2. In({"gone"}) \subseteq In({"gone"})'
    <3>1. ASSUME NEW x \in WorkerIds, worker[x] = "gone" PROVE worker'[x] = "gone"
      <4>1. x \in 1 .. active /\ active \in Nat
        BY <3>1, Numbered DEF In
      <4>2. x \notin active + 1 .. Schedule(load)[step].workers
        BY <4>1
      <4>3. QED
        BY <2>1, <3>1, <4>2
    <3>2. QED
      BY <3>1 DEF In
  <2>3. QED
    BY <2>1, <2>2 DEF EndInv
<1>2. CASE StopRamp \/ Return \/ Collect \/ End \/ UNCHANGED loadVars
  <2>1. UNCHANGED <<worker, dropped, closed>> /\ (ctxDone => ctxDone')
        /\ (main \in {"collect", "returned"} => main' \in {"collect", "returned"})
    BY <1>2 DEF StopRamp, Return, Collect, End, workVars, loadVars
  <2>2. In({"gone"})' = In({"gone"}) /\ Live' = Live
    BY <2>1 DEF In, Live
  <2>3. QED
    BY <2>1, <2>2 DEF EndInv
<1>3. CASE Close
  <2>1. UNCHANGED <<worker, dropped, ctxDone>> /\ main' = "collect" /\ Live = {}
    BY <1>3 DEF Close
  <2>2. In({"gone"})' = In({"gone"}) /\ Live' = Live
    BY <2>1 DEF In, Live
  <2>3. QED
    BY <2>1, <2>2 DEF EndInv
<1>4. ASSUME NEW x \in WorkerIds, WorkerStep(x) PROVE EndInv'
  <2>1. worker[x] \notin {"unborn", "gone"}
    BY <1>4 DEF WorkerStep, Look, Complete, Send, Drop
  <2>2. x \in Live /\ x \notin In({"gone"}) /\ ~closed
    BY <2>1 DEF Live, In, EndInv
  <2>3. PICK to : worker' = [worker EXCEPT ![x] = to]
    BY <1>4 DEF WorkerStep, Look, Complete, Send, Drop
  <2>4. worker'[x] = to /\ In({"gone"})' = IF to = "gone" THEN In({"gone"}) \cup {x} ELSE In({"gone"}) \ {x}
    BY <2>3, WorkerMoves DEF LoadTyped
  <2>5. ~closed' /\ ctxDone' = ctxDone
    BY <1>4, <2>2 DEF WorkerStep, Look, Complete, Send, Drop, workVars
  <2>6. dropped' = dropped \/ (dropped' = dropped \cup {x} /\ to = "gone" /\ ctxDone)
    BY <1>4, <2>4 DEF WorkerStep, Look, Complete, Send, Drop, workVars, LoadTyped
  <2>7. QED
    BY <2>2, <2>4, <2>5, <2>6 DEF EndInv
<1>5. QED
  BY <1>1, <1>2, <1>3, <1>4 DEF LoadNext, RunStep

(* A call that returned is counted by the collector, waits in the channel, *)
(* is held by its worker, or was thrown away after the context was done: a *)
(* step moves it from one to the next or to none.                          *)
LEMMA CountKept ==
  ASSUME LoadsAssumption, LoadTyped, BirthInv, EndInv, CountInv, [LoadNext]_loadVars
  PROVE  CountInv'
<1> DEFINE c == load.concurrency
           held == Cardinality(In(Results))
           thrown == Cardinality(dropped)
<1>1. load' = load /\ calls \in [WorkerIds -> Nat] /\ calls' \in [WorkerIds -> Nat] /\ load \in Loads
  BY LoadTypedKept DEF LoadTyped
<1>2. /\ SumsUp(CompletedBy, calls, c) /\ SumsUp(CompletedBy', calls', c) /\ c \in Nat
      /\ 1 .. c \subseteq WorkerIds
  BY <1>1, Completed
<1>3. calls' = calls => CompletedBy' = CompletedBy
  BY <1>1 DEF CompletedBy
<1>4. /\ IsFiniteSet(In(Results)) /\ IsFiniteSet(dropped) /\ held \in Nat /\ thrown \in Nat
      /\ metrics.total \in Nat /\ Len(results) \in Nat
  <2>1. IsFiniteSet(In(Results)) /\ IsFiniteSet(dropped)
    BY Numbered, FS_Subset DEF EndInv
  <2>2. QED
    BY <2>1, FS_CardinalityType DEF LoadTyped
<1>5. CompletedBy[c] = metrics.total + Len(results) + held + thrown
  BY DEF CountInv
<1>6. SUFFICES CompletedBy'[c] = metrics'.total + Len(results') + held' + thrown'
  BY <1>1 DEF CountInv
<1>7. CASE Launch
  <2>1. UNCHANGED <<calls, metrics, results, dropped>>
        /\ worker' = [x \in WorkerIds |->
                        IF x \in active + 1 .. Schedule(load)[step].workers THEN "look" ELSE worker[x]]
    BY <1>7 DEF Launch, workVars
  <2>2. In(Results)' = In(Results)
    <3>1. ASSUME NEW x \in WorkerIds, worker[x] \in Results PROVE worker'[x] \in Results
      <4>1. x \in 1 .. active /\ active \in Nat
        BY <3>1, Numbered DEF In
      <4>2. x \notin active + 1 .. Schedule(load)[step].workers
        BY <4>1
      <4>3. QED
        BY <2>1, <3>1, <4>2
    <3>2. ASSUME NEW x \in WorkerIds, worker'[x] \in Results PROVE worker[x] \in Results
      BY <2>1, <3>2 DEF Results
    <3>3. QED
      BY <3>1, <3>2 DEF In
  <2>3. QED
    BY <1>3, <1>5, <2>1, <2>2
<1>8. CASE StopRamp \/ Close \/ Return \/ End \/ UNCHANGED loadVars
  <2>1. UNCHANGED <<calls, metrics, results, dropped, worker>>
    BY <1>8 DEF StopRamp, Close, Return, End, loadVars, workVars
  <2>2. In(Results)' = In(Results)
    BY <2>1 DEF In
  <2>3. QED
    BY <1>3, <1>5, <2>1, <2>2
<1>9. CASE Collect
  <2>1. /\ UNCHANGED <<calls, dropped, worker>> /\ results # <<>> /\ results' = Tail(results)
        /\ metrics'.total = metrics.total + 1
    BY <1>9 DEF Collect
  <2>2. Len(results') = Len(results) - 1 /\ Len(results) >= 1
    BY <2>1 DEF LoadTyped
  <2>3. In(Results)' = In(Results)
    BY <2>1 DEF In
  <2>4. QED
    BY <1>3, <1>4, <1>5, <2>1, <2>2, <2>3
<1>10. ASSUME NEW x \in WorkerIds, WorkerStep(x)
       PROVE  CompletedBy'[c] = metrics'.total + Len(results') + held' + thrown'
  <2>1. /\ Cardinality(In(Results) \cup {x}) = held + IF x \in In(Results) THEN 0 ELSE 1
        /\ Cardinality(In(Results) \ {x}) = held - IF x \in In(Results) THEN 1 ELSE 0
        /\ x \notin dropped => Cardinality(dropped \cup {x}) = thrown + 1
    <3>1. /\ x \notin In(Results) => Cardinality(In(Results) \cup {x}) = held + 1 /\ In(Results) \ {x} = In(Results)
          /\ x \in In(Results) => Cardinality(In(Results) \ {x}) = held - 1 /\ In(Results) \cup {x} = In(Results)
      BY <1>4, OneInOrOut, Zenon
    <3>2. x \notin dropped => Cardinality(dropped \cup {x}) = thrown + 1
      BY <1>4, OneInOrOut, Zenon
    <3>3. held + 0 = held /\ held - 0 = held
      BY <1>4
    <3>4. CASE x \in In(Results)
      BY <3>1, <3>2, <3>3, <3>4, Zenon
    <3>5. CASE x \notin In(Results)
      BY <3>1, <3>2, <3>3, <3>5, Zenon
    <3>6. QED
      BY <3>4, <3>5
  <2>2. worker[x] \in Results <=> x \in In(Results)
    BY DEF In
  <2>3. CASE Look(x)
    <3>1. PICK to \in {"gone", "working"} : worker' = [worker EXCEPT ![x] = to]
      BY <2>3 DEF Look
    <3>2. UNCHANGED <<calls, metrics, results, dropped>> /\ x \notin In(Results)
      BY <2>2, <2>3 DEF Look, workVars, Results
    <3>3. In(Results)' = In(Results) \ {x}
      BY <3>1, WorkerMoves DEF Results
    <3>4. In(Results)' = In(Results)
      BY <3>2, <3>3
    <3>5. QED
      BY <1>3, <1>5, <3>2, <3>4
  <2>4. ASSUME NEW to \in Results, Complete(x, to)
        PROVE  CompletedBy'[c] = metrics'.total + Len(results') + held' + thrown'
    <3>1. /\ UNCHANGED <<metrics, results, dropped>> /\ worker[x] = "working"
          /\ worker' = [worker EXCEPT ![x] = to] /\ calls' = [calls EXCEPT ![x] = @ + 1]
      BY <2>4 DEF Complete
    <3>2. held' = held + 1
      BY <2>1, <2>2, <3>1, WorkerMoves DEF Results
    <3>3. x \in 1 .. c
      BY <3>1, Numbered
    <3>4. CompletedBy'[c] = CompletedBy[c] + 1
      <4>1. calls'[x] = calls[x] + 1 /\ \A y \in WorkerIds : y # x => calls'[y] = calls[y]
        BY <1>1, <3>1
      <4>2. (\A k \in 1 .. c : calls[k] \in Nat) /\ \A k \in 1 .. c : k # x => calls'[k] = calls[k]
        BY <1>1, <1>2, <4>1
      <4>3. QED
        BY <1>2, <3>3, <4>1, <4>2, OneMoreInSum
    <3>5. QED
      BY <1>4, <1>5, <3>1, <3>2, <3>4
  <2>5. CASE Send(x)
    <3>1. /\ UNCHANGED <<metrics, calls, dropped>> /\ worker[x] \in Results
          /\ worker' = [worker EXCEPT ![x] = "look"] /\ results' = Append(results, worker[x])
      BY <2>5 DEF Send, Results
    <3>2. held' = held - 1
      BY <2>1, <2>2, <3>1, WorkerMoves DEF Results
    <3>3. Len(results') = Len(results) + 1
      BY <3>1 DEF LoadTyped
    <3>4. CompletedBy[c] = metrics.total + (Len(results) + 1) + (held - 1) + thrown
      <4> HIDE DEF held, thrown
      <4>1. QED
        BY <1>4, <1>5
    <3>5. QED
      BY <1>3, <3>1, <3>2, <3>3, <3>4, Zenon
  <2>6. CASE Drop(x)
    <3>1. /\ UNCHANGED <<metrics, calls, results>> /\ worker[x] \in Results
          /\ worker' = [worker EXCEPT ![x] = "gone"] /\ dropped' = dropped \cup {x}
      BY <2>6 DEF Drop, Results
    <3>2. held' = held - 1
      BY <2>1, <2>2, <3>1, WorkerMoves DEF Results
    <3>3. thrown' = thrown + 1
      BY <2>1, <3>1 DEF EndInv, In, Results
    <3>4. QED
      <4>1. CompletedBy[c] = metrics.total + Len(results) + (held - 1) + (thrown + 1)
        <5> HIDE DEF held, thrown
        <5>1. QED
          BY <1>4, <1>5
      <4>2. QED
        BY <1>3, <3>1, <3>2, <3>3, <4>1, Zenon
  <2>7. QED
    BY <1>10, <2>3, <2>4, <2>5, <2>6 DEF WorkerStep, Results
<1>11. QED
  BY <1>7, <1>8, <1>9, <1>10 DEF LoadNext, RunStep

(* Nothing has been called when Run begins.                                *)
LEMMA LoadAtInit == LoadInit => LoadInv
<1> SUFFICES ASSUME LoadInit PROVE LoadInv
  OBVIOUS
<1>0. LoadsAssumption
  BY LoadsAssumption
<1>1. LoadTyped
  <2>1. Len(Schedule(load)) \in Nat
    BY <1>0, Scheduled DEF LoadInit, LoadStarts
  <2>2. QED
    <3>1. load \in Loads /\ step \in 1 .. Len(Schedule(load)) + 1
      BY <2>1 DEF LoadInit, LoadStarts
    <3>2. results \in Seq(Results) /\ metrics \in [total : Nat, errors : Nat]
      BY DEF LoadInit, LoadStarts
    <3>3. QED
      BY <3>1, <3>2 DEF LoadInit, LoadStarts, LoadTyped
<1>2. BirthInv
  BY DEF LoadInit, LoadStarts, BirthInv, Asked, WorkerIds
<1>3. EndInv
  BY DEF LoadInit, LoadStarts, EndInv
<1>4. CountInv
  <2>1. In(Results) = {} /\ Cardinality({}) = 0 /\ Len(results) = 0 /\ metrics.total = 0 /\ dropped = {}
    BY FS_EmptySet DEF LoadInit, LoadStarts, In, Results
  <2>2. CompletedBy[load.concurrency] = 0
    <3>1. \A k \in 1 .. load.concurrency : calls[k] = 0
      BY DEF LoadInit, LoadStarts, WorkerIds
    <3>2. load.concurrency \in Nat
      BY <1>0, <1>1 DEF LoadTyped, LoadsAssumption
    <3>3. CompletedBy = CHOOSE g : g = [n \in 0 .. load.concurrency |-> IF n = 0 THEN 0 ELSE g[n - 1] + calls[n]]
      BY Zenon DEF CompletedBy
    <3>4. SumsUp(CompletedBy, calls, load.concurrency)
      <4>1. \A k \in 1 .. load.concurrency : calls[k] \in Nat
        BY <3>1
      <4>2. QED
        BY <3>2, <3>3, <4>1, RunningSum, Zenon
    <3>5. QED
      BY <3>1, <3>2, <3>4, SumOfZeros
  <2>3. QED
    BY <2>1, <2>2 DEF CountInv
<1>5. QED
  BY <1>1, <1>2, <1>3, <1>4 DEF LoadInv

(* For every load and any number of workers (loadtest.go, Run, runWorker   *)
(* and the collector): every completed call is in the metrics, in the      *)
(* channel, in the hands of its worker or was dropped by a worker that left*)
(* after the end, one by each worker at most; the channel is closed when no*)
(* worker is left that could send; and no more workers live than the step  *)
(* reached asks for.                                                       *)
THEOREM ResultsAreAccounted == LoadSpec => []ResultsAccounted
<1>1. LoadInv /\ [LoadNext]_loadVars => LoadInv'
  BY LoadsAssumption, LoadTypedKept, BirthKept, EndKept, CountKept DEF LoadInv
<1>2. LoadInv => ResultsAccounted
  <2> SUFFICES ASSUME LoadInv PROVE ResultsAccounted
    OBVIOUS
  <2>1. active \in Nat /\ Live \subseteq 1 .. active
    BY LoadsAssumption, Numbered DEF LoadInv
  <2>2. Cardinality(Live) <= active
    <3>1. IsFiniteSet(1 .. active) /\ Cardinality(1 .. active) = active
      BY <2>1, FS_Interval
    <3>2. QED
      BY <2>1, <3>1, FS_Subset
  <2>3. QED
    BY <2>2 DEF LoadInv, CountInv, EndInv, BirthInv, Asked, ResultsAccounted, Results
<1>3. QED
  BY LoadAtInit, <1>1, <1>2, PTL DEF LoadSpec
-----------------------------------------------------------------------------
(* DistributedLoad: arithmetic.                                            *)

(* Dividing rounds down.                                                   *)
LEMMA DivBounds ==
  ASSUME NEW a \in Nat, NEW b \in Nat \ {0}
  PROVE  /\ a \div b \in Nat /\ a % b \in 0 .. b - 1
         /\ a = b * (a \div b) + (a % b)
         /\ b * (a \div b) \in Nat
  BY SMTT(30)

(* The divisor times the quotient falls short by less than the divisor.    *)
LEMMA RoundedDown ==
  ASSUME NEW a \in Nat, NEW b \in Nat \ {0}, NEW m, m = a \div b
  PROVE  m \in Nat /\ b * m \in Nat /\ b * m <= a /\ a - b * m < b
<1>1. /\ m \in Nat /\ a % b \in 0 .. b - 1 /\ a = b * m + (a % b) /\ b * m \in Nat
  BY DivBounds
<1>2. QED
  BY <1>1

(* Multiplying keeps the order.                                            *)
LEMMA TimesMonotone ==
  ASSUME NEW b \in Nat, NEW x \in Int, NEW y \in Int, x <= y
  PROVE  b * x <= b * y
<1>1. b * (y - x) >= 0 /\ b * (y - x) = b * y - b * x
  BY SMTT(30)
<1>2. QED
  BY <1>1

(* A sum that falls short by less than the divisor falls short by one at   *)
(* most when divided.                                                      *)
LEMMA DivClose ==
  ASSUME NEW s \in Nat, NEW j \in Nat, NEW n \in Nat \ {0}, j <= s, s - j < n
  PROVE  s \div n - j \div n \in {0, 1}
<1> SUFFICES ASSUME NEW p, p = s \div n, NEW q, q = j \div n PROVE p - q \in {0, 1}
  OBVIOUS
<1>1. /\ p \in Nat /\ q \in Nat
      /\ n * p <= s /\ s < n * p + n /\ n * q <= j /\ j < n * q + n
      /\ n * p \in Nat /\ n * q \in Nat
  BY DivBounds
<1>2. ~(p <= q - 1)
  <2> SUFFICES ASSUME p + 1 <= q PROVE FALSE
    BY <1>1
  <2>1. n * (p + 1) <= n * q /\ n * (p + 1) = n * p + n
    BY <1>1, TimesMonotone
  <2>2. QED
    BY <1>1, <2>1
<1>3. ~(q + 2 <= p)
  <2> SUFFICES ASSUME q + 2 <= p PROVE FALSE
    OBVIOUS
  <2>1. n * (q + 2) <= n * p /\ n * (q + 2) = n * q + n + n
    BY <1>1, TimesMonotone
  <2>2. QED
    BY <1>1, <2>1
<1>4. QED
  BY <1>1, <1>2, <1>3
-----------------------------------------------------------------------------
(* Sums of sequences.                                                      *)

(* Sum adds up one by one.                                                 *)
LEMMA SumUnfolds ==
  ASSUME NEW s \in Seq(Nat)
  PROVE  \E f : SumsUp(f, s, Len(s)) /\ Sum(s) = f[Len(s)]
<1>1. Len(s) \in Nat /\ \A k \in 1 .. Len(s) : s[k] \in Nat
  OBVIOUS
<1> DEFINE f == CHOOSE g : g = [n \in 0 .. Len(s) |-> IF n = 0 THEN 0 ELSE g[n - 1] + s[n]]
<1>2. Sum(s) = f[Len(s)]
  BY Zenon DEF Sum
<1>3. SumsUp(f, s, Len(s))
  <2> SUFFICES ASSUME NEW h, h = f PROVE SumsUp(h, s, Len(s))
    OBVIOUS
  <2>1. QED
    BY <1>1, RunningSum, Zenon
<1> HIDE DEF f
<1>4. QED
  BY <1>2, <1>3, Zenon

\* g goes up by b, and b is a
GoesUp(g, b, n) == \A k \in 1 .. n : g[k] = g[k - 1] + b[k]
Alike(a, b, n) == \A k \in 1 .. n : b[k] = a[k] /\ a[k] \in Nat

(* Sums of the same summands differ by where they start.                   *)
LEMMA SameSums ==
  ASSUME NEW n \in Nat, NEW a, NEW b, NEW f, NEW g, g[0] \in Int,
         SumsUp(f, a, n), GoesUp(g, b, n), Alike(a, b, n)
  PROVE  g[n] = g[0] + f[n]
<1> DEFINE T == {k \in 0 .. n : g[k] = g[0] + f[k]}
<1>1. 0 \in T
  BY DEF SumsUp
<1>2. ASSUME NEW k \in 0 .. n - 1, k \in T PROVE k + 1 \in T
  <2>1. k + 1 \in 1 .. n /\ (k + 1) - 1 = k /\ k + 1 \in 0 .. n
    OBVIOUS
  <2>2. f[k + 1] = f[k] + a[k + 1] /\ g[k + 1] = g[k] + b[k + 1] /\ f[k] \in Nat
    BY <2>1 DEF SumsUp, GoesUp
  <2>3. b[k + 1] = a[k + 1] /\ a[k + 1] \in Nat /\ g[k] = g[0] + f[k]
    BY <1>2, <2>1 DEF Alike
  <2>4. QED
    BY <2>1, <2>2, <2>3
<1> HIDE DEF T
<1>3. 0 .. n \subseteq T
  BY <1>1, <1>2, IntervalInduction
<1>4. QED
  BY <1>3 DEF T

(* The sum of one sequence after the other is the sum of their sums.       *)
LEMMA SumConcat ==
  ASSUME NEW s \in Seq(Nat), NEW t \in Seq(Nat)
  PROVE  Sum(s \o t) = Sum(s) + Sum(t) /\ Sum(s) \in Nat /\ Sum(t) \in Nat
<1> DEFINE m == Len(s)
           n == Len(t)
           u == s \o t
<1>1. /\ m \in Nat /\ n \in Nat /\ u \in Seq(Nat) /\ Len(u) = m + n
      /\ \A k \in 1 .. m : u[k] = s[k] /\ s[k] \in Nat
      /\ \A k \in 1 .. n : u[m + k] = t[k] /\ t[k] \in Nat
  OBVIOUS
<1> HIDE DEF m, n, u
<1>2. PICK f : SumsUp(f, s, m) /\ Sum(s) = f[m]
  BY SumUnfolds DEF m
<1>3. PICK g : SumsUp(g, t, n) /\ Sum(t) = g[n]
  BY SumUnfolds DEF n
<1>4. PICK h : SumsUp(h, u, m + n) /\ Sum(u) = h[m + n]
  BY <1>1, SumUnfolds
<1>5. h[m] = f[m] /\ f[m] \in Nat /\ g[n] \in Nat
  <2>1. h[0] = 0 /\ GoesUp(h, u, m)
    BY <1>1, <1>4 DEF SumsUp, GoesUp
  <2>2. Alike(s, u, m)
    BY <1>1 DEF Alike
  <2>3. h[m] = h[0] + f[m]
    <3>1. h[0] \in Int
      BY <2>1
    <3>2. m \in Nat /\ SumsUp(f, s, m) /\ GoesUp(h, u, m)
      BY <1>1, <1>2, <2>1
    <3>3. QED
      BY <2>2, <3>1, <3>2, SameSums
  <2>4. f[m] \in Nat /\ g[n] \in Nat
    BY <1>1, <1>2, <1>3 DEF SumsUp
  <2>5. QED
    BY <2>1, <2>3, <2>4
<1>6. h[m + n] = h[m] + g[n]
  <2> DEFINE c == [k \in 0 .. n |-> h[m + k]]
             v == [k \in 1 .. n |-> u[m + k]]
  <2>1. GoesUp(c, v, n)
    <3>1. ASSUME NEW k \in 1 .. n PROVE h[m + k] = h[m + (k - 1)] + u[m + k]
      <4>1. m + k \in 1 .. m + n /\ (m + k) - 1 = m + (k - 1)
        BY <1>1
      <4>2. h[m + k] = h[(m + k) - 1] + u[m + k]
        BY <1>4, <4>1 DEF SumsUp
      <4>3. QED
        BY <4>1, <4>2
    <3>2. QED
      BY <1>1, <3>1 DEF GoesUp
  <2>2. c[0] = h[m] /\ c[n] = h[m + n]
    BY <1>1
  <2>3. Alike(t, v, n)
    BY <1>1 DEF Alike
  <2> HIDE DEF c, v
  <2>4. c[n] = c[0] + g[n]
    <3>1. c[0] \in Int
      BY <1>5, <2>2
    <3>2. QED
      BY <1>1, <1>3, <2>1, <2>3, <3>1, SameSums
  <2>5. QED
    BY <2>2, <2>4
<1>7. QED
  BY <1>2, <1>3, <1>4, <1>5, <1>6 DEF u

(* The sum of nothing.                                                     *)
LEMMA SumOfNone == Sum(<<>>) = 0
<1>1. <<>> \in Seq(Nat) /\ Len(<<>>) = 0
  OBVIOUS
<1>2. PICK f : SumsUp(f, <<>>, Len(<<>>)) /\ Sum(<<>>) = f[Len(<<>>)]
  BY <1>1, SumUnfolds, Zenon
<1>3. f[0] = 0
  BY <1>2 DEF SumsUp
<1>4. QED
  BY <1>1, <1>2, <1>3, Zenon
-----------------------------------------------------------------------------
(* SplitConcurrency gives every worker to a node.                          *)
LEMMA SharesAddUp ==
  ASSUME NEW c \in Nat \ {0}, NEW n \in Nat \ {0}
  PROVE  LET shares == SplitConcurrency(c, n) IN
         /\ shares \in Seq(Nat) /\ Len(shares) = n /\ shares # <<>>
         /\ Sum(shares) = c
         /\ \A j, k \in DOMAIN shares : shares[j] - shares[k] <= 1
<1> SUFFICES ASSUME NEW shares, shares = SplitConcurrency(c, n), NEW q, q = c \div n, NEW r, r = c % n
             PROVE  /\ shares \in Seq(Nat) /\ Len(shares) = n /\ shares # <<>>
                    /\ Sum(shares) = c
                    /\ \A j, k \in DOMAIN shares : shares[j] - shares[k] <= 1
  OBVIOUS
<1>1. q \in Nat /\ r \in 0 .. n - 1 /\ c = n * q + r
  BY DivBounds
<1>2. shares = [k \in 1 .. n |-> q + IF k <= r THEN 1 ELSE 0]
  BY DEF SplitConcurrency
<1>3. /\ shares \in Seq(Nat) /\ Len(shares) = n /\ shares # <<>>
      /\ DOMAIN shares = 1 .. n
      /\ \A k \in 1 .. n : shares[k] = q + IF k <= r THEN 1 ELSE 0
  BY <1>1, <1>2
<1>4. Sum(shares) = c
  <2>1. PICK f : SumsUp(f, shares, n) /\ Sum(shares) = f[n]
    BY <1>3, SumUnfolds
  <2> DEFINE T == {k \in 0 .. n : f[k] = k * q + IF k <= r THEN k ELSE r}
  <2>2. 0 \in T
    BY <1>1, <2>1 DEF SumsUp
  <2>3. ASSUME NEW k \in 0 .. n - 1, k \in T PROVE k + 1 \in T
    <3>1. k + 1 \in 1 .. n /\ (k + 1) - 1 = k
      OBVIOUS
    <3>2. f[k + 1] = f[k] + shares[k + 1] /\ f[k] \in Nat
      BY <2>1, <3>1 DEF SumsUp
    <3>3. (k + 1) * q = k * q + q /\ k * q \in Nat
      BY <1>1, SMTT(20)
    <3>4. shares[k + 1] = q + IF k + 1 <= r THEN 1 ELSE 0
      BY <1>3, <3>1
    <3>5. f[k] = k * q + IF k <= r THEN k ELSE r
      BY <2>3
    <3> HIDE DEF T
    <3>6. f[k + 1] = (k + 1) * q + IF k + 1 <= r THEN k + 1 ELSE r
      BY <1>1, <3>1, <3>2, <3>3, <3>4, <3>5
    <3>7. QED
      BY <3>1, <3>6 DEF T
  <2> HIDE DEF T
  <2>4. 0 .. n \subseteq T
    BY <2>2, <2>3, IntervalInduction
  <2>5. f[n] = n * q + IF n <= r THEN n ELSE r
    BY <2>4 DEF T
  <2>6. ~(n <= r)
    BY <1>1
  <2>7. f[n] = n * q + r
    BY <2>5, <2>6, Zenon
  <2>8. QED
    BY <1>1, <2>1, <2>7, Zenon
<1>5. ASSUME NEW j \in 1 .. n, NEW k \in 1 .. n PROVE shares[j] - shares[k] <= 1
  <2>1. shares[j] \in {q, q + 1} /\ shares[k] \in {q, q + 1}
    <3>1. shares[j] = q + (IF j <= r THEN 1 ELSE 0) /\ shares[k] = q + (IF k <= r THEN 1 ELSE 0)
      BY <1>3
    <3>2. q + 0 = q
      BY <1>1
    <3>3. QED
      BY <3>1, <3>2, Zenon
  <2>2. QED
    BY <1>1, <2>1
<1>6. QED
  BY <1>3, <1>4, <1>5
-----------------------------------------------------------------------------
(* The least and the greatest number of a sequence.                        *)
IsLeast(l, S) == l \in S /\ \A m \in S : l <= m
IsGreatest(l, S) == l \in S /\ \A m \in S : m <= l

(* There is one least number.                                              *)
LEMMA OneLeast ==
  ASSUME NEW S \in SUBSET Nat, NEW a, NEW b, IsLeast(a, S), IsLeast(b, S)
  PROVE  a = b
  BY DEF IsLeast

(* There is one greatest number.                                           *)
LEMMA OneGreatest ==
  ASSUME NEW S \in SUBSET Nat, NEW a, NEW b, IsGreatest(a, S), IsGreatest(b, S)
  PROVE  a = b
  BY DEF IsGreatest

(* The least of two sets together is the lesser of their least numbers; the*)
(* same with the greatest.                                                 *)
LEMMA OneOfTwo ==
  ASSUME NEW S \in SUBSET Nat, NEW T \in SUBSET Nat, NEW U, U = S \union T,
         NEW a \in Nat, NEW b \in Nat, NEW c
  PROVE  /\ IsLeast(a, S) /\ IsLeast(b, T) /\ c = (IF b < a THEN b ELSE a) => IsLeast(c, U)
         /\ IsGreatest(a, S) /\ IsGreatest(b, T) /\ c = (IF b > a THEN b ELSE a) => IsGreatest(c, U)
<1>1. ASSUME IsLeast(a, S), IsLeast(b, T), c = IF b < a THEN b ELSE a PROVE IsLeast(c, U)
  <2>1. c \in U /\ c <= a /\ c <= b /\ c \in Nat
    BY <1>1 DEF IsLeast
  <2>2. ASSUME NEW m \in U PROVE c <= m
    <3>1. m \in Nat /\ (m \in S => a <= m) /\ (m \in T => b <= m)
      BY <1>1 DEF IsLeast
    <3>2. QED
      BY <2>1, <3>1
  <2>3. QED
    BY <2>1, <2>2 DEF IsLeast
<1>2. ASSUME IsGreatest(a, S), IsGreatest(b, T), c = IF b > a THEN b ELSE a PROVE IsGreatest(c, U)
  <2>1. c \in U /\ a <= c /\ b <= c /\ c \in Nat
    BY <1>2 DEF IsGreatest
  <2>2. ASSUME NEW m \in U PROVE m <= c
    <3>1. m \in Nat /\ (m \in S => m <= a) /\ (m \in T => m <= b)
      BY <1>2 DEF IsGreatest
    <3>2. QED
      BY <2>1, <3>1
  <2>3. QED
    BY <2>1, <2>2 DEF IsGreatest
<1>3. QED
  BY <1>1, <1>2

(* The numbers of one sequence after the other are those of both.          *)
LEMMA TakenFrom ==
  ASSUME NEW s \in Seq(Nat), NEW t \in Seq(Nat)
  PROVE  /\ ToSet(s) \in SUBSET Nat /\ ToSet(s \o t) = ToSet(s) \union ToSet(t)
         /\ ToSet(<<>>) = {} /\ (s # <<>> => ToSet(s) # {})
         /\ s \o t \in Seq(Nat) /\ Len(s \o t) = Len(s) + Len(t)
<1>1. ToSet(s) \in SUBSET Nat /\ ToSet(<<>>) = {} /\ (s # <<>> => ToSet(s) # {})
  <2>1. \A k \in DOMAIN s : s[k] \in Nat
    OBVIOUS
  <2>2. ToSet(s) \in SUBSET Nat
    BY <2>1 DEF ToSet
  <2>3. DOMAIN <<>> = {}
    OBVIOUS
  <2>4. ToSet(<<>>) = {}
    BY <2>3, Zenon DEF ToSet
  <2>5. ASSUME s # <<>> PROVE ToSet(s) # {}
    <3>1. 1 \in DOMAIN s
      BY <2>5
    <3>2. QED
      BY <3>1, Zenon DEF ToSet
  <2>6. QED
    BY <2>2, <2>4, <2>5
<1>2. s \o t \in Seq(Nat) /\ Len(s \o t) = Len(s) + Len(t)
  OBVIOUS
<1>3. ToSet(s \o t) \subseteq ToSet(s) \union ToSet(t)
  <2> SUFFICES ASSUME NEW k \in 1 .. Len(s) + Len(t)
               PROVE  (s \o t)[k] \in ToSet(s) \union ToSet(t)
    BY <1>2 DEF ToSet
  <2>1. CASE k <= Len(s)
    BY <2>1 DEF ToSet
  <2>2. CASE k > Len(s)
    <3>1. k - Len(s) \in 1 .. Len(t) /\ (s \o t)[k] = t[k - Len(s)]
      BY <2>2
    <3>2. QED
      BY <3>1 DEF ToSet
  <2>3. QED
    BY <2>1, <2>2
<1>4. ToSet(s) \union ToSet(t) \subseteq ToSet(s \o t)
  <2>1. ASSUME NEW k \in 1 .. Len(s) PROVE s[k] \in ToSet(s \o t)
    <3>1. k \in 1 .. Len(s \o t) /\ (s \o t)[k] = s[k]
      BY <1>2
    <3>2. QED
      BY <3>1 DEF ToSet
  <2>2. ASSUME NEW k \in 1 .. Len(t) PROVE t[k] \in ToSet(s \o t)
    <3>1. Len(s) + k \in 1 .. Len(s \o t) /\ (s \o t)[Len(s) + k] = t[k]
      BY <1>2
    <3>2. QED
      BY <3>1 DEF ToSet
  <2>3. DOMAIN s = 1 .. Len(s) /\ DOMAIN t = 1 .. Len(t)
    OBVIOUS
  <2>4. ToSet(s) \subseteq ToSet(s \o t)
    <3>1. ASSUME NEW x \in ToSet(s) PROVE x \in ToSet(s \o t)
      <4>1. PICK k \in DOMAIN s : x = s[k]
        BY Zenon DEF ToSet
      <4>2. QED
        BY <2>1, <2>3, <4>1
    <3>2. QED
      BY <3>1
  <2>5. ToSet(t) \subseteq ToSet(s \o t)
    <3>1. ASSUME NEW x \in ToSet(t) PROVE x \in ToSet(s \o t)
      <4>1. PICK k \in DOMAIN t : x = t[k]
        BY Zenon DEF ToSet
      <4>2. QED
        BY <2>2, <2>3, <4>1
    <3>2. QED
      BY <3>1
  <2>6. QED
    BY <2>4, <2>5
<1>5. QED
  BY <1>1, <1>2, <1>3, <1>4

(* Requests that were served have a shortest and a longest latency, which  *)
(* Snapshot reports.                                                       *)
LEMMA LeastAndGreatest ==
  ASSUME NEW s \in Seq(Nat), s # <<>>
  PROVE  IsLeast(Least(s), ToSet(s)) /\ IsGreatest(Greatest(s), ToSet(s))
<1>1. ToSet(s) \in SUBSET Nat /\ ToSet(s) # {}
  BY TakenFrom
<1>2. \E l \in ToSet(s) : \A m \in ToSet(s) : l <= m
  <2>1. PICK l \in ToSet(s) : \A m \in ToSet(s) : ~ (<<m, l>> \in Less)
    BY <1>1, LessWellFounded, WFMin
  <2>2. ASSUME NEW m \in ToSet(s) PROVE l <= m
    <3>1. l \in Nat /\ m \in Nat /\ ~ (<<m, l>> \in Less)
      BY <1>1, <2>1
    <3>2. ~ (m < l)
      <4>1. <<m, l>> \in Nat \X Nat /\ <<m, l>>[1] = m /\ <<m, l>>[2] = l
        BY <3>1
      <4>2. QED
        BY <3>1, <4>1 DEF Less
    <3>3. QED
      BY <3>1, <3>2
  <2>3. QED
    BY <2>2
<1>3. \E l \in ToSet(s) : \A m \in ToSet(s) : l >= m
  <2> DEFINE n == Len(s)
             T == {k \in 0 .. n : k = 0 \/ \E j \in 1 .. k : \A i \in 1 .. k : s[j] >= s[i]}
  <2>1. n \in Nat \ {0} /\ (\A k \in 1 .. n : s[k] \in Nat) /\ 0 \in T
    OBVIOUS
  <2>2. ASSUME NEW k \in 0 .. n - 1, k \in T PROVE k + 1 \in T
    <3>1. CASE k = 0
      BY <2>1, <3>1
    <3>2. CASE k # 0
      <4>1. PICK j \in 1 .. k : \A i \in 1 .. k : s[j] >= s[i]
        BY <2>2, <3>2
      <4>2. PICK m \in {j, k + 1} : s[m] >= s[j] /\ s[m] >= s[k + 1]
        BY <2>1, <4>1
      <4>3. m \in 1 .. k + 1 /\ \A i \in 1 .. k + 1 : s[m] >= s[i]
        BY <2>1, <4>1, <4>2
      <4>4. QED
        BY <4>3
    <3>3. QED
      BY <3>1, <3>2
  <2>3. n \in T
    <3> HIDE DEF T
    <3>1. 0 .. n \subseteq T
      BY <2>1, <2>2, IntervalInduction
    <3>2. QED
      BY <2>1, <3>1
  <2>4. PICK j \in 1 .. n : \A i \in 1 .. n : s[j] >= s[i]
    BY <2>1, <2>3
  <2>5. DOMAIN s = 1 .. n
    OBVIOUS
  <2> HIDE DEF n, T
  <2>6. s[j] \in ToSet(s)
    BY <2>4, <2>5, Zenon DEF ToSet
  <2>7. ASSUME NEW m \in ToSet(s) PROVE s[j] >= m
    <3>1. PICK i \in DOMAIN s : m = s[i]
      BY Zenon DEF ToSet
    <3>2. QED
      BY <2>4, <2>5, <3>1
  <2>8. QED
    BY <2>6, <2>7
<1>4. Least(s) \in ToSet(s) /\ \A m \in ToSet(s) : Least(s) <= m
  BY <1>2, Zenon DEF Least
<1>5. Greatest(s) \in ToSet(s) /\ \A m \in ToSet(s) : Greatest(s) >= m
  BY <1>3, Zenon DEF Greatest
<1>6. QED
  BY <1>1, <1>4, <1>5 DEF IsLeast, IsGreatest
-----------------------------------------------------------------------------
(* What the loop of AggregateResults keeps true.                           *)
Totals == [total : Nat, success : Int, errors : Nat, sum : Nat, first : BOOLEAN, min : Nat, max : Nat]

\* acc tells of one run whose requests took s and of which e failed; the mean
\* is rounded down, by less than one for each request
Tells(acc, s, e) ==
  /\ acc.total = Len(s) /\ acc.errors = e /\ acc.success = Len(s) - e
  /\ acc.sum <= Sum(s)
  /\ IF s = <<>> THEN acc.sum = Sum(s) /\ acc.max = 0
     ELSE Sum(s) - acc.sum < Len(s) /\ IsGreatest(acc.max, ToSet(s))
  /\ acc.first => s = <<>> /\ acc.min = 0

\* the minimum is that of s; before the first node there is none
LeastOf(acc, s) == acc.first \/ (s # <<>> /\ IsLeast(acc.min, ToSet(s)))

\* what a snapshot t of requests that took l, of which d failed, says
Shows(t, l, d) ==
  /\ t.total = Len(l) /\ t.errors = d /\ t.success = Len(l) - d
  /\ t.mean \in Nat /\ t.min \in Nat /\ t.max \in Nat /\ Len(l) \in Nat /\ Sum(l) \in Nat
  /\ t.mean * t.total \in Nat /\ t.mean * t.total <= Sum(l)
  /\ IF l = <<>> THEN t.max = 0 /\ t.mean * t.total = Sum(l) /\ Sum(l) = 0 /\ Len(l) = 0
     ELSE /\ Sum(l) - t.mean * t.total < Len(l) /\ Len(l) > 0
          /\ t.mean = Sum(l) \div Len(l) /\ t.min = Least(l) /\ t.max = Greatest(l)

(* The mean of a node times its requests falls short of its latencies by   *)
(* less than one for each request.                                         *)
LEMMA SnapshotTells ==
  ASSUME NEW l \in Seq(Nat), NEW d \in Nat, NEW t, t = Snapshot(l, d)
  PROVE  Shows(t, l, d)
<1> SUFFICES ASSUME NEW m, m = IF l = <<>> THEN 0 ELSE Sum(l) \div Len(l),
                    NEW a, a = (IF l = <<>> THEN 0 ELSE Least(l)),
                    NEW b, b = (IF l = <<>> THEN 0 ELSE Greatest(l))
             PROVE  /\ m \in Nat /\ a \in Nat /\ b \in Nat /\ Len(l) \in Nat /\ Sum(l) \in Nat
                    /\ m * Len(l) \in Nat /\ m * Len(l) <= Sum(l)
                    /\ IF l = <<>> THEN b = 0 /\ m * Len(l) = Sum(l) /\ Sum(l) = 0 /\ Len(l) = 0
                       ELSE Sum(l) - m * Len(l) < Len(l) /\ Len(l) > 0 /\ m = Sum(l) \div Len(l)
                            /\ a = Least(l) /\ b = Greatest(l)
  BY DEF Snapshot, Shows
<1>1. Len(l) \in Nat /\ Sum(l) \in Nat
  BY SumConcat
<1>2. CASE l = <<>>
  <2>1. Sum(l) = 0 /\ Len(l) = 0
    BY <1>2, SumOfNone
  <2>2. QED
    BY <1>1, <1>2, <2>1
<1>3. CASE l # <<>>
  <2>1. Len(l) \in Nat \ {0}
    BY <1>3
  <2>2. /\ m \in Nat /\ Len(l) * m \in Nat
        /\ Len(l) * m <= Sum(l) /\ Sum(l) - Len(l) * m < Len(l)
    <3>1. m = Sum(l) \div Len(l)
      BY <1>3
    <3>2. QED
      BY <1>1, <2>1, <3>1, RoundedDown
  <2>3. m * Len(l) = Len(l) * m
    BY <1>1, <2>2
  <2>4. a \in Nat /\ b \in Nat
    BY <1>3, LeastAndGreatest, TakenFrom DEF IsLeast, IsGreatest
  <2>5. QED
    BY <1>1, <1>3, <2>1, <2>2, <2>3, <2>4
<1>4. QED
  BY <1>2, <1>3

(* What two nodes fall short by adds up.                                   *)
LEMMA ShortBy ==
  ASSUME NEW a \in Nat, NEW x \in Nat, NEW i \in Nat, NEW p \in Nat, NEW y \in Nat, NEW j \in Nat,
         a <= x, IF i = 0 THEN a = x ELSE x - a < i,
         p <= y, IF j = 0 THEN p = y ELSE y - p < j
  PROVE  /\ a + p <= x + y
         /\ IF i + j = 0 THEN a + p = x + y ELSE (x + y) - (a + p) < i + j
  OBVIOUS

(* The totals of the loop are typed.                                       *)
LEMMA TotalsAre ==
  ASSUME NEW a \in Nat, NEW b \in Int, NEW c \in Nat, NEW d \in Nat, NEW m \in Nat, NEW n \in Nat
  PROVE  [total |-> a, success |-> b, errors |-> c, sum |-> d, first |-> FALSE,
          min |-> m, max |-> n] \in Totals
  BY DEF Totals

(* Joining a node's snapshot adds to the totals and keeps them typed.      *)
LEMMA JoinTyped ==
  ASSUME NEW acc \in Totals, NEW l \in Seq(Nat), NEW d \in Nat
  PROVE  Join(acc, Snapshot(l, d)) \in Totals
<1> SUFFICES ASSUME NEW t, t = Snapshot(l, d), NEW new, new = Join(acc, t)
             PROVE  new \in Totals
  OBVIOUS
<1>1. PICK p : /\ t.total = Len(l) /\ t.errors = d /\ t.success = Len(l) - d
               /\ t.min \in Nat /\ t.max \in Nat /\ Len(l) \in Nat /\ Sum(l) \in Nat
               /\ p \in Nat /\ p <= Sum(l) /\ new.sum = acc.sum + p
               /\ IF l = <<>> THEN t.max = 0 /\ p = Sum(l) /\ Sum(l) = 0 /\ Len(l) = 0
                  ELSE Sum(l) - p < Len(l) /\ Len(l) > 0 /\ t.min = Least(l) /\ t.max = Greatest(l)
  <2>1. Shows(t, l, d)
    BY SnapshotTells
  <2>2. new.sum = acc.sum + t.mean * t.total
    BY Zenon DEF Join
  <2>3. QED
    BY <2>1, <2>2, Zenon DEF Shows
<1>2. /\ new.total = acc.total + Len(l) /\ new.success = acc.success + (Len(l) - d)
      /\ new.errors = acc.errors + d /\ new.sum = acc.sum + p /\ new.first = FALSE
      /\ new.min = IF acc.first \/ t.min < acc.min THEN t.min ELSE acc.min
      /\ new.max = IF acc.first \/ t.max > acc.max THEN t.max ELSE acc.max
  BY <1>1, Zenon DEF Join
<1>3. new = [total |-> acc.total + Len(l), success |-> acc.success + (Len(l) - d),
             errors |-> acc.errors + d, sum |-> acc.sum + p, first |-> FALSE,
             min |-> new.min, max |-> new.max]
  BY <1>1, <1>2, Zenon DEF Join
<1>4. /\ acc.total \in Nat /\ acc.success \in Int /\ acc.errors \in Nat /\ acc.sum \in Nat
      /\ acc.min \in Nat /\ acc.max \in Nat
  BY DEF Totals
<1>5. p \in Nat /\ new.min \in Nat /\ new.max \in Nat
  BY <1>1, <1>2, <1>4
<1>6. acc.total + Len(l) \in Nat /\ acc.success + (Len(l) - d) \in Int
      /\ acc.errors + d \in Nat /\ acc.sum + p \in Nat
  <2>1. Len(l) \in Nat
    OBVIOUS
  <2>2. acc.total + Len(l) \in Nat
    BY <1>4, <2>1
  <2>3. acc.success + (Len(l) - d) \in Int
    BY <1>4, <2>1
  <2>4. acc.errors + d \in Nat
    BY <1>4
  <2>5. acc.sum + p \in Nat
    BY <1>4, <1>5
  <2>6. QED
    BY <2>2, <2>3, <2>4, <2>5
<1>7. [total |-> acc.total + Len(l), success |-> acc.success + (Len(l) - d),
       errors |-> acc.errors + d, sum |-> acc.sum + p, first |-> FALSE,
       min |-> new.min, max |-> new.max] \in Totals
  BY <1>5, <1>6, TotalsAre
<1>8. QED
  BY <1>3, <1>7, Zenon

(* Joining the snapshot of one more node tells of its requests beside those*)
(* of the nodes before: this is one turn of the loop of AggregateResults.  *)
LEMMA JoinTells ==
  ASSUME NEW s \in Seq(Nat), NEW e \in Nat, NEW l \in Seq(Nat), NEW d \in Nat,
         NEW acc \in Totals, Tells(acc, s, e)
  PROVE  /\ Join(acc, Snapshot(l, d)) \in Totals
         /\ Tells(Join(acc, Snapshot(l, d)), s \o l, e + d)
         /\ LeastOf(acc, s) /\ l # <<>> => LeastOf(Join(acc, Snapshot(l, d)), s \o l)
<1> SUFFICES ASSUME NEW t, t = Snapshot(l, d), NEW new, new = Join(acc, t)
             PROVE  new \in Totals /\ Tells(new, s \o l, e + d)
                    /\ (LeastOf(acc, s) /\ l # <<>> => LeastOf(new, s \o l))
  OBVIOUS
<1>1. PICK p : /\ t.total = Len(l) /\ t.errors = d /\ t.success = Len(l) - d
               /\ t.min \in Nat /\ t.max \in Nat /\ Len(l) \in Nat /\ Sum(l) \in Nat
               /\ p \in Nat /\ p <= Sum(l) /\ new.sum = acc.sum + p
               /\ IF l = <<>> THEN t.max = 0 /\ p = Sum(l) /\ Sum(l) = 0 /\ Len(l) = 0
                  ELSE Sum(l) - p < Len(l) /\ Len(l) > 0 /\ t.min = Least(l) /\ t.max = Greatest(l)
  <2>1. Shows(t, l, d)
    BY SnapshotTells
  <2>2. new.sum = acc.sum + t.mean * t.total
    BY Zenon DEF Join
  <2>3. QED
    BY <2>1, <2>2, Zenon DEF Shows
<1>2. /\ new.total = acc.total + Len(l) /\ new.success = acc.success + (Len(l) - d)
      /\ new.errors = acc.errors + d /\ new.sum = acc.sum + p /\ new.first = FALSE
      /\ new.min = IF acc.first \/ t.min < acc.min THEN t.min ELSE acc.min
      /\ new.max = IF acc.first \/ t.max > acc.max THEN t.max ELSE acc.max
  BY <1>1, Zenon DEF Join
<1>3. new \in Totals
  BY JoinTyped
<1>4. /\ Len(s) \in Nat /\ Sum(s) \in Nat /\ Len(s \o l) = Len(s) + Len(l)
      /\ Sum(s \o l) = Sum(s) + Sum(l)
      /\ ToSet(s) \in SUBSET Nat /\ ToSet(l) \in SUBSET Nat
      /\ ToSet(s \o l) = ToSet(s) \union ToSet(l)
      /\ (s = <<>> => s \o l = l /\ Sum(s) = 0 /\ Len(s) = 0)
      /\ (l = <<>> => s \o l = s)
      /\ (s # <<>> => Len(s) > 0)
      /\ (s \o l = <<>> <=> s = <<>> /\ l = <<>>)
  <2>1. /\ Len(s) \in Nat /\ Len(s \o l) = Len(s) + Len(l) /\ (s # <<>> => Len(s) > 0)
        /\ (s = <<>> => s \o l = l /\ Len(s) = 0) /\ (l = <<>> => s \o l = s)
        /\ (s \o l = <<>> <=> s = <<>> /\ l = <<>>)
    <3>1. Len(s) \in Nat /\ Len(s \o l) = Len(s) + Len(l) /\ (s # <<>> => Len(s) > 0)
      OBVIOUS
    <3>2. (s = <<>> => s \o l = l /\ Len(s) = 0) /\ (l = <<>> => s \o l = s)
      BY ConcatEmptySeq
    <3>3. s \o l = <<>> <=> s = <<>> /\ l = <<>>
      BY <1>1, <3>1, EmptySeq
    <3>4. QED
      BY <3>1, <3>2, <3>3
  <2>2. Sum(s) \in Nat /\ Sum(s \o l) = Sum(s) + Sum(l)
    BY SumConcat
  <2>3. ToSet(s) \in SUBSET Nat /\ ToSet(l) \in SUBSET Nat /\ ToSet(s \o l) = ToSet(s) \union ToSet(l)
    BY TakenFrom
  <2>4. s = <<>> => Sum(s) = 0
    BY SumOfNone, Zenon
  <2>5. QED
    BY <2>1, <2>2, <2>3, <2>4
<1>5. /\ acc.total = Len(s) /\ acc.errors = e /\ acc.success = Len(s) - e
      /\ acc.sum \in Nat /\ acc.min \in Nat /\ acc.max \in Nat /\ acc.sum <= Sum(s)
      /\ IF s = <<>> THEN acc.sum = Sum(s) /\ acc.max = 0
         ELSE Sum(s) - acc.sum < Len(s) /\ IsGreatest(acc.max, ToSet(s))
      /\ acc.first => s = <<>> /\ acc.min = 0
  <2>1. acc.sum \in Nat /\ acc.min \in Nat /\ acc.max \in Nat
    BY DEF Totals
  <2>2. QED
    BY <2>1 DEF Tells
<1>6. l # <<>> => IsLeast(t.min, ToSet(l)) /\ IsGreatest(t.max, ToSet(l))
  <2> SUFFICES ASSUME l # <<>> PROVE IsLeast(t.min, ToSet(l)) /\ IsGreatest(t.max, ToSet(l))
    OBVIOUS
  <2>1. t.min = Least(l) /\ t.max = Greatest(l)
    BY <1>1
  <2>2. IsLeast(Least(l), ToSet(l)) /\ IsGreatest(Greatest(l), ToSet(l))
    BY LeastAndGreatest
  <2>3. QED
    BY <2>1, <2>2, Zenon
<1> SUFFICES ASSUME NEW u, u = s \o l
             PROVE  Tells(new, u, e + d) /\ (LeastOf(acc, s) /\ l # <<>> => LeastOf(new, u))
  BY <1>3
<1>7. Tells(new, u, e + d)
  <2>1. new.total = Len(u) /\ new.errors = e + d /\ new.success = Len(u) - (e + d)
    BY <1>1, <1>2, <1>4, <1>5
  <2>2. new.sum <= Sum(u) /\ (u = <<>> => new.sum = Sum(u)) /\ (u # <<>> => Sum(u) - new.sum < Len(u))
    <3>1. Sum(u) = Sum(s) + Sum(l) /\ new.sum = acc.sum + p /\ Len(u) = Len(s) + Len(l)
      BY <1>2, <1>4
    <3>2. /\ acc.sum <= Sum(s) /\ acc.sum \in Nat /\ Sum(s) \in Nat /\ Len(s) \in Nat
          /\ IF s = <<>> THEN Len(s) = 0 /\ acc.sum = Sum(s)
             ELSE Len(s) > 0 /\ Sum(s) - acc.sum < Len(s)
      BY <1>4, <1>5
    <3>3. /\ p <= Sum(l) /\ p \in Nat /\ Sum(l) \in Nat /\ Len(l) \in Nat
          /\ IF l = <<>> THEN Len(l) = 0 /\ p = Sum(l)
             ELSE Len(l) > 0 /\ Sum(l) - p < Len(l)
      BY <1>1
    <3>4. u = <<>> <=> s = <<>> /\ l = <<>>
      BY <1>4
    <3>5. /\ acc.sum + p <= Sum(s) + Sum(l)
          /\ IF Len(s) + Len(l) = 0 THEN acc.sum + p = Sum(s) + Sum(l)
             ELSE (Sum(s) + Sum(l)) - (acc.sum + p) < Len(s) + Len(l)
      <4>1. IF Len(s) = 0 THEN acc.sum = Sum(s) ELSE Sum(s) - acc.sum < Len(s)
        BY <3>2
      <4>2. IF Len(l) = 0 THEN p = Sum(l) ELSE Sum(l) - p < Len(l)
        BY <3>3
      <4>3. QED
        BY <3>2, <3>3, <4>1, <4>2, ShortBy
    <3>6. Len(u) = 0 <=> u = <<>>
      BY <3>1, <3>2, <3>3, <3>4
    <3>7. QED
      BY <3>1, <3>5, <3>6, Zenon
  <2>3. u = <<>> => new.max = 0
    BY <1>1, <1>2, <1>4, <1>5
  <2>4. ASSUME u # <<>> PROVE IsGreatest(new.max, ToSet(u))
    <3>1. CASE s = <<>>
      <4>1. ToSet(u) = ToSet(l) /\ l # <<>> /\ IsGreatest(t.max, ToSet(l)) /\ t.max \in Nat
        BY <1>1, <1>4, <1>6, <2>4, <3>1
      <4>2. new.max = t.max
        BY <1>2, <1>5, <3>1, <4>1
      <4>3. QED
        BY <4>1, <4>2, Zenon
    <3>2. CASE s # <<>> /\ l = <<>>
      <4>1. ToSet(u) = ToSet(s) /\ IsGreatest(acc.max, ToSet(s)) /\ acc.max \in Nat /\ t.max = 0
        BY <1>1, <1>4, <1>5, <3>2
      <4>2. new.max = acc.max
        BY <1>2, <1>5, <3>2, <4>1
      <4>3. QED
        BY <4>1, <4>2, Zenon
    <3>3. CASE s # <<>> /\ l # <<>>
      <4>1. IsGreatest(acc.max, ToSet(s)) /\ IsGreatest(t.max, ToSet(l)) /\ ~acc.first
        BY <1>5, <1>6, <3>3
      <4>2. new.max = IF t.max > acc.max THEN t.max ELSE acc.max
        BY <1>2, <4>1
      <4>3. /\ ToSet(s) \in SUBSET Nat /\ ToSet(l) \in SUBSET Nat /\ ToSet(u) = ToSet(s) \union ToSet(l)
            /\ acc.max \in Nat /\ t.max \in Nat
        BY <1>1, <1>4, <1>5
      <4>4. QED
        BY <4>1, <4>2, <4>3, OneOfTwo
    <3>4. QED
      BY <3>1, <3>2, <3>3
  <2>5. QED
    BY <1>2, <2>1, <2>2, <2>3, <2>4 DEF Tells
<1>8. ASSUME LeastOf(acc, s), l # <<>> PROVE LeastOf(new, u)
  <2>1. u # <<>>
    BY <1>4, <1>8
  <2>2. IsLeast(t.min, ToSet(l))
    BY <1>6, <1>8
  <2>3. CASE acc.first
    <3>1. ToSet(u) = ToSet(l) /\ new.min = t.min
      BY <1>2, <1>4, <1>5, <2>3
    <3>2. QED
      BY <2>1, <2>2, <3>1, Zenon DEF LeastOf
  <2>4. CASE ~acc.first
    <3>1. IsLeast(acc.min, ToSet(s)) /\ new.min = IF t.min < acc.min THEN t.min ELSE acc.min
      BY <1>2, <1>8, <2>4 DEF LeastOf
    <3>2. IsLeast(new.min, ToSet(u))
      <4>1. /\ ToSet(s) \in SUBSET Nat /\ ToSet(l) \in SUBSET Nat /\ ToSet(u) = ToSet(s) \union ToSet(l)
            /\ acc.min \in Nat /\ t.min \in Nat
        BY <1>1, <1>4, <1>5
      <4>2. QED
        BY <2>2, <3>1, <4>1, OneOfTwo
    <3>3. QED
      BY <2>1, <3>2 DEF LeastOf
  <2>5. QED
    BY <2>3, <2>4
<1>9. QED
  BY <1>7, <1>8
-----------------------------------------------------------------------------
(* The loop of AggregateResults, and the requests of the nodes so far.     *)
NodeResults == {r \in [lats : Seq(Latencies), errors : Nat, failed : BOOLEAN] : r.errors <= Len(r.lats)}

(* What a node measured is typed.                                          *)
LEMMA NodeTyped ==
  ASSUME NEW all \in Seq(NodeResults), NEW k \in 1 .. Len(all)
  PROVE  all[k].lats \in Seq(Nat) /\ all[k].errors \in Nat /\ all[k].failed \in BOOLEAN
<1>1. all[k] \in NodeResults
  OBVIOUS
<1>2. all[k].lats \in Seq(Latencies) /\ all[k].errors \in Nat /\ all[k].failed \in BOOLEAN
  BY <1>1 DEF NodeResults
<1>3. Latencies \subseteq Nat
  BY RequestsAssumption
<1>4. ASSUME NEW x \in Seq(Latencies) PROVE x \in Seq(Nat)
  <2>1. Len(x) \in Nat /\ DOMAIN x = 1 .. Len(x) /\ \A i \in 1 .. Len(x) : x[i] \in Latencies
    OBVIOUS
  <2>2. \A i \in 1 .. Len(x) : x[i] \in Nat
    BY <1>3, <2>1
  <2>3. x = [i \in 1 .. Len(x) |-> x[i]]
    OBVIOUS
  <2>4. QED
    BY <2>1, <2>2, <2>3
<1>5. QED
  BY <1>2, <1>4

\* acc goes on from node to node of all
Loops(acc, all) ==
  /\ acc[0] = NoneJoined
  /\ \A k \in 1 .. Len(all) :
       acc[k] = IF all[k].failed THEN acc[k - 1]
                ELSE Join(acc[k - 1], Snapshot(all[k].lats, all[k].errors))

\* what AggregateResults returns when its loop ends with t
Report(t) ==
  [total |-> t.total, success |-> t.success, errors |-> t.errors,
   mean |-> IF t.total > 0 THEN t.sum \div t.total ELSE 0,
   min |-> t.min, max |-> t.max]

(* AggregateResults goes over all nodes, skips the ones without results and*)
(* reports what its loop ends with.                                        *)
LEMMA AggregateLoop ==
  ASSUME NEW all \in Seq(NodeResults)
  PROVE  \E acc : Loops(acc, all) /\ AggregateResults(all) = Report(acc[Len(all)])
<1> DEFINE n == Len(all)
           acc == CHOOSE g : g = [k \in 0 .. Len(all) |->
                    IF k = 0 THEN NoneJoined
                    ELSE IF all[k].failed THEN g[k - 1]
                         ELSE Join(g[k - 1], Snapshot(all[k].lats, all[k].errors))]
           join == [q \in (1 .. n) \X Totals |->
                      IF all[q[1]].failed THEN q[2]
                      ELSE Join(q[2], Snapshot(all[q[1]].lats, all[q[1]].errors))]
<1>1. n \in Nat /\ NoneJoined \in Totals
  BY DEF NoneJoined, Totals
<1>2. join \in [(1 .. n) \X Totals -> Totals]
  <2>1. ASSUME NEW k \in 1 .. n, NEW t \in Totals
        PROVE  Join(t, Snapshot(all[k].lats, all[k].errors)) \in Totals
    BY NodeTyped, JoinTyped
  <2>2. QED
    BY <2>1
<1>3. PICK h \in [0 .. n -> Totals] : Follows(h, n, NoneJoined, join)
  <2> HIDE DEF join, n
  <2>1. QED
    BY <1>1, <1>2, RecursionExists
<1>4. h[0] = NoneJoined
  BY <1>3 DEF Follows
<1>5. ASSUME NEW k \in 1 .. n
      PROVE  h[k] = IF all[k].failed THEN h[k - 1]
                    ELSE Join(h[k - 1], Snapshot(all[k].lats, all[k].errors))
  <2>1. h[k - 1] \in Totals
    BY <1>3
  <2>2. join[<<k, h[k - 1]>>] = IF all[k].failed THEN h[k - 1]
                                ELSE Join(h[k - 1], Snapshot(all[k].lats, all[k].errors))
    BY <2>1
  <2> HIDE DEF join
  <2>3. h[k] = join[<<k, h[k - 1]>>]
    BY <1>3 DEF Follows
  <2>4. QED
    BY <2>2, <2>3, Zenon
<1>6. h = [k \in 0 .. n |-> IF k = 0 THEN NoneJoined
                            ELSE IF all[k].failed THEN h[k - 1]
                                 ELSE Join(h[k - 1], Snapshot(all[k].lats, all[k].errors))]
  <2> DEFINE r == [k \in 0 .. n |-> IF k = 0 THEN NoneJoined
                                    ELSE IF all[k].failed THEN h[k - 1]
                                         ELSE Join(h[k - 1], Snapshot(all[k].lats, all[k].errors))]
  <2>1. ASSUME NEW k \in 0 .. n PROVE h[k] = r[k]
    <3>1. CASE k = 0
      BY <1>4, <3>1, Zenon
    <3>2. CASE k # 0
      <4>1. k \in 1 .. n
        BY <1>1, <3>2
      <4>2. QED
        BY <1>5, <3>2, <4>1, Zenon
    <3>3. QED
      BY <3>1, <3>2
  <2>2. DOMAIN r = 0 .. n /\ DOMAIN h = 0 .. n /\ r = [k \in 0 .. n |-> r[k]] /\ h = [k \in 0 .. n |-> h[k]]
    BY <1>3
  <2> HIDE DEF r
  <2>3. h = r
    BY <2>1, <2>2
  <2>4. QED
    BY <2>3 DEF r
<1>7. acc = [k \in 0 .. n |-> IF k = 0 THEN NoneJoined
                              ELSE IF all[k].failed THEN acc[k - 1]
                                   ELSE Join(acc[k - 1], Snapshot(all[k].lats, all[k].errors))]
  BY <1>6, Zenon
<1>8. AggregateResults(all) = Report(acc[Len(all)])
  BY Zenon DEF AggregateResults, Report
<1> SUFFICES ASSUME NEW g, g = acc PROVE Loops(g, all)
  BY <1>8
<1>9. g = [k \in 0 .. n |-> IF k = 0 THEN NoneJoined
                            ELSE IF all[k].failed THEN g[k - 1]
                                 ELSE Join(g[k - 1], Snapshot(all[k].lats, all[k].errors))]
  BY <1>7
<1> HIDE DEF acc, join
<1>10. g[0] = NoneJoined
  BY <1>1, <1>9
<1>11. ASSUME NEW k \in 1 .. n
       PROVE  g[k] = IF all[k].failed THEN g[k - 1]
                     ELSE Join(g[k - 1], Snapshot(all[k].lats, all[k].errors))
  <2>1. k \in 0 .. n /\ k # 0
    OBVIOUS
  <2>2. QED
    BY <1>9, <2>1
<1>12. QED
  BY <1>10, <1>11 DEF Loops

(* The requests that the nodes served up to one of them are those up to the*)
(* one before and, when it answered, its own.                              *)
LEMMA ServedSoFar ==
  ASSUME measured \in Seq(NodeResults)
  PROVE  /\ Served[0] = <<>> /\ Failed[0] = 0
         /\ \A k \in 1 .. Len(measured) :
              /\ Served[k] = IF measured[k].failed THEN Served[k - 1] ELSE Served[k - 1] \o measured[k].lats
              /\ Failed[k] = IF measured[k].failed THEN Failed[k - 1] ELSE Failed[k - 1] + measured[k].errors
<1> DEFINE n == Len(measured)
           lat == [q \in (1 .. n) \X Seq(Nat) |->
                     IF q[1] \in Answered THEN q[2] \o measured[q[1]].lats ELSE q[2]]
           err == [q \in (1 .. n) \X Nat |->
                     IF q[1] \in Answered THEN q[2] + measured[q[1]].errors ELSE q[2]]
<1>1. n \in Nat /\ <<>> \in Seq(Nat) /\ 0 \in Nat
  OBVIOUS
<1>2. lat \in [(1 .. n) \X Seq(Nat) -> Seq(Nat)] /\ err \in [(1 .. n) \X Nat -> Nat]
  <2>1. ASSUME NEW k \in 1 .. n
        PROVE  measured[k].lats \in Seq(Nat) /\ measured[k].errors \in Nat
    BY NodeTyped
  <2>2. ASSUME NEW k \in 1 .. n, NEW s \in Seq(Nat) PROVE s \o measured[k].lats \in Seq(Nat)
    <3>1. measured[k].lats \in Seq(Nat)
      BY <2>1
    <3>2. QED
      BY <3>1
  <2>3. QED
    BY <2>1, <2>2
<1>3. ASSUME NEW k \in 1 .. n PROVE k \in Answered <=> ~measured[k].failed
  BY DEF Answered
<1>4. Served = [k \in 0 .. n |-> IF k = 0 THEN <<>>
                                 ELSE IF k \in Answered THEN Served[k - 1] \o measured[k].lats
                                      ELSE Served[k - 1]]
  <2>1. PICK h \in [0 .. n -> Seq(Nat)] : Follows(h, n, <<>>, lat)
    <3> HIDE DEF lat, n
    <3>1. QED
      BY <1>1, <1>2, RecursionExists
  <2>2. h[0] = <<>>
    BY <2>1 DEF Follows
  <2>3. ASSUME NEW k \in 1 .. n
        PROVE  h[k] = IF k \in Answered THEN h[k - 1] \o measured[k].lats ELSE h[k - 1]
    <3>1. h[k - 1] \in Seq(Nat)
      BY <2>1
    <3>2. lat[<<k, h[k - 1]>>] = IF k \in Answered THEN h[k - 1] \o measured[k].lats ELSE h[k - 1]
      BY <3>1
    <3> HIDE DEF lat
    <3>3. h[k] = lat[<<k, h[k - 1]>>]
      BY <2>1 DEF Follows
    <3>4. QED
      BY <3>2, <3>3, Zenon
  <2> DEFINE r == [k \in 0 .. n |-> IF k = 0 THEN <<>>
                                    ELSE IF k \in Answered THEN h[k - 1] \o measured[k].lats
                                         ELSE h[k - 1]]
  <2>4. ASSUME NEW k \in 0 .. n PROVE h[k] = r[k]
    <3>1. CASE k = 0
      BY <2>2, <3>1, Zenon
    <3>2. CASE k # 0
      <4>1. k \in 1 .. n
        BY <1>1, <3>2
      <4>2. QED
        BY <2>3, <3>2, <4>1, Zenon
    <3>3. QED
      BY <3>1, <3>2
  <2>5. DOMAIN r = 0 .. n /\ DOMAIN h = 0 .. n /\ r = [k \in 0 .. n |-> r[k]] /\ h = [k \in 0 .. n |-> h[k]]
    BY <2>1
  <2>6. h = r
    <3> HIDE DEF r
    <3>1. QED
      BY <2>4, <2>5
  <2>7. h = [k \in 0 .. n |-> IF k = 0 THEN <<>>
                              ELSE IF k \in Answered THEN h[k - 1] \o measured[k].lats
                                   ELSE h[k - 1]]
    BY <2>6
  <2>8. QED
    BY <2>7, Zenon DEF Served
<1>5. Failed = [k \in 0 .. n |-> IF k = 0 THEN 0
                                 ELSE IF k \in Answered THEN Failed[k - 1] + measured[k].errors
                                      ELSE Failed[k - 1]]
  <2>1. PICK h \in [0 .. n -> Nat] : Follows(h, n, 0, err)
    <3> HIDE DEF err, n
    <3>1. QED
      BY <1>1, <1>2, RecursionExists
  <2>2. h[0] = 0
    BY <2>1 DEF Follows
  <2>3. ASSUME NEW k \in 1 .. n
        PROVE  h[k] = IF k \in Answered THEN h[k - 1] + measured[k].errors ELSE h[k - 1]
    <3>1. h[k - 1] \in Nat
      BY <2>1
    <3>2. err[<<k, h[k - 1]>>] = IF k \in Answered THEN h[k - 1] + measured[k].errors ELSE h[k - 1]
      BY <3>1
    <3> HIDE DEF err
    <3>3. h[k] = err[<<k, h[k - 1]>>]
      BY <2>1 DEF Follows
    <3>4. QED
      BY <3>2, <3>3, Zenon
  <2> DEFINE r == [k \in 0 .. n |-> IF k = 0 THEN 0
                                    ELSE IF k \in Answered THEN h[k - 1] + measured[k].errors
                                         ELSE h[k - 1]]
  <2>4. ASSUME NEW k \in 0 .. n PROVE h[k] = r[k]
    <3>1. CASE k = 0
      BY <2>2, <3>1, Zenon
    <3>2. CASE k # 0
      <4>1. k \in 1 .. n
        BY <1>1, <3>2
      <4>2. QED
        BY <2>3, <3>2, <4>1, Zenon
    <3>3. QED
      BY <3>1, <3>2
  <2>5. DOMAIN r = 0 .. n /\ DOMAIN h = 0 .. n /\ r = [k \in 0 .. n |-> r[k]] /\ h = [k \in 0 .. n |-> h[k]]
    BY <2>1
  <2>6. h = r
    <3> HIDE DEF r
    <3>1. QED
      BY <2>4, <2>5
  <2>7. h = [k \in 0 .. n |-> IF k = 0 THEN 0
                              ELSE IF k \in Answered THEN h[k - 1] + measured[k].errors
                                   ELSE h[k - 1]]
    BY <2>6
  <2>8. QED
    BY <2>7, Zenon DEF Failed
<1> SUFFICES ASSUME NEW f, f = Served, NEW g, g = Failed
             PROVE  /\ f[0] = <<>> /\ g[0] = 0
                    /\ \A k \in 1 .. n :
                         /\ f[k] = IF measured[k].failed THEN f[k - 1] ELSE f[k - 1] \o measured[k].lats
                         /\ g[k] = IF measured[k].failed THEN g[k - 1] ELSE g[k - 1] + measured[k].errors
  OBVIOUS
<1>6. /\ f = [k \in 0 .. n |-> IF k = 0 THEN <<>>
                               ELSE IF k \in Answered THEN f[k - 1] \o measured[k].lats ELSE f[k - 1]]
      /\ g = [k \in 0 .. n |-> IF k = 0 THEN 0
                               ELSE IF k \in Answered THEN g[k - 1] + measured[k].errors ELSE g[k - 1]]
  BY <1>4, <1>5
<1>7. f[0] = <<>> /\ g[0] = 0
  BY <1>1, <1>6
<1>8. ASSUME NEW k \in 1 .. n
      PROVE  /\ f[k] = IF measured[k].failed THEN f[k - 1] ELSE f[k - 1] \o measured[k].lats
             /\ g[k] = IF measured[k].failed THEN g[k - 1] ELSE g[k - 1] + measured[k].errors
  <2>1. k \in 0 .. n /\ k # 0
    OBVIOUS
  <2>2. /\ f[k] = IF k \in Answered THEN f[k - 1] \o measured[k].lats ELSE f[k - 1]
        /\ g[k] = IF k \in Answered THEN g[k - 1] + measured[k].errors ELSE g[k - 1]
    BY <1>6, <2>1
  <2>3. QED
    BY <1>3, <2>2, Zenon
<1>9. QED
  BY <1>7, <1>8

(* What the report of the loop says beside the snapshot of one run with the*)
(* same requests.                                                          *)
LEMMA ReportTells ==
  ASSUME NEW a \in Totals, NEW s \in Seq(Nat), NEW e \in Nat, Tells(a, s, e),
         NEW r, r = Report(a), NEW w, w = Snapshot(s, e)
  PROVE  /\ <<r.total, r.success, r.errors, r.max>> = <<w.total, w.success, w.errors, w.max>>
         /\ w.mean - r.mean \in {0, 1}
         /\ LeastOf(a, s) => r.min = w.min
<1>1. /\ r.total = a.total /\ r.success = a.success /\ r.errors = a.errors
      /\ r.min = a.min /\ r.max = a.max
      /\ r.mean = IF a.total > 0 THEN a.sum \div a.total ELSE 0
  BY DEF Report
<1>2. /\ w.total = Len(s) /\ w.success = Len(s) - e /\ w.errors = e
      /\ w.mean = IF s = <<>> THEN 0 ELSE Sum(s) \div Len(s)
      /\ w.min = IF s = <<>> THEN 0 ELSE Least(s)
      /\ w.max = IF s = <<>> THEN 0 ELSE Greatest(s)
  BY DEF Snapshot
<1>3. /\ a.total = Len(s) /\ a.success = Len(s) - e /\ a.errors = e /\ a.sum \in Nat
      /\ a.sum <= Sum(s)
      /\ IF s = <<>> THEN a.sum = Sum(s) /\ a.max = 0
         ELSE Sum(s) - a.sum < Len(s) /\ IsGreatest(a.max, ToSet(s))
      /\ a.first => s = <<>> /\ a.min = 0
  <2>1. a.sum \in Nat
    BY DEF Totals
  <2>2. QED
    BY <2>1 DEF Tells
<1>4. ToSet(s) \in SUBSET Nat /\ Sum(s) \in Nat
  BY TakenFrom, SumConcat
<1>5. r.max = w.max
  <2>1. CASE s = <<>>
    BY <1>1, <1>2, <1>3, <2>1
  <2>2. CASE s # <<>>
    <3>1. IsGreatest(a.max, ToSet(s)) /\ IsGreatest(Greatest(s), ToSet(s))
      BY <1>3, <2>2, LeastAndGreatest
    <3>2. a.max = Greatest(s)
      BY <1>4, <3>1, OneGreatest
    <3>3. QED
      BY <1>1, <1>2, <2>2, <3>2
  <2>3. QED
    BY <2>1, <2>2
<1>6. w.mean - r.mean \in {0, 1}
  <2>1. CASE s = <<>>
    <3>1. Len(s) = 0
      BY <2>1
    <3>2. w.mean = 0 /\ r.mean = 0
      BY <1>1, <1>2, <1>3, <2>1, <3>1
    <3>3. QED
      BY <3>2
  <2>2. CASE s # <<>>
    <3>1. Len(s) \in Nat \ {0}
      BY <2>2
    <3>2. w.mean = Sum(s) \div Len(s) /\ r.mean = a.sum \div Len(s)
      BY <1>1, <1>2, <1>3, <2>2, <3>1
    <3>3. a.sum \in Nat /\ a.sum <= Sum(s) /\ Sum(s) - a.sum < Len(s)
      BY <1>3, <2>2
    <3>4. Sum(s) \div Len(s) - a.sum \div Len(s) \in {0, 1}
      BY <1>4, <3>1, <3>3, DivClose
    <3>5. QED
      BY <3>2, <3>4, Zenon
  <2>3. QED
    BY <2>1, <2>2
<1>7. ASSUME LeastOf(a, s) PROVE r.min = w.min
  <2>1. CASE a.first
    BY <1>1, <1>2, <1>3, <2>1
  <2>2. CASE ~a.first
    <3>1. s # <<>> /\ IsLeast(a.min, ToSet(s))
      BY <1>7, <2>2 DEF LeastOf
    <3>2. IsLeast(Least(s), ToSet(s))
      BY <3>1, LeastAndGreatest
    <3>3. a.min = Least(s)
      BY <1>4, <3>1, <3>2, OneLeast
    <3>4. QED
      BY <1>1, <1>2, <3>1, <3>3
  <2>3. QED
    BY <2>1, <2>2
<1>8. QED
  BY <1>1, <1>2, <1>3, <1>5, <1>6, <1>7

(* AggregateResults tells what one run with the requests of all nodes that *)
(* answered would have told, but for the rounding of the mean; by induction*)
(* over the nodes.                                                         *)
LEMMA JoinedTellsWhole ==
  ASSUME measured \in Seq(NodeResults), NEW r, r = AggregateResults(measured)
  PROVE  /\ <<r.total, r.success, r.errors, r.max>>
              = <<Whole.total, Whole.success, Whole.errors, Whole.max>>
         /\ Whole.mean - r.mean \in {0, 1}
         /\ (\A k \in Answered : measured[k].lats # <<>>) => r.min = Whole.min
<1> DEFINE n == Len(measured)
           exact == \A k \in Answered : measured[k].lats # <<>>
<1>1. PICK acc : Loops(acc, measured) /\ r = Report(acc[n])
  BY AggregateLoop
<1>2. n \in Nat
  OBVIOUS
<1>3. PICK f, g : f = Served /\ g = Failed
  OBVIOUS
<1>4. /\ f[0] = <<>> /\ g[0] = 0
      /\ \A k \in 1 .. n :
           /\ f[k] = IF measured[k].failed THEN f[k - 1] ELSE f[k - 1] \o measured[k].lats
           /\ g[k] = IF measured[k].failed THEN g[k - 1] ELSE g[k - 1] + measured[k].errors
  BY <1>3, ServedSoFar, Zenon
<1> DEFINE Good(k) == /\ f[k] \in Seq(Nat) /\ g[k] \in Nat /\ acc[k] \in Totals
                      /\ Tells(acc[k], f[k], g[k]) /\ (exact => LeastOf(acc[k], f[k]))
           T == {k \in 0 .. n : Good(k)}
<1>5. 0 \in T
  <2>1. NoneJoined \in Totals /\ LeastOf(NoneJoined, <<>>)
    BY DEF NoneJoined, Totals, LeastOf
  <2>2. Tells(NoneJoined, <<>>, 0)
    <3>1. Len(<<>>) = 0 /\ Sum(<<>>) = 0
      BY SumOfNone
    <3>2. QED
      BY <3>1 DEF NoneJoined, Tells
  <2>3. acc[0] = NoneJoined
    BY <1>1 DEF Loops
  <2>4. <<>> \in Seq(Nat) /\ 0 \in Nat /\ 0 \in 0 .. n
    BY <1>2
  <2>5. QED
    BY <1>4, <2>1, <2>2, <2>3, <2>4, Zenon
<1>6. ASSUME NEW k \in 0 .. n - 1, k \in T PROVE k + 1 \in T
  <2>1. k + 1 \in 1 .. n /\ (k + 1) - 1 = k /\ k + 1 \in 0 .. n
    BY <1>2
  <2>2. /\ f[k] \in Seq(Nat) /\ g[k] \in Nat /\ acc[k] \in Totals
        /\ Tells(acc[k], f[k], g[k]) /\ (exact => LeastOf(acc[k], f[k]))
    BY <1>6
  <2> HIDE DEF exact
  <2> SUFFICES ASSUME NEW m, m = k + 1 PROVE Good(m)
    BY <2>1
  <2>3. /\ f[m] = IF measured[m].failed THEN f[k] ELSE f[k] \o measured[m].lats
        /\ g[m] = IF measured[m].failed THEN g[k] ELSE g[k] + measured[m].errors
        /\ acc[m] = IF measured[m].failed THEN acc[k]
                    ELSE Join(acc[k], Snapshot(measured[m].lats, measured[m].errors))
    <3>1. m \in 1 .. n /\ m - 1 = k
      BY <2>1
    <3>2. QED
      BY <1>1, <1>4, <3>1 DEF Loops
  <2>4. measured[m].lats \in Seq(Nat) /\ measured[m].errors \in Nat
    BY <2>1, NodeTyped
  <2>5. CASE measured[m].failed
    BY <2>2, <2>3, <2>5, Zenon
  <2>6. CASE ~measured[m].failed
    <3>1. /\ f[m] = f[k] \o measured[m].lats /\ g[m] = g[k] + measured[m].errors
          /\ acc[m] = Join(acc[k], Snapshot(measured[m].lats, measured[m].errors))
      BY <2>3, <2>6
    <3>2. /\ Join(acc[k], Snapshot(measured[m].lats, measured[m].errors)) \in Totals
          /\ Tells(Join(acc[k], Snapshot(measured[m].lats, measured[m].errors)),
                   f[k] \o measured[m].lats, g[k] + measured[m].errors)
          /\ LeastOf(acc[k], f[k]) /\ measured[m].lats # <<>>
               => LeastOf(Join(acc[k], Snapshot(measured[m].lats, measured[m].errors)),
                          f[k] \o measured[m].lats)
      BY <2>2, <2>4, JoinTells
    <3>3. exact => measured[m].lats # <<>>
      <4>1. m \in Answered
        BY <2>1, <2>6 DEF Answered
      <4>2. QED
        BY <4>1 DEF exact
    <3>4. f[k] \o measured[m].lats \in Seq(Nat) /\ g[k] + measured[m].errors \in Nat
      BY <2>2, <2>4
    <3>5. QED
      BY <2>2, <3>1, <3>2, <3>3, <3>4, Zenon
  <2>7. QED
    BY <2>5, <2>6
<1>7. n \in T
  <2> HIDE DEF T
  <2>1. 0 .. n \subseteq T
    BY <1>2, <1>5, <1>6, IntervalInduction
  <2>2. QED
    BY <1>2, <2>1
<1>8. /\ f[n] \in Seq(Nat) /\ g[n] \in Nat /\ acc[n] \in Totals
      /\ Tells(acc[n], f[n], g[n]) /\ (exact => LeastOf(acc[n], f[n]))
  BY <1>7
<1>9. Whole = Snapshot(f[n], g[n])
  BY <1>3, Zenon DEF Whole
<1> SUFFICES ASSUME NEW w, w = Whole
             PROVE  /\ <<r.total, r.success, r.errors, r.max>> = <<w.total, w.success, w.errors, w.max>>
                    /\ w.mean - r.mean \in {0, 1}
                    /\ exact => r.min = w.min
  OBVIOUS
<1> HIDE DEF exact
<1>10. w = Snapshot(f[n], g[n])
  BY <1>9
<1>11. QED
  BY <1>1, <1>8, <1>10, ReportTells
-----------------------------------------------------------------------------
DistTyped == request \in Requests /\ measured \in Seq(NodeResults)
JoinedInv == phase \in {"failed", "joined"} => Splits # <<>> /\ joined = AggregateResults(measured)
PanicInv == phase = "panicked" => Splits = <<>>

DistInv == DistTyped /\ JoinedInv /\ PanicInv

(* Distribute begins with no node measured.                                *)
LEMMA DistAtInit == DistInit => DistInv
<1> SUFFICES ASSUME DistInit PROVE DistInv
  OBVIOUS
<1>1. request \in Requests /\ measured = <<>> /\ phase = "nodes"
  BY DEF DistInit
<1>2. <<>> \in Seq(NodeResults)
  OBVIOUS
<1>3. QED
  BY <1>1, <1>2 DEF DistInv, DistTyped, JoinedInv, PanicInv

(* Distribute measures one node after the other; what is returned is joined*)
(* from them.                                                              *)
LEMMA DistKept == DistInv /\ [DistNext]_distVars => DistInv'
<1> SUFFICES ASSUME DistInv, [DistNext]_distVars PROVE DistInv'
  OBVIOUS
<1>1. request' = request
  BY DEF DistNext, RunNode, RunNodePanics, Aggregate, distVars
<1>2. Splits' = Splits
  BY <1>1 DEF Splits
<1>3. CASE RunNode
  <2>1. phase = "nodes" /\ phase' = phase
    BY <1>3 DEF RunNode
  <2>2. PICK lats \in BoundedSeq(Latencies, RequestCap), failed \in BOOLEAN :
          \E errors \in 0 .. Len(lats) :
            measured' = Append(measured, [lats |-> lats, errors |-> errors, failed |-> failed])
    BY <1>3, Zenon DEF RunNode
  <2>3. PICK errors \in 0 .. Len(lats) :
          measured' = Append(measured, [lats |-> lats, errors |-> errors, failed |-> failed])
    BY <2>2
  <2>4. lats \in Seq(Latencies)
    <3>1. PICK m \in 0 .. RequestCap : lats \in [1 .. m -> Latencies]
      BY DEF BoundedSeq, SeqOf
    <3>2. m \in Nat
      BY RequestsAssumption
    <3>3. QED
      BY <3>1, <3>2
  <2>5. [lats |-> lats, errors |-> errors, failed |-> failed] \in NodeResults
    <3>1. errors \in Nat /\ errors <= Len(lats)
      BY <2>4
    <3>2. QED
      BY <2>4, <3>1 DEF NodeResults
  <2>6. measured' \in Seq(NodeResults)
    <3>1. measured \in Seq(NodeResults)
      BY DEF DistInv, DistTyped
    <3>2. QED
      BY <2>3, <2>5, <3>1
  <2>7. QED
    BY <1>1, <2>1, <2>6 DEF DistInv, DistTyped, JoinedInv, PanicInv
<1>4. CASE RunNodePanics
  <2>1. phase' = "panicked" /\ Splits = <<>> /\ measured' = measured
    BY <1>4 DEF RunNodePanics
  <2>2. QED
    BY <1>1, <1>2, <2>1 DEF DistInv, DistTyped, JoinedInv, PanicInv
<1>5. CASE Aggregate
  <2>1. /\ phase' \in {"failed", "joined"} /\ Splits # <<>> /\ measured' = measured
        /\ joined' = AggregateResults(measured)
    BY <1>5 DEF Aggregate
  <2>2. joined' = AggregateResults(measured')
    BY <2>1, Zenon
  <2>3. QED
    BY <1>1, <1>2, <2>1, <2>2 DEF DistInv, DistTyped, JoinedInv, PanicInv
<1>6. CASE UNCHANGED distVars
  <2>1. request' = request /\ phase' = phase /\ measured' = measured /\ joined' = joined
    BY <1>6 DEF distVars
  <2>2. AggregateResults(measured)' = AggregateResults(measured)
    BY <2>1 DEF AggregateResults
  <2>3. QED
    BY <1>2, <2>1, <2>2 DEF DistInv, DistTyped, JoinedInv, PanicInv
<1>7. QED
  BY <1>3, <1>4, <1>5, <1>6 DEF DistNext

(* What Distribute keeps is enough for what its caller is told.            *)
LEMMA DistSound == DistInv => AggregateSound
<1> SUFFICES ASSUME DistInv PROVE AggregateSound
  OBVIOUS
<1>1. /\ request.nodes \in Nat \ {0} /\ request.concurrency \in Int
      /\ measured \in Seq(NodeResults)
  BY RequestsAssumption DEF DistInv, DistTyped
<1>2. ASSUME phase \in {"failed", "joined"}
      PROVE  /\ Sum(Splits) = request.concurrency
             /\ \A j, k \in DOMAIN Splits : Splits[j] - Splits[k] <= 1
             /\ <<joined.total, joined.success, joined.errors, joined.max>>
                  = <<Whole.total, Whole.success, Whole.errors, Whole.max>>
             /\ Whole.mean - joined.mean \in {0, 1}
             /\ (\A k \in Answered : measured[k].lats # <<>>) => joined.min = Whole.min
  <2>1. Splits # <<>> /\ joined = AggregateResults(measured)
    BY <1>2 DEF DistInv, JoinedInv
  <2>2. request.concurrency \in Nat \ {0}
    <3>1. ~ (request.concurrency <= 0)
      BY <2>1 DEF Splits, SplitConcurrency
    <3>2. QED
      BY <1>1, <3>1
  <2>3. Sum(Splits) = request.concurrency /\ \A j, k \in DOMAIN Splits : Splits[j] - Splits[k] <= 1
    BY <1>1, <2>2, SharesAddUp DEF Splits
  <2>4. QED
    BY <1>1, <2>1, <2>3, JoinedTellsWhole
<1>3. ASSUME phase = "panicked" PROVE request.concurrency <= 0
  <2>1. Splits = <<>>
    BY <1>3 DEF DistInv, PanicInv
  <2>2. SUFFICES ASSUME request.concurrency \in Nat \ {0} PROVE FALSE
    BY <1>1
  <2>3. QED
    BY <1>1, <2>1, <2>2, SharesAddUp DEF Splits
<1>4. QED
  BY <1>2, <1>3 DEF AggregateSound

(* For all requests, latencies and numbers of nodes: SplitConcurrency hands*)
(* out every worker, in shares that differ by one at most, and             *)
(* AggregateResults tells what one run with all the requests would have    *)
(* told: counts and maximum exactly, the mean off by its rounding, the     *)
(* minimum when every node that answered served a request (AggregateSound).*)
THEOREM AggregateIsSound == DistSpec => []AggregateSound
<1>1. DistInit => DistInv
  BY DistAtInit
<1>2. DistInv /\ [DistNext]_distVars => DistInv'
  BY DistKept
<1>3. DistInv => AggregateSound
  BY DistSound
<1>4. QED
  BY <1>1, <1>2, <1>3, PTL DEF DistSpec
=============================================================================
