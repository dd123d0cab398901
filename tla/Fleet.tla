-------------------------------- MODULE Fleet --------------------------------
(***************************************************************************)
(* core/fleet/orchestrator.go: one Orchestrator, its owner (Setup, hosts   *)
(* put into the pools, Teardown), a goroutine that calls CheckTTL, and     *)
(* workers that select a host and execute on it.  Each critical section    *)
(* under o.mu is one step; what CheckTTL and Teardown do between two       *)
(* critical sections are steps of their own.  One of the providers is the  *)
(* static one (StaticProvider); the others hand out fresh hosts and keep a *)
(* ledger of the hosts that are out.                                       *)
(*                                                                         *)
(* Bounds: HostCap hosts per provider, the clock stops at TimeCap.         *)
(***************************************************************************)
EXTENDS StaticProvider, SequencesExt

CONSTANTS Providers,    \* names of providers
          Static,       \* the one that is the static provider
          Fleets,       \* fleet configurations: sequences of [provider, weight, ttl]
          HostCap, TimeCap

\* a ttl that is not positive counts as 0 (orchestrator.go:115)
FleetEntry == [provider : Providers, weight : Nat, ttl : Nat]

ASSUME StaticAssumption == Static \in Providers
ASSUME FleetsAssumption == Fleets \subseteq Seq(FleetEntry)
ASSUME CapsAssumption == HostCap \in Nat /\ TimeCap \in Nat

VARIABLES config,   \* o.config.Providers
          ready,    \* o.providers and o.ttls: under each name the index in
                    \* config of the entry it stands for, 0 for none
          pool,     \* o.hosts: a sequence of [id, provider, born] per provider
          clock,
          owner,    \* where the owner is
          at,       \* Setup: the index in config
          left,     \* Teardown: the providers it has not met
          taken,    \* Teardown: the provider it is at and the hosts it took
          ttl,      \* CheckTTL: where it is, its now, providers left, expired, fresh
          out,      \* ledger: hosts handed out and not given back
          lost,     \* history: hosts dropped where a provider call failed
          up,       \* ledger: instances of providers (by their index in config)
                    \* set up and not torn down
          stuck,    \* history: instances whose Teardown failed
          overlap   \* history: providers whose pool was taken while CheckTTL
                    \* was replacing hosts of it

ownerVars == <<owner, at, left, taken>>
ledgerVars == <<up, stuck, overlap>>
fleetVars == <<config, ready, pool, clock, ownerVars, ttl, out, lost, ledgerVars>>
vars == <<fleetVars, staticVars>>

Names == {config[k].provider : k \in DOMAIN config}

Registered == {p \in Providers : ready[p] # 0}
TTL(p) == config[ready[p]].ttl

NoCheck == [at |-> "idle", now |-> 0, left |-> {}, p |-> Static,
            expired |-> <<>>, fresh |-> <<>>]

Init ==
  /\ StaticInit
  /\ config \in Fleets
  /\ ready = [p \in Providers |-> 0] /\ pool = [p \in Providers |-> <<>>]
  /\ clock = 0
  /\ owner = "setup" /\ at = 1 /\ left = {} /\ taken = <<Static, <<>>>>
  /\ ttl = NoCheck
  /\ out = {} /\ lost = {} /\ up = {} /\ stuck = {} /\ overlap = {}

Tick ==
  /\ clock < TimeCap
  /\ clock' = clock + 1
  /\ UNCHANGED <<config, ready, pool, ownerVars, ttl, out, lost, staticVars, ledgerVars>>

(* What provider p.Acquire(n) can return: the first n nodes, or hosts that *)
(* nobody has.                                                             *)
Free(p) == (1 .. HostCap) \ {h.id : h \in {g \in out : g.provider = p}}

Acquired(p, n) ==
  LET ids == IF p = Static THEN FirstNodes(n) ELSE CHOOSE f \in Injection(1 .. n, Free(p)) : TRUE
  IN  [k \in 1 .. n |-> [id |-> ids[k], provider |-> p, born |-> clock]]

MayAcquire(p, n) == n <= IF p = Static THEN Nodes ELSE Cardinality(Free(p))

HandOut(hosts) == out' = out \cup {h \in ToSet(hosts) : h.provider # Static}
-----------------------------------------------------------------------------
(* The owner.                                                              *)

\* Setup: a new instance is set up and put under its name, over an instance
\* that has the name from an earlier entry
SetupProvider ==
  /\ owner = "setup" /\ at <= Len(config)
  /\ ready' = [ready EXCEPT ![config[at].provider] = at]
  /\ at' = at + 1
  /\ up' = up \cup {at}
  /\ UNCHANGED <<config, pool, clock, owner, left, taken, ttl, out, lost, staticVars, stuck, overlap>>

\* Setup gives up; the caller gets an error and never calls Teardown
SetupFails ==
  /\ owner = "setup" /\ at <= Len(config)
  /\ owner' = "over"
  /\ UNCHANGED <<config, ready, pool, clock, at, left, taken, ttl, out, lost, staticVars, ledgerVars>>

SetupEnds ==
  /\ owner = "setup" /\ at > Len(config)
  /\ owner' = "using"
  /\ UNCHANGED <<config, ready, pool, clock, at, left, taken, ttl, out, lost, staticVars, ledgerVars>>

\* AddHosts with a host acquired from its provider
AddHosts(p) ==
  /\ owner = "using" /\ p \in Registered /\ MayAcquire(p, 1)
  /\ Len(pool[p]) < 2
  /\ LET hosts == Acquired(p, 1) IN
       /\ pool' = [pool EXCEPT ![p] = @ \o hosts]
       /\ HandOut(hosts)
  /\ UNCHANGED <<config, ready, clock, ownerVars, ttl, lost, staticVars, ledgerVars>>

\* Teardown ranges over the map, in any order
BeginTeardown ==
  /\ owner = "using"
  /\ owner' = "teardown" /\ left' = Registered
  /\ UNCHANGED <<config, ready, pool, clock, at, taken, ttl, out, lost, staticVars, ledgerVars>>

TakeHosts(p) ==
  /\ owner = "teardown" /\ p \in left
  /\ owner' = "release" /\ left' = left \ {p} /\ taken' = <<p, pool[p]>>
  /\ pool' = [pool EXCEPT ![p] = <<>>]
  /\ overlap' = IF ttl.p = p /\ ttl.at \in {"acquire", "add"} THEN overlap \cup {p} ELSE overlap
  /\ UNCHANGED <<config, ready, clock, at, ttl, out, lost, staticVars, up, stuck>>

\* prov.Release: an error is kept for the end, the loop goes on
ReleaseTaken ==
  /\ owner = "release" /\ owner' = "down"
  /\ \/ out' = out \ ToSet(taken[2]) /\ UNCHANGED lost
     \/ lost' = lost \cup (out \cap ToSet(taken[2])) /\ UNCHANGED out
  /\ UNCHANGED <<config, ready, pool, clock, at, left, taken, ttl, staticVars, ledgerVars>>

\* prov.Teardown of the instance under the name: again an error is kept, the
\* loop goes on and nobody calls it a second time (the static provider has
\* closed its clients even then)
TearProviderDown ==
  /\ owner = "down" /\ owner' = "teardown" /\ taken' = <<Static, <<>>>>
  /\ IF taken[1] = Static THEN CloseAll ELSE UNCHANGED staticVars
  /\ \/ up' = up \ {ready[taken[1]]} /\ UNCHANGED stuck
     \/ taken[1] # Static /\ stuck' = stuck \cup {ready[taken[1]]} /\ UNCHANGED up
  /\ UNCHANGED <<config, ready, pool, clock, at, left, ttl, out, lost, overlap>>

EndTeardown ==
  /\ owner = "teardown" /\ left = {}
  /\ owner' = "over"
  /\ UNCHANGED <<config, ready, pool, clock, at, left, taken, ttl, out, lost, staticVars, ledgerVars>>
-----------------------------------------------------------------------------
(* CheckTTL.                                                               *)

\* the names are copied under o.mu, and now is read
BeginCheck ==
  /\ owner = "using" /\ ttl.at = "idle"
  /\ ttl' = [NoCheck EXCEPT !.at = "next", !.now = clock, !.left = Registered]
  /\ UNCHANGED <<config, ready, pool, clock, ownerVars, out, lost, staticVars, ledgerVars>>

Expired(h) == ttl.now >= h.born + TTL(h.provider)

\* the loop over the hosts of a pool
SetAside(h, parts) ==
  IF Expired(h) THEN [parts EXCEPT !.expired = Append(@, h)]
  ELSE [parts EXCEPT !.remaining = Append(@, h)]

PartedUpTo(hosts) ==
  LET upTo[n \in 0 .. Len(hosts)] ==
        IF n = 0 THEN [expired |-> <<>>, remaining |-> <<>>]
        ELSE SetAside(hosts[n], upTo[n - 1])
  IN  upTo

Parted(hosts) == PartedUpTo(hosts)[Len(hosts)]

\* one provider: nothing to do without a ttl; else the pool is parted
NothingExpired(p) ==
  /\ TTL(p) = 0 \/ Parted(pool[p]).expired = <<>>
  /\ ttl' = [ttl EXCEPT !.left = @ \ {p}]
  /\ UNCHANGED pool

SomeExpired(p) ==
  /\ TTL(p) > 0 /\ Parted(pool[p]).expired # <<>>
  /\ pool' = [pool EXCEPT ![p] = Parted(@).remaining]
  /\ ttl' = [ttl EXCEPT !.left = @ \ {p}, !.p = p, !.at = "acquire",
                        !.expired = Parted(pool[p]).expired]

PartPool(p) ==
  /\ ttl.at = "next" /\ p \in ttl.left
  /\ NothingExpired(p) \/ SomeExpired(p)
  /\ UNCHANGED <<config, ready, clock, ownerVars, out, lost, staticVars, ledgerVars>>

\* replacements are acquired before the expired hosts are released
AcquireReplacements ==
  LET hosts == Acquired(ttl.p, Len(ttl.expired)) IN
  /\ ttl.at = "acquire" /\ MayAcquire(ttl.p, Len(ttl.expired))
  /\ ttl' = [ttl EXCEPT !.at = "add", !.fresh = hosts]
  /\ HandOut(hosts)
  /\ UNCHANGED <<config, ready, pool, clock, ownerVars, lost, staticVars, ledgerVars>>

\* an error ends CheckTTL; the expired hosts are in no pool and not released
\* (the static provider fails only when asked for more than its nodes)
AcquireFails ==
  /\ ttl.at = "acquire"
  /\ ttl.p = Static => ~MayAcquire(Static, Len(ttl.expired))
  /\ lost' = lost \cup (out \cap ToSet(ttl.expired))
  /\ ttl' = NoCheck
  /\ UNCHANGED <<config, ready, pool, clock, ownerVars, out, staticVars, ledgerVars>>

\* variant: the pool is the one seen before Acquire, less the expired hosts
AddToPoolSeen ==
  /\ ttl.at = "add"
  /\ pool' = [pool EXCEPT ![ttl.p] = ttl.fresh]
  /\ ttl' = [ttl EXCEPT !.at = "release"]
  /\ UNCHANGED <<config, ready, clock, ownerVars, out, lost, staticVars, ledgerVars>>

\* variant: the replacements go to the front of the pool
AddInFront ==
  /\ ttl.at = "add"
  /\ pool' = [pool EXCEPT ![ttl.p] = ttl.fresh \o @]
  /\ ttl' = [ttl EXCEPT !.at = "release"]
  /\ UNCHANGED <<config, ready, clock, ownerVars, out, lost, staticVars, ledgerVars>>

AddReplacements ==
  /\ ttl.at = "add"
  /\ pool' = [pool EXCEPT ![ttl.p] = @ \o ttl.fresh]
  /\ ttl' = [ttl EXCEPT !.at = "release"]
  /\ UNCHANGED <<config, ready, clock, ownerVars, out, lost, staticVars, ledgerVars>>

\* variant: the hosts released are the replacements
ReleaseFresh ==
  /\ ttl.at = "release"
  /\ out' = out \ ToSet(ttl.fresh) /\ UNCHANGED lost
  /\ ttl' = [ttl EXCEPT !.at = "next", !.expired = <<>>, !.fresh = <<>>]
  /\ UNCHANGED <<config, ready, pool, clock, ownerVars, staticVars, ledgerVars>>

\* an error of Release ends CheckTTL; the static provider's never fails
ReleaseExpired ==
  /\ ttl.at = "release"
  /\ \/ /\ out' = out \ ToSet(ttl.expired) /\ UNCHANGED lost
        /\ ttl' = [ttl EXCEPT !.at = "next", !.expired = <<>>, !.fresh = <<>>]
     \/ /\ ttl.p # Static /\ ttl' = NoCheck
        /\ lost' = lost \cup (out \cap ToSet(ttl.expired)) /\ UNCHANGED out
  /\ UNCHANGED <<config, ready, pool, clock, ownerVars, staticVars, ledgerVars>>

EndCheck ==
  /\ ttl.at = "next" /\ ttl.left = {}
  /\ ttl' = NoCheck
  /\ UNCHANGED <<config, ready, pool, clock, ownerVars, out, lost, staticVars, ledgerVars>>

CheckTTL ==
  \/ BeginCheck \/ (\E p \in Providers : PartPool(p)) \/ AcquireReplacements
  \/ AcquireFails \/ AddReplacements \/ ReleaseExpired \/ EndCheck
-----------------------------------------------------------------------------
(* The workers: SelectProvider draws an entry of positive weight, or the   *)
(* first one when no weight is positive, SelectHost takes the first host   *)
(* of its pool and puts it last, Execute runs on it.                       *)
Drawn(p) ==
  \/ \E k \in DOMAIN config : config[k].provider = p /\ config[k].weight > 0
  \/ p = config[1].provider /\ \A k \in DOMAIN config : config[k].weight = 0

Use(x) ==
  /\ owner = "using" /\ exec[x] = Idle
  /\ \E p \in Names :
       /\ Drawn(p) /\ pool[p] # <<>>
       /\ pool' = [pool EXCEPT ![p] = Append(Tail(@), Head(@))]
       /\ IF p = Static THEN Execute(x, Head(pool[p]).id) ELSE UNCHANGED staticVars
  /\ UNCHANGED <<config, ready, clock, ownerVars, ttl, out, lost, ledgerVars>>

Call(x) == CallStep(x) /\ UNCHANGED fleetVars

Over == owner = "over" /\ ttl.at = "idle" /\ UNCHANGED vars

Owner ==
  \/ SetupProvider \/ SetupFails \/ SetupEnds \/ (\E p \in Providers : AddHosts(p) \/ TakeHosts(p))
  \/ BeginTeardown \/ ReleaseTaken \/ TearProviderDown \/ EndTeardown

Next == Owner \/ CheckTTL \/ (\E x \in Workers : Use(x) \/ Call(x)) \/ Tick \/ Over

Spec == Init /\ [][Next]_vars
-----------------------------------------------------------------------------
\* hosts that one of the two loops holds outside the pools
Held ==
  (IF owner = "release" THEN ToSet(taken[2]) ELSE {}) \cup ToSet(ttl.expired)
    \cup (IF ttl.at = "add" THEN ToSet(ttl.fresh) ELSE {})

Pooled == UNION {ToSet(pool[p]) : p \in Providers}

\* instances whose name a later entry of the configuration takes
Replaced ==
  {k \in DOMAIN config : \E j \in DOMAIN config : j > k /\ config[j].provider = config[k].provider}

(* Every host that a provider handed out is in a pool or on its way to be  *)
(* released, whatever CheckTTL, SelectHost, AddHosts and Teardown do at    *)
(* the same time, but for the hosts dropped where Acquire or Release       *)
(* failed; and no host in a pool has been given back to its provider.      *)
(* Teardown meets every instance that is registered: it leaves up those    *)
(* whose own Teardown failed (orchestrator.go:175), and those it cannot    *)
(* see, because Setup put a second instance of the same provider over them *)
(* (orchestrator.go:49).  It leaves no host in a pool, but for the pools   *)
(* that CheckTTL was refilling when it passed.  A Setup that fails leaves  *)
(* up the instances before the failing one (orchestrator.go:45).           *)
HostsAccounted ==
  /\ out \ lost = {h \in Pooled \cup Held : h.provider # Static}
  /\ owner = "over" =>
       /\ up = IF at > Len(config) THEN Replaced \cup stuck ELSE 1 .. at - 1
       /\ ttl.at = "idle" => \A p \in Providers : pool[p] # <<>> => p \in overlap

Capacity(p) ==
  Len(pool[p]) + IF ttl.p = p /\ ttl.at \in {"acquire", "add"} THEN Len(ttl.expired) ELSE 0

(* orchestrator.go:101: CheckTTL releases expired hosts and "acquires      *)
(* replacements": from its first to its last step the pool and what it     *)
(* has yet to replace stay as large as they were, unless Acquire fails.    *)
CapacityKept ==
  [][\A p \in Providers :
       ttl' = ttl \/ Capacity(p)' = Capacity(p)
         \/ (ttl.p = p /\ ttl.at = "acquire" /\ ttl'.at = "idle")]_vars

\* where h stands first among hosts, 0 if it is not there
Place(h, hosts) ==
  IF h \in ToSet(hosts) THEN Min({k \in DOMAIN hosts : hosts[k] = h}) ELSE 0

\* the step is a SelectHost on p's pool: it turns the pool and changes no hosts
Selected(p) ==
  ttl' = ttl /\ Len(pool'[p]) = Len(pool[p]) /\ pool'[p] # pool[p]

(* Round-robin (orchestrator.go:77): a host that waits in a pool is never  *)
(* overtaken, though hosts expire and others are added meanwhile, and each *)
(* selection from the pool brings all but the selected one place forward.  *)
NeverPassedOver ==
  [][\A p \in Providers : \A h \in ToSet(pool[p]) :
       LET before == Place(h, pool[p])
           after == Place(h, pool'[p])
       IN  IF Selected(p) THEN before > 1 => after = before - 1
                          ELSE after <= before]_vars
=============================================================================
