--------------------------- MODULE ConsistentHash ---------------------------
(***************************************************************************)
(* The consistent_hash selector (internal/balancer/consistent_hash.go and  *)
(* ring.go) as concurrent requests run it over a registry that reloads     *)
(* replace: the scan of the selectable set, the capacity computed from it, *)
(* the cached ring with its load / Snapshot / CompareAndSwap, the walk of  *)
(* the ring, and the slots the chosen backends are charged.                *)
(*                                                                         *)
(* A ring is the set of backends it was built from: where each backend's   *)
(* virtual nodes lie depends on its name only, and is the constant VNodes. *)
(* The scan with the capacity of what it found, and the reads of one       *)
(* candidate, are each one step. Health flags and circuits flip at any     *)
(* moment (modules Health and Circuit), so reading one may give anything.  *)
(***************************************************************************)
EXTENDS Naturals, FiniteSets, SequencesExt

CONSTANTS Names,       \* backend names
          VNodes,      \* the owners of the ring positions, in position order
          Requests,    \* request goroutines
          MaxVersion,  \* bound: registry snapshots published
          Streams,     \* bound: long streams a backend starts with, placed by
                       \* the selector this one was swapped for
          None         \* no backend

ASSUME VNodesAssumption == VNodes \in Seq(Names) /\ Range(VNodes) = Names
ASSUME MaxVersionAssumption == MaxVersion \in Nat \ {0}
ASSUME StreamsAssumption == Streams \in Nat
ASSUME NoneAssumption == None \notin Names \X Nat

\* <<name, v>>: the backend of that name built for snapshot v.
Instances == Names \X (1..MaxVersion)

VARIABLES
  snapshots,  \* the fleets published, by version; the registry holds the last
  removed,    \* instances whose removed flag is set
  next,       \* the fleet a reload is about to publish; {} when none is
  active,     \* Backend.active
  cache,      \* the selector's ringCache
  pc,         \* each request: its step in Select, or after it
  scanned,    \* history: the version its scan of the selectable set loaded
  capacity,   \* the ceiling computed from that set
  cached,     \* the ringCache it loaded
  built,      \* the ringCache made of the Snapshot it took
  ring,       \* what currentRing returned
  walk,       \* the candidates it has not looked at yet
  least,      \* the least loaded healthy candidate seen, and its load
  chosen      \* what Select returned

registry == <<snapshots, removed, next>>
call == <<scanned, capacity, cached, built, ring, walk, least, chosen>>
vars == <<registry, active, cache, pc, call>>

Version == Len(snapshots)
Fleet == snapshots[Version]

NewRing(v) == [version |-> v, ring |-> snapshots[v]]
NoRing == [version |-> 0, ring |-> {}]
NoLeast == [backend |-> None, load |-> 0]

Init ==
  /\ \E names \in (SUBSET Names) \ {{}} : snapshots = <<{<<n, 1>> : n \in names}>>
  /\ removed = {} /\ next = {}
  /\ active \in [Instances -> 0..Streams]
  /\ \A i \in Instances \ Fleet : active[i] = 0
  /\ cache = NewRing(1)
  /\ pc = [r \in Requests |-> "idle"]
  /\ scanned = [r \in Requests |-> 0]
  /\ capacity = [r \in Requests |-> 0]
  /\ cached = [r \in Requests |-> NoRing]
  /\ built = [r \in Requests |-> NoRing]
  /\ ring = [r \in Requests |-> {}]
  /\ walk = [r \in Requests |-> <<>>]
  /\ least = [r \in Requests |-> NoLeast]
  /\ chosen = [r \in Requests |-> None]

----------------------------------------------------------------------------
(* The registry under reload.                                              *)

\* Registry.Apply marks what it removes, then publishes.
MarkRemoved ==
  /\ next = {} /\ Version < MaxVersion
  /\ \E keep \in SUBSET Fleet, fresh \in SUBSET Names :
       /\ keep \union fresh # {}
       /\ \A i \in keep : i[1] \notin fresh
       /\ next' = keep \union {<<n, Version + 1>> : n \in fresh}
       /\ removed' = removed \union (Fleet \ keep)
  /\ UNCHANGED <<snapshots, active, cache, pc, call>>

Publish ==
  /\ next # {}
  /\ snapshots' = Append(snapshots, next)
  /\ next' = {}
  /\ UNCHANGED <<removed, active, cache, pc, call>>

----------------------------------------------------------------------------
(* Select.                                                                 *)

Goto(r, step) == pc' = [pc EXCEPT ![r] = step]
Put(f, r, value) == [f EXCEPT ![r] = value]

\* Select returns i, or None, and forgets everything else.
Choose(r, i) ==
  /\ chosen' = Put(chosen, r, i)
  /\ Goto(r, IF i = None THEN "idle" ELSE "selected")
  /\ scanned' = Put(scanned, r, 0) /\ capacity' = Put(capacity, r, 0)
  /\ ring' = Put(ring, r, {}) /\ walk' = Put(walk, r, <<>>)
  /\ least' = Put(least, r, NoLeast)
  /\ UNCHANGED <<registry, active, cache, cached, built>>

\* capacityFor: the mean load times 5/4, rounded up, and at least 1.
CapacityFor(set) ==
  LET total == FoldSet(LAMBDA i, sum : sum + active[i], 0, set)
      n == Cardinality(set)
      ceiling == (5 * total + 4 * n - 1) \div (4 * n)
  IN IF ceiling < 1 THEN 1 ELSE ceiling

\* Registry.Selectable returns the healthy backends whose circuits are not
\* open. An empty set is ErrNoHealthyBackends, which changes nothing.
Scan(r) ==
  /\ pc[r] = "idle"
  /\ \E selectable \in (SUBSET Fleet) \ {{}} :
       capacity' = Put(capacity, r, CapacityFor(selectable))
  /\ scanned' = Put(scanned, r, Version)
  /\ Goto(r, "load")
  /\ UNCHANGED <<registry, active, cache, cached, built, ring, walk, least, chosen>>

\* currentRing loads the cache, and then the registry's version.
LoadCache(r) ==
  /\ pc[r] \in {"load", "reload"}
  /\ cached' = Put(cached, r, cache)
  /\ Goto(r, IF pc[r] = "load" THEN "version" ELSE "snapshot")
  /\ UNCHANGED <<registry, active, cache, scanned, capacity, built, ring,
                 walk, least, chosen>>

\* The start of the walk, where the request's key falls among the positions.
Positions == 0..(Len(VNodes) - 1)

\* The backend that owns a position is met, unless the ring is not over it or it
\* has been met before.
Meet(seen, set, owner) ==
  IF \E i \in set : i[1] = owner /\ i \notin Range(seen)
    THEN Append(seen, CHOOSE i \in set : i[1] = owner)
    ELSE seen

\* Mutation: the walk stops at the end of the ring instead of wrapping.
CandidatesUnwrapped(set, start) ==
  LET n == Len(VNodes) - start
      seen[k \in 0..n] == IF k = 0 THEN <<>> ELSE Meet(seen[k - 1], set, VNodes[start + k])
  IN seen[n]

\* The distinct backends of the ring over set, in ring order from start.
Candidates(set, start) ==
  LET n == Len(VNodes)
      seen[k \in 0..n] ==
        IF k = 0 THEN <<>> ELSE Meet(seen[k - 1], set, VNodes[((start + k - 1) % n) + 1])
  IN seen[n]

\* currentRing returns the ring of entry, a ringCache, and the walk begins.
Return(r, entry) ==
  /\ ring' = Put(ring, r, entry.ring)
  /\ \E start \in Positions : walk' = Put(walk, r, Candidates(entry.ring, start))
  /\ cached' = Put(cached, r, NoRing)
  /\ built' = Put(built, r, NoRing)
  /\ Goto(r, "walk")

\* Mutation: the cached ring is returned without asking for the version.
CheckNothing(r) ==
  /\ pc[r] = "version"
  /\ Return(r, cached[r])
  /\ UNCHANGED <<registry, active, cache, scanned, capacity, least, chosen>>

CheckVersion(r) ==
  /\ pc[r] = "version"
  /\ \/ /\ cached[r].version = Version
        /\ Return(r, cached[r])
     \/ /\ cached[r].version # Version
        /\ Goto(r, "reload")
        /\ cached' = Put(cached, r, NoRing)
        /\ UNCHANGED <<built, ring, walk>>
  /\ UNCHANGED <<registry, active, cache, scanned, capacity, least, chosen>>

TakeSnapshot(r) ==
  /\ pc[r] = "snapshot"
  /\ \/ /\ cached[r].version = Version
        /\ Return(r, cached[r])
     \/ /\ cached[r].version # Version
        /\ built' = Put(built, r, NewRing(Version))
        /\ Goto(r, "swap")
        /\ UNCHANGED <<cached, ring, walk>>
  /\ UNCHANGED <<registry, active, cache, scanned, capacity, least, chosen>>

\* Mutation: the rebuilt ring is stored, whatever is cached by now.
StoreCache(r) ==
  /\ pc[r] = "swap"
  /\ cache' = built[r]
  /\ Return(r, built[r])
  /\ UNCHANGED <<registry, active, scanned, capacity, least, chosen>>

\* The CompareAndSwap. Comparing the entries is comparing the pointers: no two
\* entries ever cached have the same version.
SwapCache(r) ==
  /\ pc[r] = "swap"
  /\ \/ /\ cache = cached[r]
        /\ cache' = built[r]
        /\ Return(r, built[r])
     \/ /\ cache # cached[r]
        /\ Goto(r, "reload")
        /\ cached' = Put(cached, r, NoRing)
        /\ built' = Put(built, r, NoRing)
        /\ UNCHANGED <<cache, ring, walk>>
  /\ UNCHANGED <<registry, active, scanned, capacity, least, chosen>>

\* One candidate: it is admitted, or it is remembered as the least loaded so
\* far, or it is passed over. Its health is read again for the second, after
\* the first came out FALSE.
Walk(r) ==
  /\ pc[r] = "walk" /\ walk[r] # <<>>
  /\ LET i == Head(walk[r])
         lighter == least[r] = NoLeast \/ active[i] < least[r].load
     IN \E healthy, again \in BOOLEAN :
          LET admitted   == healthy /\ i \notin removed /\ active[i] <= capacity[r]
              remembered == again /\ i \notin removed /\ lighter
          IN \/ admitted /\ Choose(r, i)
             \/ /\ ~admitted
                /\ walk' = Put(walk, r, Tail(walk[r]))
                /\ least' = IF remembered
                              THEN Put(least, r, [backend |-> i, load |-> active[i]])
                              ELSE least
                /\ UNCHANGED <<registry, active, cache, pc, scanned, capacity, cached,
                               built, ring, chosen>>

\* The walk has seen every candidate and admitted none: it returns the least
\* loaded of them, or ErrNoHealthyBackends.
Exhausted(r) == pc[r] = "walk" /\ walk[r] = <<>>

Fallback(r) ==
  /\ Exhausted(r) /\ least[r] # NoLeast
  /\ Choose(r, least[r].backend)

NoHealthyBackends(r) ==
  /\ Exhausted(r) /\ least[r] = NoLeast
  /\ Choose(r, None)

Select(r) ==
  \/ LoadCache(r) \/ CheckVersion(r) \/ TakeSnapshot(r) \/ SwapCache(r)
  \/ Walk(r) \/ Fallback(r) \/ NoHealthyBackends(r)

\* After Select: the circuit denies the request, or it takes a slot of the
\* chosen backend and releases it some time later.
Deny(r) ==
  /\ pc[r] = "selected"
  /\ Choose(r, None)

Activate(r) ==
  /\ pc[r] = "selected"
  /\ active' = [active EXCEPT ![chosen[r]] = @ + 1]
  /\ Goto(r, "serving")
  /\ UNCHANGED <<registry, cache, call>>

Release(r) ==
  /\ pc[r] = "serving"
  /\ active' = [active EXCEPT ![chosen[r]] = @ - 1]
  /\ chosen' = Put(chosen, r, None)
  /\ Goto(r, "idle")
  /\ UNCHANGED <<registry, cache, scanned, capacity, cached, built, ring, walk, least>>

Request(r) == Scan(r) \/ Select(r) \/ Deny(r) \/ Activate(r) \/ Release(r)

Next ==
  \/ MarkRemoved \/ Publish
  \/ \E r \in Requests : Request(r)

Spec == Init /\ [][Next]_vars

----------------------------------------------------------------------------
\* The ring a request walks was built from one whole snapshot, published no
\* earlier than the one its selectable set and its capacity came from: a Select
\* never walks a ring older than its scan, however many reloads and rebuilds by
\* other requests come between (currentRing, consistent_hash.go:77).
RingIsCurrent ==
  \A r \in Requests :
    pc[r] = "walk" => \E v \in scanned[r]..Version : ring[r] = snapshots[v]

\* Rebuilds that race after a reload never put an older ring back, and the
\* cached ring is that of the snapshot its version names (ringCache, :47).
CacheNeverRegresses ==
  [][cache' # cache => /\ cache'.version > cache.version
                       /\ cache'.ring = snapshots[cache'.version]]_vars

\* Of every set of backends that a scan may find selectable, one is within the
\* capacity computed from it, as long as their loads are those of the scan; by
\* the time of the walk they may have grown (Select, consistent_hash.go:104).
CapacityLeavesRoom ==
  \A set \in (SUBSET Fleet) \ {{}} : \E i \in set : active[i] <= CapacityFor(set)

\* A request gives up, or falls back to the least loaded backend, only after
\* it has looked at every backend of its ring and found none that it could
\* admit; nobody is looked at twice (candidates, ring.go:71).
WalkIsComplete ==
  [][\A r \in Requests :
       (pc'[r] = "walk" /\ pc[r] # "walk")
         => /\ Range(walk'[r]) = ring'[r]
            /\ Len(walk'[r]) = Cardinality(ring'[r])]_vars
=============================================================================
