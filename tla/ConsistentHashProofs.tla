------------------------ MODULE ConsistentHashProofs ------------------------
(***************************************************************************)
(* Theorems about ConsistentHash, for every ring, any requests and any     *)
(* number of reloads.                                                      *)
(***************************************************************************)
EXTENDS ConsistentHash, Integers, FiniteSetTheorems, WellFoundedInduction, TLAPS

\* entry is the ring of a published snapshot.
IsRingOf(entry, v) == entry.version = v /\ v \in 1..Version /\ entry.ring = snapshots[v]

Published(entry) == \E v \in 1..Version : IsRingOf(entry, v)

Types ==
  /\ snapshots \in Seq(SUBSET Instances) /\ Version >= 1
  /\ next \subseteq Instances
  /\ pc \in [Requests -> {"idle", "load", "reload", "version", "snapshot", "swap", "walk",
                          "selected", "serving"}]
  /\ cached = [r \in Requests |-> cached[r]]
  /\ built = [r \in Requests |-> built[r]]
  /\ ring = [r \in Requests |-> ring[r]]
  /\ scanned \in [Requests -> Nat]

\* What a request holds at each step of currentRing: a published ring, then one
\* that is newer, and no older than its scan.
FreshAt(r) ==
  /\ scanned[r] <= Version
  /\ pc[r] \in {"version", "snapshot", "swap"} => Published(cached[r])
  /\ pc[r] = "swap" =>
       /\ Published(built[r])
       /\ built[r].version >= scanned[r]
       /\ built[r].version > cached[r].version
  /\ pc[r] = "walk" => \E v \in scanned[r]..Version : v >= 1 /\ ring[r] = snapshots[v]

RingsAreFresh == \A r \in Requests : FreshAt(r)

RingInv == Types /\ Published(cache) /\ RingsAreFresh

\* The first ring is published.
LEMMA RingInit == Init => RingInv
<1> SUFFICES ASSUME Init PROVE RingInv
  OBVIOUS
<1>1. PICK names \in SUBSET Names : snapshots = <<{<<n, 1>> : n \in names}>>
  BY DEF Init
<1>2. snapshots \in Seq(SUBSET Instances) /\ Version = 1 /\ snapshots[1] = Fleet
  BY <1>1, MaxVersionAssumption DEF Instances, Version, Fleet
<1>3. Types
  BY <1>2 DEF Init, Types
<1>4. Published(cache)
  BY <1>2 DEF Init, Published, IsRingOf, NewRing
<1>5. RingsAreFresh
  BY <1>2 DEF Init, RingsAreFresh, FreshAt
<1> QED
  BY <1>3, <1>4, <1>5 DEF RingInv

\* A reload publishes after what there is, so what was published stays.
LEMMA RegistryStep ==
  ASSUME RingInv, MarkRemoved \/ Publish
  PROVE  RingInv' /\ UNCHANGED cache
<1> USE DEF RingInv, Types
<1>1. /\ UNCHANGED <<cache, pc, cached, built, ring, scanned>>
      /\ Version' \in Nat /\ Version' >= Version
      /\ snapshots' \in Seq(SUBSET Instances)
      /\ next' \subseteq Instances
      /\ \A v \in 1..Version : snapshots'[v] = snapshots[v]
  <2>1. CASE MarkRemoved
    <3>1. PICK keep \in SUBSET Fleet, fresh \in SUBSET Names :
            next' = keep \union {<<n, Version + 1>> : n \in fresh}
      BY <2>1 DEF MarkRemoved
    <3>2. Fleet \subseteq Instances
      BY DEF Fleet, Version
    <3>3. Version + 1 \in 1..MaxVersion
      BY <2>1, MaxVersionAssumption DEF MarkRemoved, Version
    <3>4. next' \subseteq Instances
      BY <3>1, <3>2, <3>3 DEF Instances
    <3> QED
      BY <2>1, <3>4 DEF MarkRemoved, Version, call
  <2>2. CASE Publish
    BY <2>2 DEF Publish, Version, call
  <2> QED
    BY <2>1, <2>2
<1>2. Version \in Nat
  BY DEF Version
<1>3. Types'
  BY <1>1, <1>2
<1>4. \A entry : Published(entry) => Published(entry)'
  BY <1>1, <1>2 DEF Published, IsRingOf
<1>5. Published(cache)'
  BY <1>1, <1>4 DEF Published, IsRingOf
<1>6. RingsAreFresh'
  <2> SUFFICES ASSUME NEW r \in Requests
               PROVE  /\ scanned[r] <= Version'
                      /\ pc[r] \in {"version", "snapshot", "swap"} => Published(cached[r])'
                      /\ pc[r] = "swap" =>
                           /\ Published(built[r])'
                           /\ built[r].version >= scanned[r]
                           /\ built[r].version > cached[r].version
                      /\ pc[r] = "walk" =>
                           \E v \in scanned[r]..Version' : v >= 1 /\ ring[r] = snapshots'[v]
    BY <1>1 DEF RingsAreFresh, FreshAt
  <2>0. FreshAt(r) /\ scanned[r] \in Nat
    BY DEF RingsAreFresh
  <2>1. ASSUME pc[r] = "walk"
        PROVE  \E v \in scanned[r]..Version' : v >= 1 /\ ring[r] = snapshots'[v]
    <3>1. PICK v \in scanned[r]..Version : v >= 1 /\ ring[r] = snapshots[v]
      BY <2>0, <2>1 DEF FreshAt
    <3>2. v \in scanned[r]..Version' /\ v \in 1..Version
      BY <1>1, <1>2, <2>0, <3>1
    <3> QED
      BY <1>1, <3>1, <3>2
  <2>2. pc[r] \in {"version", "snapshot", "swap"} => Published(cached[r])'
    BY <1>1, <1>4, <2>0 DEF FreshAt, Published, IsRingOf
  <2>3. pc[r] = "swap" => Published(built[r])'
    BY <1>1, <1>4, <2>0 DEF FreshAt, Published, IsRingOf
  <2> QED
    BY <1>1, <1>2, <2>0, <2>1, <2>2, <2>3 DEF FreshAt
<1> QED
  BY <1>1, <1>3, <1>5, <1>6

\* A step of r disturbs what no other request holds.
LEMMA OthersStayFresh ==
  ASSUME RingsAreFresh, NEW r \in Requests, FreshAt(r)', UNCHANGED <<Version, snapshots>>,
         \A q \in Requests \ {r} :
           UNCHANGED <<scanned[q], cached[q], built[q], ring[q], pc[q]>>
  PROVE  RingsAreFresh'
<1> SUFFICES ASSUME NEW q \in Requests, q # r PROVE FreshAt(q)'
  BY DEF RingsAreFresh
<1>1. FreshAt(q) /\ UNCHANGED <<scanned[q], cached[q], built[q], ring[q], pc[q]>>
  BY DEF RingsAreFresh
<1> QED
  BY <1>1 DEF FreshAt, Published, IsRingOf

\* What currentRing returns is of a snapshot no older than the scan.
LEMMA ReturnStep ==
  ASSUME RingInv, NEW r \in Requests, NEW entry, Published(entry),
         entry.version >= scanned[r], Return(r, entry),
         UNCHANGED <<registry, scanned>>, Published(cache')
  PROVE  RingInv'
<1> USE DEF RingInv, Types, registry
<1>1. UNCHANGED <<Version, snapshots>> /\ Version \in Nat
  BY DEF Version
<1>2. /\ pc' = [pc EXCEPT ![r] = "walk"] /\ ring' = [ring EXCEPT ![r] = entry.ring]
      /\ cached' = [cached EXCEPT ![r] = NoRing] /\ built' = [built EXCEPT ![r] = NoRing]
  BY DEF Return, Goto, Put
<1>3. Types'
  BY <1>1, <1>2
<1>4. Published(cache)'
  BY <1>1 DEF Published, IsRingOf
<1>5. \E v \in scanned[r]..Version : v >= 1 /\ entry.ring = snapshots[v]
  BY <1>1 DEF Published, IsRingOf
<1>6. ring'[r] = entry.ring /\ pc'[r] = "walk"
  BY <1>2
<1>7. \A q \in Requests \ {r} : UNCHANGED <<pc[q], ring[q], cached[q], built[q]>>
  BY <1>2
<1>8. RingsAreFresh'
  <2>1. FreshAt(r)'
    BY <1>1, <1>5, <1>6 DEF RingsAreFresh, FreshAt
  <2> QED
    BY <1>1, <1>7, <2>1, OthersStayFresh
<1> QED
  BY <1>3, <1>4, <1>8

\* A request reads the cache, the version, the snapshot, and swaps, one after the
\* other, with anything in between.
LEMMA RequestStep ==
  ASSUME RingInv, NEW r \in Requests, Request(r)
  PROVE  /\ RingInv'
         /\ cache' # cache => /\ cache'.version > cache.version
                              /\ cache'.ring = snapshots[cache'.version]
<1> USE DEF RingInv, Types
<1>1. UNCHANGED <<Version, snapshots, registry>> /\ Version \in Nat
  BY DEF Request, Select, Scan, LoadCache, CheckVersion, TakeSnapshot, SwapCache, Walk, Fallback,
     NoHealthyBackends, Choose, Deny, Activate, Release, registry, Version
<1>2. \A entry : Published(entry) <=> Published(entry)'
  BY <1>1 DEF Published, IsRingOf
<1>3. CASE Scan(r)
  <2>1. /\ UNCHANGED <<cache, cached, built, ring>>
        /\ pc' = [pc EXCEPT ![r] = "load"] /\ scanned' = [scanned EXCEPT ![r] = Version]
    BY <1>3 DEF Scan, Goto, Put
  <2>2. Types'
    BY <1>1, <2>1 DEF registry
  <2>3. /\ scanned'[r] = Version /\ pc'[r] = "load"
        /\ \A q \in Requests \ {r} : UNCHANGED <<scanned[q], pc[q]>>
    BY <2>1
  <2>4. RingsAreFresh'
    <3>1. FreshAt(r)'
      BY <1>1, <2>3 DEF FreshAt
    <3> QED
      BY <1>1, <2>1, <2>3, <3>1, OthersStayFresh
  <2> QED
    BY <1>1, <2>1, <2>2, <2>4 DEF Published, IsRingOf
<1>4. CASE LoadCache(r)
  <2>1. /\ UNCHANGED <<cache, scanned, built, ring>>
        /\ cached' = [cached EXCEPT ![r] = cache]
        /\ pc' = [pc EXCEPT ![r] = IF pc[r] = "load" THEN "version" ELSE "snapshot"]
    BY <1>4 DEF LoadCache, Goto, Put
  <2>2. Types'
    BY <1>1, <2>1 DEF registry
  <2>3. cached'[r] = cache /\ \A q \in Requests \ {r} : UNCHANGED <<cached[q], pc[q]>>
    BY <2>1
  <2>4. RingsAreFresh'
    <3>1. FreshAt(r)'
      BY <1>1, <2>1, <2>3 DEF RingsAreFresh, FreshAt, Published, IsRingOf
    <3> QED
      BY <1>1, <2>1, <2>3, <3>1, OthersStayFresh
  <2> QED
    BY <1>1, <2>1, <2>2, <2>4 DEF Published, IsRingOf
<1>5. CASE CheckVersion(r)
  <2>1. CASE cached[r].version = Version
    BY <1>1, <1>5, <2>1, ReturnStep DEF CheckVersion, RingsAreFresh, FreshAt
  <2>2. CASE cached[r].version # Version
    <3>1. /\ UNCHANGED <<cache, scanned, built, ring>>
          /\ cached' = [cached EXCEPT ![r] = NoRing] /\ pc' = [pc EXCEPT ![r] = "reload"]
      BY <1>5, <2>2 DEF CheckVersion, Goto, Put
    <3>2. Types'
      BY <1>1, <3>1 DEF registry
    <3>3. \A q \in Requests \ {r} : UNCHANGED <<cached[q], pc[q]>>
      BY <3>1
    <3>4. RingsAreFresh'
      <4>1. FreshAt(r)'
        BY <1>1, <3>1, <3>3 DEF RingsAreFresh, FreshAt, Published, IsRingOf
      <4> QED
        BY <1>1, <3>1, <3>3, <4>1, OthersStayFresh
    <3> QED
      BY <1>1, <3>1, <3>2, <3>4 DEF Published, IsRingOf
  <2> QED
    BY <2>1, <2>2
<1>6. CASE TakeSnapshot(r)
  <2>1. CASE cached[r].version = Version
    BY <1>1, <1>6, <2>1, ReturnStep DEF TakeSnapshot, RingsAreFresh, FreshAt
  <2>2. CASE cached[r].version # Version
    <3>1. /\ UNCHANGED <<cache, scanned, cached, ring>>
          /\ built' = [built EXCEPT ![r] = NewRing(Version)]
          /\ pc' = [pc EXCEPT ![r] = "swap"] /\ pc[r] = "snapshot"
      BY <1>6, <2>2 DEF TakeSnapshot, Goto, Put
    <3>2. Types'
      BY <1>1, <3>1 DEF registry
    <3>3. \A q \in Requests \ {r} : UNCHANGED <<built[q], pc[q]>>
      BY <3>1
    <3>4. /\ Published(built'[r]) /\ built'[r].version = Version
          /\ cached[r].version < Version /\ scanned[r] <= Version
      BY <1>1, <2>2, <3>1 DEF NewRing, RingsAreFresh, FreshAt, Published, IsRingOf
    <3>5. RingsAreFresh'
      <4>1. FreshAt(r)'
        BY <1>1, <3>1, <3>4 DEF RingsAreFresh, FreshAt, Published, IsRingOf
      <4> QED
        BY <1>1, <3>1, <3>3, <4>1, OthersStayFresh
    <3> QED
      BY <1>1, <3>1, <3>2, <3>5 DEF Published, IsRingOf
  <2> QED
    BY <2>1, <2>2
<1>7. CASE SwapCache(r)
  <2>1. pc[r] = "swap" /\ Published(built[r]) /\ built[r].version >= scanned[r]
    BY <1>7 DEF SwapCache, RingsAreFresh, FreshAt
  <2>2. CASE cache = cached[r]
    <3>1. cache' = built[r] /\ Return(r, built[r]) /\ UNCHANGED scanned
      BY <1>7, <2>2 DEF SwapCache
    <3>2. cache'.version > cache.version /\ cache'.ring = snapshots[cache'.version]
      BY <2>1, <2>2, <3>1 DEF RingsAreFresh, FreshAt, Published, IsRingOf
    <3> QED
      BY <1>1, <2>1, <3>1, <3>2, ReturnStep
  <2>3. CASE cache # cached[r]
    <3>1. /\ UNCHANGED <<cache, scanned, ring>>
          /\ cached' = [cached EXCEPT ![r] = NoRing] /\ built' = [built EXCEPT ![r] = NoRing]
          /\ pc' = [pc EXCEPT ![r] = "reload"]
      BY <1>7, <2>3 DEF SwapCache, Goto, Put
    <3>2. Types'
      BY <1>1, <3>1 DEF registry
    <3>3. \A q \in Requests \ {r} : UNCHANGED <<cached[q], built[q], pc[q]>>
      BY <3>1
    <3>4. RingsAreFresh'
      <4>1. FreshAt(r)'
        BY <1>1, <3>1, <3>3 DEF RingsAreFresh, FreshAt, Published, IsRingOf
      <4> QED
        BY <1>1, <3>1, <3>3, <4>1, OthersStayFresh
    <3> QED
      BY <1>1, <3>1, <3>2, <3>4 DEF Published, IsRingOf
  <2> QED
    BY <2>2, <2>3
<1>8. ASSUME UNCHANGED <<cache, cached, built, scanned, ring>>,
             pc' = pc \/ pc' = [pc EXCEPT ![r] = "serving"] \/ pc' = [pc EXCEPT ![r] = "idle"]
      PROVE  RingInv'
  <2>1. Types'
    BY <1>1, <1>8 DEF registry
  <2>2. RingsAreFresh'
    <3>1. pc'[r] \in {pc[r], "serving", "idle"} /\ \A q \in Requests \ {r} : UNCHANGED pc[q]
      BY <1>8
    <3>2. FreshAt(r)'
      BY <1>1, <1>8, <3>1 DEF RingsAreFresh, FreshAt, Published, IsRingOf
    <3> QED
      BY <1>1, <1>8, <3>1, <3>2, OthersStayFresh
  <2> QED
    BY <1>1, <1>8, <2>1, <2>2 DEF Published, IsRingOf
<1>9. ASSUME NEW i, Choose(r, i) PROVE RingInv' /\ cache' = cache
  <2>1. /\ UNCHANGED <<cache, cached, built>>
        /\ pc' = [pc EXCEPT ![r] = IF i = None THEN "idle" ELSE "selected"]
        /\ scanned' = [scanned EXCEPT ![r] = 0] /\ ring' = [ring EXCEPT ![r] = {}]
    BY <1>9 DEF Choose, Goto, Put
  <2>2. Types'
    BY <1>1, <2>1 DEF registry
  <2>3. /\ scanned'[r] = 0 /\ pc'[r] \in {"idle", "selected"}
        /\ \A q \in Requests \ {r} : UNCHANGED <<scanned[q], ring[q], pc[q]>>
    BY <2>1
  <2>4. RingsAreFresh'
    <3>1. FreshAt(r)'
      BY <1>1, <2>1, <2>3 DEF RingsAreFresh, FreshAt, Published, IsRingOf
    <3> QED
      BY <1>1, <2>1, <2>3, <3>1, OthersStayFresh
  <2> QED
    BY <1>1, <2>1, <2>2, <2>4 DEF Published, IsRingOf
<1>10. CASE Walk(r)
  <2>1. CASE \E i : Choose(r, i)
    BY <2>1, <1>9
  <2>2. CASE ~\E i : Choose(r, i)
    BY <1>8, <1>10, <2>2 DEF Walk
  <2> QED
    BY <2>1, <2>2
<1>11. CASE Fallback(r) \/ NoHealthyBackends(r) \/ Deny(r)
  BY <1>9, <1>11 DEF Fallback, NoHealthyBackends, Deny
<1>12. CASE Activate(r) \/ Release(r)
  BY <1>8, <1>12 DEF Activate, Release, Goto, call
<1> QED
  BY <1>3, <1>4, <1>5, <1>6, <1>7, <1>10, <1>11, <1>12 DEF Request, Select

\* Every ring that is cached, or that a request is about to cache or walk, is that
\* of a published snapshot.
THEOREM RingsPublished == Spec => []RingInv
<1>1. RingInv /\ [Next]_vars => RingInv'
  <2> SUFFICES ASSUME RingInv, [Next]_vars PROVE RingInv'
    OBVIOUS
  <2>1. CASE UNCHANGED vars
    BY <2>1 DEF vars, registry, call, RingInv, Types, RingsAreFresh, FreshAt, Published, IsRingOf, Version
  <2> QED
    BY <2>1, RegistryStep, RequestStep DEF Next
<1> QED
  BY <1>1, RingInit, PTL DEF Spec

\* A walk is over one whole snapshot, no older than the request's scan
\* (currentRing, consistent_hash.go:77).
THEOREM WalksAreCurrent == Spec => []RingIsCurrent
<1>1. RingInv => RingIsCurrent
  BY DEF RingInv, RingsAreFresh, FreshAt, RingIsCurrent
<1> QED
  BY <1>1, RingsPublished, PTL

\* Racing rebuilds only move the cache forward (ringCache, consistent_hash.go:47).
THEOREM CacheMovesForward == Spec => CacheNeverRegresses
<1> DEFINE Step == cache' # cache => /\ cache'.version > cache.version
                                     /\ cache'.ring = snapshots[cache'.version]
<1>1. RingInv /\ [Next]_vars => [Step]_vars
  BY RegistryStep, RequestStep DEF Next
<1> QED
  BY <1>1, RingsPublished, PTL DEF Spec, CacheNeverRegresses


----------------------------------------------------------------------------
(* The walk of the ring.                                                   *)

\* A set of naturals has a least member.
LEMMA LeastOf ==
  ASSUME NEW T \in SUBSET Nat, T # {}
  PROVE  \E x \in T : \A y \in T : x <= y
<1> DEFINE R == OpToRel(<, Nat)
<1>1. IsWellFoundedOn(R, Nat)
  BY NatLessThanWellFounded
<1>2. \A x, y \in Nat : <<y, x>> \in R <=> y < x
  BY DEF OpToRel
<1> HIDE DEF R
<1>3. PICK x \in T : \A y \in T : ~(<<y, x>> \in R)
  BY <1>1, WFMin
<1>4. \A y \in T : x <= y
  <2> TAKE y \in T
  <2>1. ~(y < x) /\ x \in Nat /\ y \in Nat
    BY <1>2, <1>3
  <2> QED BY <2>1
<1> QED BY <1>3, <1>4

\* A set that has 0 and the successor of each of its naturals has them all.
LEMMA SetInduction ==
  ASSUME NEW T, 0 \in T, \A m \in Nat : m \in T => m + 1 \in T
  PROVE  Nat \subseteq T
<1> SUFFICES ASSUME Nat \ T # {} PROVE FALSE
  OBVIOUS
<1>1. PICK x \in Nat \ T : \A y \in Nat \ T : x <= y
  BY LeastOf
<1>2. x # 0 /\ x - 1 \in Nat
  BY <1>1
<1>3. x - 1 \in T
  BY <1>1, <1>2
<1>4. x - 1 + 1 \in T
  BY <1>2, <1>3
<1> QED BY <1>1, <1>4

\* The owner of the k-th position looked at, counted from 1.
OwnerAt(start, k) == VNodes[((start + k - 1) % Len(VNodes)) + 1]

\* f[k] is what the walk has met after k positions, for k up to m.
IsMeeting(f, m, set, start) ==
  f = [k \in 0..m |-> IF k = 0 THEN <<>> ELSE Meet(f[k - 1], set, OwnerAt(start, k))]

\* The walk meets something at each position.
LEMMA MeetingExists ==
  ASSUME NEW set, NEW start, NEW m \in Nat
  PROVE  \E f : IsMeeting(f, m, set, start)
<1> DEFINE T == {j \in Nat : \E f : IsMeeting(f, j, set, start)}
<1>1. 0 \in T
  <2>1. IsMeeting([k \in 0..0 |-> <<>>], 0, set, start)
    BY DEF IsMeeting
  <2> QED BY <2>1
<1>2. ASSUME NEW j \in Nat, j \in T PROVE j + 1 \in T
  <2>1. PICK f : IsMeeting(f, j, set, start)
    BY <1>2
  <2> DEFINE g == [k \in 0..(j + 1) |-> IF k = j + 1 THEN Meet(f[j], set, OwnerAt(start, k)) ELSE f[k]]
  <2>2. /\ DOMAIN g = 0..(j + 1) /\ g = [k \in 0..(j + 1) |-> g[k]]
        /\ g[j + 1] = Meet(f[j], set, OwnerAt(start, j + 1))
        /\ \A k \in 0..j : g[k] = f[k]
    OBVIOUS
  <2>3. \A k \in 0..j : f[k] = IF k = 0 THEN <<>> ELSE Meet(f[k - 1], set, OwnerAt(start, k))
    BY <2>1 DEF IsMeeting
  <2> HIDE DEF g
  <2>4. ASSUME NEW k \in 0..(j + 1)
        PROVE  g[k] = IF k = 0 THEN <<>> ELSE Meet(g[k - 1], set, OwnerAt(start, k))
    <3>1. CASE k = j + 1
      <4>1. k - 1 = j /\ j \in 0..j /\ k # 0
        BY <3>1
      <4> QED BY <2>2, <3>1, <4>1
    <3>2. CASE k \in 0..j
      <4>1. k # 0 => k - 1 \in 0..j
        BY <3>2
      <4> QED BY <2>2, <2>3, <3>2, <4>1
    <3> QED BY <3>1, <3>2
  <2>5. IsMeeting(g, j + 1, set, start)
    BY <2>2, <2>4 DEF IsMeeting
  <2> QED BY <2>5
<1> HIDE DEF T
<1>3. Nat \subseteq T
  BY <1>1, <1>2, SetInduction
<1> QED BY <1>3 DEF T

\* The candidates are what the walk has met after every position.
LEMMA CandidatesAreMet ==
  ASSUME NEW set, NEW start, Len(VNodes) \in Nat
  PROVE  \E f : IsMeeting(f, Len(VNodes), set, start) /\ Candidates(set, start) = f[Len(VNodes)]
<1> DEFINE n == Len(VNodes)
           f == CHOOSE f : IsMeeting(f, n, set, start)
<1>1. IsMeeting(f, n, set, start)
  BY MeetingExists
<1>2. Candidates(set, start) = f[n]
  BY DEF Candidates, IsMeeting, OwnerAt
<1> QED BY <1>1, <1>2


\* No two instances of a fleet have a name.
OnePerName(set) == \A i, j \in set : i[1] = j[1] => i = j

\* s has met the members of set that are in S, each once.
HasMet(s, set, S) ==
  /\ s \in Seq(set) /\ Range(s) = S
  /\ \A a, b \in 1..Len(s) : s[a] = s[b] => a = b

\* One position.
LEMMA MeetStep ==
  ASSUME NEW set, OnePerName(set), NEW s, NEW S, HasMet(s, set, S), NEW owner
  PROVE  HasMet(Meet(s, set, owner), set, S \union {i \in set : i[1] = owner})
<1>1. s \in Seq(set) /\ Len(s) \in Nat /\ DOMAIN s = 1..Len(s) /\ Range(s) = S
  BY DEF HasMet
<1>2. CASE \E i \in set : i[1] = owner /\ i \notin Range(s)
  <2>1. PICK i \in set : i[1] = owner /\ i \notin Range(s)
    BY <1>2
  <2>2. {j \in set : j[1] = owner} = {i} /\ (CHOOSE j \in set : j[1] = owner) = i
    BY <2>1 DEF OnePerName
  <2> DEFINE t == Append(s, i)
  <2>3. Meet(s, set, owner) = t
    BY <1>2, <2>2 DEF Meet
  <2>4. /\ t \in Seq(set) /\ Len(t) = Len(s) + 1 /\ DOMAIN t = 1..(Len(s) + 1)
        /\ t[Len(s) + 1] = i /\ \A k \in 1..Len(s) : t[k] = s[k]
    BY <1>1
  <2> HIDE DEF t
  <2>5. Range(t) = S \union {i}
    <3>1. Len(s) + 1 \in 1..(Len(s) + 1) /\ 1..(Len(s) + 1) = 1..Len(s) \union {Len(s) + 1}
      BY <1>1
    <3> QED BY <1>1, <2>4, <3>1 DEF Range
  <2>6. ASSUME NEW a \in 1..Len(t), NEW b \in 1..Len(t), t[a] = t[b]
        PROVE  a = b
    <3>1. \A k \in 1..Len(s) : s[k] # i
      BY <1>1, <2>1 DEF Range
    <3>2. \A k \in 1..Len(t) : k \in 1..Len(s) \/ k = Len(s) + 1
      BY <1>1, <2>4
    <3>3. CASE a = Len(s) + 1 \/ b = Len(s) + 1
      BY <2>4, <2>6, <3>1, <3>2, <3>3
    <3>4. CASE a \in 1..Len(s) /\ b \in 1..Len(s)
      BY <2>4, <2>6, <3>4 DEF HasMet
    <3> QED BY <3>2, <3>3, <3>4
  <2> QED BY <2>2, <2>3, <2>4, <2>5, <2>6 DEF HasMet
<1>3. CASE ~\E i \in set : i[1] = owner /\ i \notin Range(s)
  <2>1. Meet(s, set, owner) = s /\ {i \in set : i[1] = owner} \subseteq S
    BY <1>1, <1>3 DEF Meet
  <2>2. S \union {i \in set : i[1] = owner} = S
    BY <2>1
  <2> QED BY <2>1, <2>2
<1> QED BY <1>2, <1>3

\* The members of set that own one of the first k positions.
OwnersUpTo(set, start, k) == {i \in set : \E j \in 1..k : i[1] = OwnerAt(start, j)}

\* After k positions their owners have been met.
LEMMA MeetingCovers ==
  ASSUME NEW set, OnePerName(set), NEW start, NEW n \in Nat, NEW f, IsMeeting(f, n, set, start)
  PROVE  \A k \in 0..n : HasMet(f[k], set, OwnersUpTo(set, start, k))
<1> DEFINE T == {k \in Nat : k <= n => HasMet(f[k], set, OwnersUpTo(set, start, k))}
<1>1. \A k \in 0..n : f[k] = IF k = 0 THEN <<>> ELSE Meet(f[k - 1], set, OwnerAt(start, k))
  BY DEF IsMeeting
<1>2. 0 \in T
  <2>1. f[0] = <<>>
    BY <1>1
  <2>2. OwnersUpTo(set, start, 0) = {}
    BY DEF OwnersUpTo
  <2>3. HasMet(<<>>, set, {})
    BY DEF HasMet, Range
  <2> QED BY <2>1, <2>2, <2>3
<1>3. ASSUME NEW k \in Nat, k \in T PROVE k + 1 \in T
  <2> SUFFICES ASSUME k + 1 <= n PROVE HasMet(f[k + 1], set, OwnersUpTo(set, start, k + 1))
    OBVIOUS
  <2>1. HasMet(f[k], set, OwnersUpTo(set, start, k))
    BY <1>3
  <2>2. f[k + 1] = Meet(f[k], set, OwnerAt(start, k + 1))
    <3>1. k + 1 \in 0..n /\ k + 1 # 0 /\ k + 1 - 1 = k
      OBVIOUS
    <3> QED BY <1>1, <3>1
  <2>3. OwnersUpTo(set, start, k + 1)
          = OwnersUpTo(set, start, k) \union {i \in set : i[1] = OwnerAt(start, k + 1)}
    <3>1. 1..(k + 1) = 1..k \union {k + 1}
      OBVIOUS
    <3> QED BY <3>1 DEF OwnersUpTo
  <2> QED BY <2>1, <2>2, <2>3, MeetStep
<1> HIDE DEF T
<1>4. Nat \subseteq T
  BY <1>2, <1>3, SetInduction
<1> QED BY <1>4 DEF T

\* What a number leaves when divided.
LEMMA RemainderIs ==
  ASSUME NEW n \in Int, n > 0, NEW q \in Int, NEW r \in 0..(n - 1), NEW a \in Int, a = q * n + r
  PROVE  a % n = r
<1> DEFINE u == a % n
           x == a \div n
<1>1. a = x * n + u
  BY Z3
<1>2. u \in 0..(n - 1) /\ x \in Int
  OBVIOUS
<1> HIDE DEF u, x
<1> DEFINE w == q - x
<1>3. w \in Int /\ w * n = q * n - x * n
  BY <1>2, Z3
<1>4. w * n = u - r
  <2> HIDE DEF w
  <2>1. q * n \in Int /\ x * n \in Int
    BY <1>2
  <2> QED BY <1>1, <1>2, <1>3, <2>1
<1> HIDE DEF w
<1>5. w < 1
  <2> SUFFICES ASSUME w >= 1 PROVE FALSE
    BY <1>3
  <2>1. w * n >= n
    BY <1>3, Z3
  <2> QED BY <1>2, <1>4, <2>1
<1>6. w > -1
  <2> SUFFICES ASSUME w <= -1 PROVE FALSE
    BY <1>3
  <2>1. w * n <= -n
    BY <1>3, Z3
  <2> QED BY <1>2, <1>4, <2>1
<1>7. w = 0
  BY <1>3, <1>5, <1>6
<1> QED BY ONLY <1>2, <1>4, <1>7 DEF u

\* The walk comes by every position.
LEMMA EveryOwnerIsMet ==
  ASSUME NEW start \in Positions, NEW name \in Names
  PROVE  \E j \in 1..Len(VNodes) : OwnerAt(start, j) = name
<1> DEFINE n == Len(VNodes)
<1>1. n \in Nat /\ DOMAIN VNodes = 1..n
  BY VNodesAssumption
<1>2. PICK p \in 1..n : VNodes[p] = name
  BY <1>1, VNodesAssumption DEF Range
<1>3. start \in 0..(n - 1) /\ n > 0
  BY <1>1 DEF Positions
<1> HIDE DEF n
<1>4. CASE p > start
  <2>1. p - start \in 1..n
    BY <1>1, <1>2, <1>3, <1>4
  <2>2. start + (p - start) - 1 = 0 * n + (p - 1) /\ p - 1 \in 0..(n - 1)
    BY <1>1, <1>2, <1>3
  <2>3. (start + (p - start) - 1) % n = p - 1
    BY <1>1, <1>3, <2>2, RemainderIs
  <2>4. OwnerAt(start, p - start) = name
    BY <1>1, <1>2, <2>3 DEF OwnerAt, n
  <2> QED BY <2>1, <2>4 DEF n
<1>5. CASE p <= start
  <2>1. p - start + n \in 1..n
    BY <1>1, <1>2, <1>3, <1>5
  <2>2. start + (p - start + n) - 1 = 1 * n + (p - 1) /\ p - 1 \in 0..(n - 1)
    BY <1>1, <1>2, <1>3
  <2>3. (start + (p - start + n) - 1) % n = p - 1
    BY <1>1, <1>3, <2>2, RemainderIs
  <2>4. OwnerAt(start, p - start + n) = name
    BY <1>1, <1>2, <2>3 DEF OwnerAt, n
  <2> QED BY <2>1, <2>4 DEF n
<1> QED BY <1>1, <1>2, <1>3, <1>4, <1>5

\* The walk of a ring over a fleet meets each of its backends once, wherever on
\* the ring it starts (candidates, ring.go:71).
THEOREM CandidatesAreComplete ==
  ASSUME NEW set \in SUBSET Instances, OnePerName(set), NEW start \in Positions
  PROVE  /\ Range(Candidates(set, start)) = set
         /\ Len(Candidates(set, start)) = Cardinality(set)
<1> DEFINE n == Len(VNodes)
           c == Candidates(set, start)
<1>1. n \in Nat
  BY VNodesAssumption
<1>2. HasMet(c, set, OwnersUpTo(set, start, n))
  <2>1. PICK f : IsMeeting(f, n, set, start) /\ c = f[n]
    BY <1>1, CandidatesAreMet
  <2>2. n \in 0..n
    BY <1>1
  <2> QED BY <1>1, <2>1, <2>2, MeetingCovers
<1>3. OwnersUpTo(set, start, n) = set
  <2> SUFFICES ASSUME NEW i \in set PROVE \E j \in 1..n : i[1] = OwnerAt(start, j)
    BY DEF OwnersUpTo
  <2>1. i[1] \in Names
    BY DEF Instances
  <2> QED BY <2>1, EveryOwnerIsMet
<1> HIDE DEF n, c
<1>4. c \in Seq(set) /\ Len(c) \in Nat /\ DOMAIN c = 1..Len(c) /\ Range(c) = set
  BY <1>2, <1>3 DEF HasMet
<1>5. Len(c) = Cardinality(set)
  <2>1. c \in [1..Len(c) -> set]
    BY <1>4
  <2>2. c \in Bijection(1..Len(c), set)
    BY <1>2, <1>4, <2>1 DEF Bijection, Injection, Surjection, HasMet, Range, IsInjective
  <2> QED BY <1>4, <2>2, FS_CountingElements DEF ExistsBijection
<1> QED BY <1>4, <1>5 DEF c


\* A fleet, published or about to be, has one backend of a name.
NamesDiffer ==
  /\ \A v \in 1..Version : OnePerName(snapshots[v])
  /\ OnePerName(next)
  /\ walk = [r \in Requests |-> walk[r]]

\* Registry.Apply keeps the names of the fleet apart.
LEMMA ReloadNames ==
  ASSUME RingInv, NamesDiffer, MarkRemoved \/ Publish
  PROVE  NamesDiffer'
<1>1. snapshots \in Seq(SUBSET Instances) /\ Version \in Nat /\ Version >= 1
  BY DEF RingInv, Types, Version
<1>2. CASE MarkRemoved
  <2>1. PICK keep \in SUBSET Fleet, fresh \in SUBSET Names :
          /\ \A i \in keep : i[1] \notin fresh
          /\ next' = keep \union {<<n, Version + 1>> : n \in fresh}
    BY <1>2 DEF MarkRemoved
  <2>2. OnePerName(Fleet)
    <3>1. Version \in 1..Version
      BY <1>1
    <3> QED BY <3>1 DEF NamesDiffer, Fleet
  <2>3. OnePerName(next')
    <3> SUFFICES ASSUME NEW i \in next', NEW j \in next', i[1] = j[1] PROVE i = j
      BY DEF OnePerName
    <3>1. CASE i \in keep
      <4>1. j \in keep
        BY <2>1, <3>1
      <4> QED BY <2>2, <3>1, <4>1 DEF OnePerName
    <3>2. CASE i \notin keep
      <4>1. j \notin keep
        BY <2>1, <3>2
      <4> QED BY <2>1, <3>2, <4>1
    <3> QED BY <3>1, <3>2
  <2>4. UNCHANGED <<snapshots, walk>>
    BY <1>2 DEF MarkRemoved, call
  <2> QED BY <2>3, <2>4 DEF NamesDiffer, Version, OnePerName
<1>3. CASE Publish
  <2>1. snapshots' = Append(snapshots, next) /\ next' = {} /\ UNCHANGED walk
    BY <1>3 DEF Publish, call
  <2>2. /\ Version' = Version + 1 /\ snapshots'[Version + 1] = next
        /\ \A v \in 1..Version : snapshots'[v] = snapshots[v]
    BY <1>1, <2>1 DEF Version
  <2>3. ASSUME NEW v \in 1..(Version + 1) PROVE OnePerName(snapshots'[v])
    <3>1. v \in 1..Version \/ v = Version + 1
      BY <1>1
    <3> QED BY <2>2, <3>1 DEF NamesDiffer
  <2>4. OnePerName({})
    BY DEF OnePerName
  <2> QED BY <2>1, <2>2, <2>3, <2>4 DEF NamesDiffer, OnePerName
<1> QED BY <1>2, <1>3

\* What a request does to the names and the walks.
LEMMA RequestNames ==
  ASSUME RingInv, NamesDiffer, NEW r \in Requests, Request(r)
  PROVE  NamesDiffer'
<1>1. UNCHANGED <<snapshots, next>>
  BY DEF Request, Select, Scan, LoadCache, CheckVersion, TakeSnapshot, SwapCache, Walk, Fallback,
     NoHealthyBackends, Choose, Deny, Activate, Release, registry
<1>2. walk' = walk \/ \E w : walk' = [walk EXCEPT ![r] = w]
  BY DEF Request, Select, Scan, LoadCache, CheckVersion, TakeSnapshot, SwapCache, Walk, Fallback,
     NoHealthyBackends, Choose, Deny, Activate, Release, Return, Put, call
<1>3. walk' = [q \in Requests |-> walk'[q]]
  BY <1>2 DEF NamesDiffer
<1> QED BY <1>1, <1>3 DEF NamesDiffer, Version, OnePerName

\* The walk that begins is over the whole ring.
LEMMA ReturnWalks ==
  ASSUME RingInv, NamesDiffer, NEW r \in Requests, NEW entry, Published(entry), Return(r, entry)
  PROVE  Range(walk'[r]) = ring'[r] /\ Len(walk'[r]) = Cardinality(ring'[r])
<1>1. PICK start \in Positions : walk' = Put(walk, r, Candidates(entry.ring, start))
  BY DEF Return
<1>2. ring' = Put(ring, r, entry.ring)
  BY DEF Return
<1>3. ring'[r] = entry.ring /\ walk'[r] = Candidates(entry.ring, start)
  <2>1. DOMAIN walk = Requests
    BY DEF NamesDiffer
  <2>2. DOMAIN ring = Requests
    BY DEF RingInv, Types
  <2> QED BY <1>1, <1>2, <2>1, <2>2 DEF Put
<1>4. entry.ring \in SUBSET Instances /\ OnePerName(entry.ring)
  <2>1. PICK v \in 1..Version : entry.ring = snapshots[v]
    BY DEF Published, IsRingOf
  <2>2. snapshots[v] \in SUBSET Instances
    BY DEF RingInv, Types, Version
  <2> QED BY <2>1, <2>2 DEF NamesDiffer
<1> QED BY <1>3, <1>4, CandidatesAreComplete

\* A walk that begins has every backend of its ring before it, once each
\* (candidates, ring.go:71).
THEOREM WalksAreComplete == Spec => WalkIsComplete
<1> DEFINE Step == \A r \in Requests :
                     (pc'[r] = "walk" /\ pc[r] # "walk")
                       => /\ Range(walk'[r]) = ring'[r]
                          /\ Len(walk'[r]) = Cardinality(ring'[r])
<1>1. ASSUME Init PROVE NamesDiffer
  <2>1. PICK names \in SUBSET Names : snapshots = <<{<<n, 1>> : n \in names}>>
    BY <1>1 DEF Init
  <2>2. Version = 1 /\ snapshots[1] = {<<n, 1>> : n \in names}
    BY <2>1 DEF Version
  <2>3. OnePerName(snapshots[1]) /\ OnePerName({})
    BY <2>2 DEF OnePerName
  <2>4. next = {} /\ walk = [r \in Requests |-> <<>>]
    BY <1>1 DEF Init
  <2>5. walk = [r \in Requests |-> walk[r]]
    BY <2>4
  <2>6. \A v \in 1..Version : v = 1
    BY <2>2
  <2> QED BY <2>3, <2>4, <2>5, <2>6 DEF NamesDiffer
<1>2. ASSUME RingInv, NamesDiffer, [Next]_vars PROVE NamesDiffer'
  <2>1. CASE UNCHANGED vars
    BY <1>2, <2>1 DEF vars, registry, call, NamesDiffer, Version, OnePerName
  <2> QED BY <1>2, <2>1, ReloadNames, RequestNames DEF Next
<1>3. ASSUME RingInv, NamesDiffer, Next PROVE Step
  <2>1. CASE MarkRemoved \/ Publish
    BY <2>1 DEF MarkRemoved, Publish
  <2>2. ASSUME NEW q \in Requests, Request(q) PROVE Step
    <3> SUFFICES ASSUME NEW r \in Requests, pc'[r] = "walk", pc[r] # "walk"
                 PROVE  /\ Range(walk'[r]) = ring'[r]
                        /\ Len(walk'[r]) = Cardinality(ring'[r])
      OBVIOUS
    <3>1. DOMAIN pc = Requests
      BY <1>3 DEF RingInv, Types
    <3>2. q = r
      BY <2>2, <3>1 DEF Request, Select, Scan, LoadCache, CheckVersion, TakeSnapshot, SwapCache,
         Walk, Fallback, NoHealthyBackends, Choose, Deny, Activate, Release, Return, Goto
    <3>3. \/ CheckVersion(r) /\ cached[r].version = Version
          \/ TakeSnapshot(r) /\ cached[r].version = Version
          \/ SwapCache(r) /\ cache = cached[r]
      BY <2>2, <3>1, <3>2 DEF Request, Select, Scan, LoadCache, CheckVersion, TakeSnapshot,
         SwapCache, Walk, Fallback, NoHealthyBackends, Choose, Deny, Activate, Release, Goto
    <3>4. PICK entry \in {cached[r], built[r]} : Published(entry) /\ Return(r, entry)
      <4>1. FreshAt(r)
        BY <1>3 DEF RingInv, RingsAreFresh
      <4> QED BY <3>3, <4>1 DEF CheckVersion, TakeSnapshot, SwapCache, FreshAt
    <3> QED BY <1>3, <3>4, ReturnWalks
  <2> QED BY <1>3, <2>1, <2>2 DEF Next
<1>4. RingInv /\ NamesDiffer /\ [Next]_vars => [Step]_vars
  BY <1>3
<1> QED BY <1>1, <1>2, <1>4, RingsPublished, PTL DEF Spec, WalkIsComplete
----------------------------------------------------------------------------
(* The capacity.                                                           *)

\* The element a fold of s takes next.
Pick(s) == CHOOSE x \in s : TRUE

\* f adds up the loads of the sets of D.
IsSum(f, D) ==
  f = [s \in D |-> IF s = {} THEN 0 ELSE f[s \ {Pick(s)}] + active[Pick(s)]]

\* The load of a set.
Total(set) == (CHOOSE f : IsSum(f, SUBSET set))[set]

\* The capacity of a set, from the sum of its loads.
LEMMA CapacityIs ==
  ASSUME NEW set
  PROVE  CapacityFor(set) =
           LET n == Cardinality(set)
               ceiling == (5 * Total(set) + 4 * n - 1) \div (4 * n)
           IN  IF ceiling < 1 THEN 1 ELSE ceiling
BY DEF CapacityFor, FoldSet, MapThenFoldSet, Total, IsSum, Pick

\* The n-th part of the subsets of set: those with at most n elements.
Upto(set, n) == {s \in SUBSET set : Cardinality(s) <= n}

\* A sum takes one element at a time.
LEMMA SumUnfolds ==
  ASSUME NEW D, NEW f, IsSum(f, D), NEW s \in D
  PROVE  f[s] = IF s = {} THEN 0 ELSE f[s \ {Pick(s)}] + active[Pick(s)]
BY DEF IsSum

\* Taking the picked element out of a non-empty finite set.
LEMMA PickedIsRemoved ==
  ASSUME NEW set, IsFiniteSet(set), NEW s \in SUBSET set, s # {}
  PROVE  /\ Pick(s) \in s /\ s \ {Pick(s)} \in SUBSET set
         /\ Cardinality(s) \in Nat /\ Cardinality(s \ {Pick(s)}) = Cardinality(s) - 1
         /\ Cardinality(s \ {Pick(s)}) \in Nat
<1>1. Pick(s) \in s
  BY DEF Pick
<1>2. IsFiniteSet(s)
  BY FS_Subset
<1>3. Cardinality(s \ {Pick(s)}) = Cardinality(s) - 1 /\ IsFiniteSet(s \ {Pick(s)})
  BY <1>1, <1>2, FS_RemoveElement
<1>4. Cardinality(s) \in Nat /\ Cardinality(s \ {Pick(s)}) \in Nat
  BY <1>2, <1>3, FS_CardinalityType
<1> QED BY <1>1, <1>3, <1>4

\* The sums of the subsets of a finite set exist, size by size.
LEMMA SumsExist ==
  ASSUME NEW set, IsFiniteSet(set)
  PROVE  \E f : IsSum(f, SUBSET set)
<1> DEFINE T == {n \in Nat : \E f : IsSum(f, Upto(set, n))}
<1>1. 0 \in T
  <2> DEFINE f == [s \in Upto(set, 0) |-> 0]
  <2>1. ASSUME NEW s \in Upto(set, 0) PROVE s = {}
    <3>1. IsFiniteSet(s) /\ s \in SUBSET set /\ Cardinality(s) <= 0
      BY <2>1, FS_Subset DEF Upto
    <3>2. Cardinality(s) \in Nat
      BY <3>1, FS_CardinalityType
    <3> QED BY <3>1, <3>2, FS_EmptySet
  <2>2. IsSum(f, Upto(set, 0))
    BY <2>1 DEF IsSum
  <2> QED BY <2>2
<1>2. ASSUME NEW n \in Nat, n \in T PROVE n + 1 \in T
  <2>1. PICK f : IsSum(f, Upto(set, n))
    BY <1>2
  <2> DEFINE g == [s \in Upto(set, n + 1) |->
                     IF s = {} THEN 0 ELSE f[s \ {Pick(s)}] + active[Pick(s)]]
  <2>2. ASSUME NEW s \in Upto(set, n + 1), s # {}
        PROVE  s \ {Pick(s)} \in Upto(set, n) /\ s \ {Pick(s)} \in Upto(set, n + 1)
    <3>1. s \in SUBSET set /\ Cardinality(s) <= n + 1
      BY <2>2 DEF Upto
    <3>2. /\ s \ {Pick(s)} \in SUBSET set
          /\ Cardinality(s) \in Nat /\ Cardinality(s \ {Pick(s)}) = Cardinality(s) - 1
      BY <2>2, <3>1, PickedIsRemoved
    <3> QED BY <3>1, <3>2 DEF Upto
  <2>3. ASSUME NEW s \in Upto(set, n), s \in Upto(set, n + 1) PROVE g[s] = f[s]
    BY <2>1, <2>3, SumUnfolds
  <2>4. ASSUME NEW s \in Upto(set, n + 1), s # {}
        PROVE  g[s] = g[s \ {Pick(s)}] + active[Pick(s)]
    BY <2>2, <2>3, <2>4
  <2>5. IsSum(g, Upto(set, n + 1))
    <3>1. \A s \in Upto(set, n + 1) :
            g[s] = IF s = {} THEN 0 ELSE g[s \ {Pick(s)}] + active[Pick(s)]
      BY <2>4
    <3>2. g = [s \in Upto(set, n + 1) |-> g[s]]
      OBVIOUS
    <3> HIDE DEF g
    <3> QED BY <3>1, <3>2 DEF IsSum
  <2> QED BY <2>5
<1>3. Nat \subseteq T
  BY <1>1, <1>2, SetInduction
<1>4. Cardinality(set) \in Nat /\ Upto(set, Cardinality(set)) = SUBSET set
  <2>1. \A s \in SUBSET set : Cardinality(s) <= Cardinality(set)
    BY FS_Subset
  <2> QED BY <2>1, FS_CardinalityType DEF Upto
<1> QED BY <1>3, <1>4

\* The sum is a number, and when each element counts for at least m, it is at
\* least m for each.
LEMMA SumIsAtLeast ==
  ASSUME NEW set, IsFiniteSet(set), NEW m \in Int, \A i \in set : active[i] \in Int
  PROVE  /\ Total(set) \in Int
         /\ (\A i \in set : active[i] >= m) => Total(set) >= m * Cardinality(set)
<1> DEFINE f == CHOOSE f : IsSum(f, SUBSET set)
           Bounded == \A i \in set : active[i] >= m
           T == {n \in Nat : \A s \in Upto(set, n) :
                               f[s] \in Int /\ (Bounded => f[s] >= m * Cardinality(s))}
<1>1. IsSum(f, SUBSET set)
  BY SumsExist
<1> HIDE DEF f
<1>2. ASSUME NEW s \in SUBSET set, s = {} PROVE f[s] \in Int /\ f[s] >= m * Cardinality(s)
  <2>1. f[s] = 0 /\ Cardinality(s) = 0
    BY <1>1, <1>2, SumUnfolds, FS_EmptySet
  <2> QED BY <2>1
<1>3. 0 \in T
  <2> SUFFICES ASSUME NEW s \in Upto(set, 0) PROVE s = {} /\ s \in SUBSET set
    BY <1>2
  <2>1. IsFiniteSet(s) /\ s \in SUBSET set /\ Cardinality(s) <= 0
    BY FS_Subset DEF Upto
  <2>2. Cardinality(s) \in Nat
    BY <2>1, FS_CardinalityType
  <2> QED BY <2>1, <2>2, FS_EmptySet
<1>4. ASSUME NEW n \in Nat, n \in T PROVE n + 1 \in T
  <2> SUFFICES ASSUME NEW s \in Upto(set, n + 1), s # {}
               PROVE  f[s] \in Int /\ (Bounded => f[s] >= m * Cardinality(s))
    BY <1>2 DEF Upto
  <2> DEFINE t == s \ {Pick(s)}
             c == Cardinality(s)
             d == Cardinality(t)
  <2>1. s \in SUBSET set /\ c <= n + 1
    BY DEF Upto
  <2>2. Pick(s) \in s /\ t \in SUBSET set /\ c \in Nat /\ d = c - 1 /\ d \in Nat
    BY <2>1, PickedIsRemoved
  <2>3. t \in Upto(set, n)
    BY <2>1, <2>2 DEF Upto
  <2>4. f[t] \in Int /\ (Bounded => f[t] >= m * d)
    BY <1>4, <2>3
  <2>5. f[s] = f[t] + active[Pick(s)]
    BY <1>1, <2>1, SumUnfolds
  <2>6. active[Pick(s)] \in Int /\ (Bounded => active[Pick(s)] >= m)
    BY <2>1, <2>2
  <2>7. m * c = m * d + m /\ m * c \in Int /\ m * d \in Int
    <3> HIDE DEF c, d
    <3> QED BY <2>2
  <2> HIDE DEF c, d, t
  <2> QED BY <2>4, <2>5, <2>6, <2>7 DEF c
<1>5. Nat \subseteq T
  BY <1>3, <1>4, SetInduction
<1>6. Cardinality(set) \in Nat /\ set \in Upto(set, Cardinality(set))
  BY FS_CardinalityType DEF Upto
<1>7. f[set] \in Int /\ (Bounded => f[set] >= m * Cardinality(set))
  BY <1>5, <1>6
<1> QED BY <1>7 DEF Total, f

\* What is more than 5/4 of a mean of n, rounded up, is more than the mean.
LEMMA CeilingCovers ==
  ASSUME NEW n \in Int, n > 0, NEW total \in Int, NEW cap \in Int, cap >= 1,
         (5 * total + 4 * n - 1) \div (4 * n) <= cap
  PROVE  total < n * (cap + 1)
<1> DEFINE a == 5 * total + 4 * n - 1
           b == 4 * n
           q == a \div b
           r == a % b
           p == n * cap
<1>1. a \in Int /\ b \in Int /\ b > 0
  OBVIOUS
<1>2. a = q * b + r /\ q \in Int /\ r \in 0..(b - 1)
  <2> HIDE DEF a, b
  <2>1. a = (a \div b) * b + (a % b) /\ a \div b \in Int /\ a % b \in 0..(b - 1)
    <3>1. a = (a \div b) * b + (a % b)
      BY <1>1, Z3
    <3> QED BY <1>1, <3>1
  <2> QED BY <2>1
<1>3. q <= cap
  OBVIOUS
<1> HIDE DEF q, r
<1>4. q * b <= cap * b
  <2> HIDE DEF b
  <2> QED BY <1>1, <1>2, <1>3
<1>5. cap * b = 4 * p /\ p \in Int /\ p > 0
  OBVIOUS
<1>6. n * (cap + 1) = p + n
  OBVIOUS
<1> HIDE DEF p
<1>7. 5 * total <= 4 * p
  BY <1>2, <1>4, <1>5
<1> QED BY <1>5, <1>6, <1>7

\* Of any non-empty set of backends one is within the capacity of the set: the
\* mean never exceeds 5/4 of it, rounded up (Select, consistent_hash.go:104).
LEMMA SomeoneIsWithin ==
  ASSUME NEW set, IsFiniteSet(set), set # {}, \A i \in set : active[i] \in Int
  PROVE  \E i \in set : active[i] <= CapacityFor(set)
<1> DEFINE n == Cardinality(set)
           total == Total(set)
           ceiling == (5 * total + 4 * n - 1) \div (4 * n)
           cap == CapacityFor(set)
<1> SUFFICES ASSUME \A i \in set : ~(active[i] <= cap) PROVE FALSE
  OBVIOUS
<1>1. n \in Int /\ n > 0
  BY FS_CardinalityType, FS_EmptySet
<1>2. total \in Int
  BY SumIsAtLeast, 0 \in Int
<1>3. cap = IF ceiling < 1 THEN 1 ELSE ceiling
  BY CapacityIs
<1> HIDE DEF n, total, cap
<1>4. ceiling \in Int
  BY <1>1, <1>2
<1>5. cap \in Int /\ cap >= 1 /\ ceiling <= cap
  <2> HIDE DEF ceiling
  <2> QED BY <1>3, <1>4
<1>6. total < n * (cap + 1)
  BY <1>1, <1>2, <1>5, CeilingCovers
<1>7. total >= (cap + 1) * n
  <2>1. \A i \in set : active[i] >= cap + 1
    BY <1>5
  <2>2. cap + 1 \in Int
    BY <1>5
  <2> QED BY <2>1, <2>2, SumIsAtLeast DEF n, total
<1> QED BY <1>1, <1>2, <1>5, <1>6, <1>7

\* Loads are numbers.
LoadsAreNumbers == active \in [Instances -> Int]

\* There are finitely many backends, since each name owns a position.
LEMMA BackendsAreFinite == ASSUME NEW set \in SUBSET Instances PROVE IsFiniteSet(set)
<1>1. IsFiniteSet(Names)
  <2>1. VNodes \in [1..Len(VNodes) -> Names] /\ Len(VNodes) \in Nat /\ Range(VNodes) = Names
    BY VNodesAssumption
  <2>2. IsFiniteSet(1..Len(VNodes))
    BY <2>1, FS_Interval
  <2>3. VNodes \in Surjection(1..Len(VNodes), Names)
    BY <2>1 DEF Surjection, Range
  <2> QED BY <2>2, <2>3, FS_Surjection
<1>2. IsFiniteSet(1..MaxVersion)
  BY FS_Interval, MaxVersionAssumption
<1>3. IsFiniteSet(Instances)
  BY <1>1, <1>2, FS_Product DEF Instances
<1> QED BY <1>3, FS_Subset

\* Whatever the loads are, a selectable set has a backend within its capacity.
THEOREM CapacityHasRoom == Spec => []CapacityLeavesRoom
<1>1. Init => LoadsAreNumbers
  <2> SUFFICES ASSUME Init PROVE active \in [Instances -> Int]
    BY DEF LoadsAreNumbers
  <2>1. active \in [Instances -> 0..Streams]
    BY DEF Init
  <2> QED BY <2>1, StreamsAssumption
<1>2. LoadsAreNumbers /\ [Next]_vars => LoadsAreNumbers'
  <2> SUFFICES ASSUME LoadsAreNumbers, [Next]_vars PROVE LoadsAreNumbers'
    OBVIOUS
  <2>1. ASSUME NEW r \in Requests, Activate(r) \/ Release(r) PROVE LoadsAreNumbers'
    <3>1. \/ active' = [active EXCEPT ![chosen[r]] = active[chosen[r]] + 1]
          \/ active' = [active EXCEPT ![chosen[r]] = active[chosen[r]] - 1]
      BY <2>1 DEF Activate, Release
    <3> QED BY <3>1 DEF LoadsAreNumbers
  <2>2. CASE UNCHANGED active
    BY <2>2 DEF LoadsAreNumbers
  <2> QED BY <2>1, <2>2
          DEF Next, MarkRemoved, Publish, Request, Scan, Select, LoadCache, CheckVersion,
              TakeSnapshot, SwapCache, Walk, Fallback, NoHealthyBackends, Choose, Deny, vars
<1>3. LoadsAreNumbers /\ RingInv => CapacityLeavesRoom
  <2> SUFFICES ASSUME LoadsAreNumbers, RingInv, NEW set \in (SUBSET Fleet) \ {{}}
               PROVE  \E i \in set : active[i] <= CapacityFor(set)
    BY DEF CapacityLeavesRoom
  <2>1. Fleet \in SUBSET Instances
    BY DEF RingInv, Types, Fleet, Version
  <2>2. set \in SUBSET Instances /\ set # {}
    BY <2>1
  <2>3. \A i \in set : active[i] \in Int
    BY <2>2 DEF LoadsAreNumbers
  <2> QED BY <2>2, <2>3, BackendsAreFinite, SomeoneIsWithin
<1> QED BY <1>1, <1>2, <1>3, RingsPublished, PTL DEF Spec
=============================================================================
