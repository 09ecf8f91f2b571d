---------------------------- MODULE FleetProofs ----------------------------
(***************************************************************************)
(* Theorems about Fleet, for every set of names and of requests and every  *)
(* bound on the instances.                                                 *)
(***************************************************************************)
EXTENDS Fleet, FiniteSetTheorems, TLAPS

\* A request that is under way is on an instance.
OnInstance == \A r \in Requests : pc[r] # "idle" => on[r] \in Instances

\* The requests in flight on an instance can be counted, and have been.
Counts ==
  \A i \in Instances : IsFiniteSet(On(i, Counted)) /\ active[i] = Cardinality(On(i, Counted))

RequestInv == TypeOK /\ OnInstance /\ Counts

----------------------------------------------------------------------------
(* The reload.                                                             *)

BeforeSwap == {"mark", "swap"}
Unhooking  == {"forget", "unseries", "drain"}

\* What the snapshot is once the reload in progress has swapped it.
Target == IF reload \in BeforeSwap THEN work ELSE fleet

\* What has begun to be unhooked.
Begun(steps) == IF reload \in steps THEN work ELSE {}

\* i is still to be seeded.
Awaited(i) == i \in adding /\ reload # "ready" /\ (reload = "seed" => i \in work)

WasBuilt(i) == i[2] <= made[i[1]]

\* A drain is of an instance that has left for good, and only a drain retires.
DrainsAreOfTheGone ==
  /\ \A i \in Instances : drain[i] # "none" => i \notin fleet \union Target /\ WasBuilt(i)
  /\ \A i \in retired : drain[i] # "none"

\* The plan of the reload: a name has one backend, a backend removed is not in
\* the new snapshot, and its name only with a backend that is added.
PlanIsSound ==
  /\ \A i \in fleet \union Target \union removing : WasBuilt(i)
  /\ \A i, j \in Target : i[1] = j[1] => i = j
  /\ adding \subseteq Target /\ removing \intersect Target = {}
  /\ \A i \in removing, j \in Target : i[1] = j[1] => j \in adding
  /\ reload \in BeforeSwap => fleet = (Target \ adding) \union removing

\* How far the reload is with it.
Progress ==
  /\ reload \in Unhooking => work \subseteq removing
  /\ reload = "seed" => work \subseteq adding
  /\ reload \in {"seed", "ready"} => removing = {}
  /\ reload = "ready" => adding = {}

ProbersFollow == probers = ((Target \ adding) \union removing) \ Begun(Unhooking)

SeriesFollow ==
  \A i \in Target : (i[1] \in healthSeries /\ i[1] \in circuitSeries) \/ Awaited(i)

ReloadInv == PlanIsSound /\ Progress /\ DrainsAreOfTheGone /\ ProbersFollow /\ SeriesFollow

\* What leaves the fleet is marked removed first, so a request is on a backend
\* of the fleet or on a removed one.
LeaversAreMarked ==
  /\ reload # "mark" => removing \subseteq removed
  /\ \A r \in Requests : pc[r] # "idle" => on[r] \in fleet \union removed

\* What is kept for a backend that is not in the fleet.
Leftovers ==
  /\ windows \subseteq fleet \union late \union (removing \ Begun({"unseries", "drain"}))
  /\ \A n \in healthSeries \union circuitSeries :
       \E i \in fleet \union late \union (removing \ Begun({"drain"})) : i[1] = n

LeftoversInv == LeaversAreMarked /\ Leftovers

\* A drain past its wait has no slot to wait for, and one that is to delete the
\* series found the name unused, unless the name is marked.
DrainsAreDue ==
  \A i \in Instances :
    i[1] \in raced \/ /\ drain[i] \in {"check", "delete"} => On(i, Counted) = {}
                      /\ drain[i] = "delete" => ~InUse(i[1])

\* The series of the active requests.
GaugeInv ==
  /\ \A n \in Names \ raced :
       IsFiniteSet(Holding(n)) /\ gauge[n] = Cardinality(Holding(n))
  /\ reload \in BeforeSwap => removedNames \subseteq {i[1] : i \in fleet}
  /\ \A i \in Target : i[1] \in raced \union gauged
                         \/ (Awaited(i) /\ i[1] \notin removedNames)

----------------------------------------------------------------------------
(* Counting the requests.                                                  *)

\* One request more, or one less, in a finite set of requests.
LEMMA CountJoin ==
  ASSUME NEW S, IsFiniteSet(S), NEW r, r \notin S
  PROVE  /\ IsFiniteSet(S \union {r})
         /\ Cardinality(S \union {r}) = Cardinality(S) + 1
         /\ Cardinality(S) \in Nat
  BY FS_AddElement, FS_CardinalityType

\* One request less.
LEMMA CountLeave ==
  ASSUME NEW S, IsFiniteSet(S), NEW r \in S
  PROVE  /\ IsFiniteSet(S \ {r})
         /\ Cardinality(S \ {r}) = Cardinality(S) - 1
         /\ Cardinality(S \ {r}) \in Nat
  BY FS_RemoveElement, FS_CardinalityType

\* No request.
LEMMA CountNone == IsFiniteSet({}) /\ Cardinality({}) = 0
  BY FS_EmptySet

\* The actions that leave the requests and their counts alone.
LEMMA RequestsRest ==
  ASSUME RequestInv, UNCHANGED <<active, request>>, TypeOK'
  PROVE  RequestInv'
  BY DEF RequestInv, OnInstance, Counts, On, request

\* At the start no slot is taken.
LEMMA RequestInit == Init => RequestInv
<1> SUFFICES ASSUME Init PROVE RequestInv
  OBVIOUS
<1>1. TypeOK
  <2>1. \A n \in StartNames : <<n, 1>> \in Instances
    BY StartNamesAssumption, MaxInstancesAssumption DEF Instances
  <2>2. /\ fleet \subseteq Instances /\ probers \subseteq Instances
    BY <2>1 DEF Init
  <2>3. made \in [Names -> 0..MaxInstances]
    BY MaxInstancesAssumption DEF Init
  <2>4. /\ pc \in [Requests -> Steps]
        /\ on \in [Requests -> Instances \union {None}]
        /\ drain \in [Instances -> DrainSteps]
        /\ active \in [Instances -> Nat]
        /\ gauge \in [Names -> Int]
    BY DEF Init, Steps, DrainSteps
  <2> QED
    BY <2>2, <2>3, <2>4, StartNamesAssumption DEF Init, TypeOK, ReloadSteps
<1>2. OnInstance
  BY DEF Init, OnInstance
<1>3. \A i \in Instances : On(i, Counted) = {}
  BY DEF Init, On, Counted, HasGauge
<1>4. Counts
  BY <1>3, CountNone DEF Init, Counts
<1> QED
  BY <1>1, <1>2, <1>4 DEF RequestInv

\* A request moves between two steps of which both are counted, or neither.
LEMMA SameCount ==
  ASSUME RequestInv, NEW r \in Requests, NEW to \in Steps,
         pc' = [pc EXCEPT ![r] = to], active' = active,
         \/ on' = on /\ (pc[r] \in Counted <=> to \in Counted)
         \/ pc[r] \notin Counted /\ to \notin Counted
            /\ \E i : on' = [on EXCEPT ![r] = i]
  PROVE  Counts'
<1> SUFFICES ASSUME NEW i \in Instances PROVE On(i, Counted)' = On(i, Counted)
  BY DEF RequestInv, Counts
<1> QED
  BY DEF RequestInv, TypeOK, On

\* activate() counts one request more (proxy.go).
LEMMA IncActiveCounts ==
  ASSUME RequestInv, NEW r \in Requests, IncActive(r)
  PROVE  Counts' /\ active' \in [Instances -> Nat]
<1> USE DEF RequestInv, TypeOK, IncActive, Goto
<1>1. PICK k \in Instances : on[r] = k
  BY DEF OnInstance
<1>2. ASSUME NEW i \in Instances, i # k
      PROVE  On(i, Counted)' = On(i, Counted) /\ active'[i] = active[i]
  BY <1>1, <1>2 DEF On, RequestKeeps
<1>3. /\ On(k, Counted)' = On(k, Counted) \union {r}
      /\ r \notin On(k, Counted)
      /\ active'[k] = active[k] + 1
  BY <1>1 DEF On, Counted, HasGauge, RequestKeeps
<1>4. IsFiniteSet(On(k, Counted)) /\ active[k] = Cardinality(On(k, Counted))
  BY DEF Counts
<1>5. /\ IsFiniteSet(On(k, Counted)')
      /\ active'[k] = Cardinality(On(k, Counted)')
      /\ active'[k] \in Nat
  BY <1>3, <1>4, CountJoin
<1>6. Counts'
  BY <1>2, <1>5 DEF Counts
<1> QED
  BY <1>1, <1>5, <1>6

\* release() uncounts it, and found it counted.
LEMMA DecActiveCounts ==
  ASSUME RequestInv, NEW r \in Requests, DecActive(r)
  PROVE  Counts' /\ active' \in [Instances -> Nat]
<1> USE DEF RequestInv, TypeOK, DecActive, Goto
<1>1. PICK k \in Instances : on[r] = k
  BY DEF OnInstance
<1>2. ASSUME NEW i \in Instances, i # k
      PROVE  On(i, Counted)' = On(i, Counted) /\ active'[i] = active[i]
  BY <1>1, <1>2 DEF On, RequestKeeps
<1>3. /\ On(k, Counted)' = On(k, Counted) \ {r}
      /\ r \in On(k, Counted)
      /\ active'[k] = active[k] - 1
  BY <1>1 DEF On, Counted, HasGauge, RequestKeeps
<1>4. IsFiniteSet(On(k, Counted)) /\ active[k] = Cardinality(On(k, Counted))
  BY DEF Counts
<1>5. /\ IsFiniteSet(On(k, Counted)')
      /\ active'[k] = Cardinality(On(k, Counted)')
      /\ active'[k] \in Nat
  <2> HIDE DEF RequestInv, TypeOK, DecActive
  <2> QED BY <1>3, <1>4, CountLeave
<1>6. Counts'
  BY <1>2, <1>5 DEF Counts
<1> QED
  BY <1>1, <1>5, <1>6

\* What every step of a request but activate() and release() leaves exact.
LEMMA RequestStep ==
  ASSUME RequestInv, NEW r \in Requests, Request(r)
  PROVE  RequestInv'
<1> USE DEF RequestInv, TypeOK, Steps, Counted, HasGauge
<1>1. pc[r] # "idle" => on[r] \in Instances /\ on[r][1] \in Names
  BY DEF OnInstance, Instances
<1>2. CASE Select(r)
  <2>1. PICK i \in fleet \ adding : on' = [on EXCEPT ![r] = i]
    BY <1>2 DEF Select
  <2>2. Counts'
    BY <1>2, <2>1, SameCount DEF Select, Goto
  <2> QED
    BY <1>2, <2>1, <2>2 DEF Select, Goto, RequestKeeps, OnInstance,
       registry, series, reloader, history
<1>3. CASE Deny(r) \/ DecGauge(r)
  <2>1. Counts'
    BY <1>3, SameCount DEF Deny, DecGauge, Finish, Goto
  <2> QED
    BY <1>1, <1>3, <2>1 DEF Deny, DecGauge, Finish, Goto, Gauge, RequestKeeps, OnInstance,
       registry, series, reloader, history
<1>4. CASE IncActive(r)
  <2>1. Counts' /\ active' \in [Instances -> Nat]
    BY <1>4, IncActiveCounts
  <2>2. raced' \subseteq Names
    BY <1>1, <1>4 DEF IncActive, Race
  <2> QED
    BY <1>1, <1>4, <2>1, <2>2
    DEF IncActive, Goto, RequestKeeps, OnInstance, registry, series, reloader
<1>5. CASE DecActive(r)
  BY <1>1, <1>5, DecActiveCounts
  DEF DecActive, Goto, RequestKeeps, OnInstance, registry, series, reloader, history
<1>6. CASE IncGauge(r)
  <2>1. Counts'
    BY <1>6, SameCount DEF IncGauge, Goto
  <2> QED
    BY <1>1, <1>6, <2>1 DEF IncGauge, Goto, Gauge, RequestKeeps, OnInstance,
       registry, series, reloader, history
<1>7. CASE ObserveOutlier(r) \/ ObserveCircuit(r)
  <2>1. Counts'
    BY <1>7, SameCount DEF ObserveOutlier, ObserveCircuit, Goto
  <2> QED
    BY <1>1, <1>7, <2>1 DEF ObserveOutlier, ObserveCircuit, Told, Goto, RequestKeeps,
       OnInstance, registry, series, reloader, history
<1>8. CASE Relay(r) \/ Respond(r)
  <2>1. Counts'
    BY <1>8, SameCount DEF Relay, Respond, RoundTrip, ClientGone, CloseBody, Goto
  <2> QED
    BY <1>1, <1>8, <2>1 DEF Relay, Respond, RoundTrip, ClientGone, CloseBody, Goto, RequestKeeps,
       OnInstance, registry, series, reloader, history
<1> QED
  BY <1>2, <1>3, <1>4, <1>5, <1>6, <1>7, <1>8 DEF Request, Proceed

\* The choices of StartReload, and what it makes of them.
Plan(keep, fresh) ==
  /\ \A n \in fresh : made[n] < MaxInstances /\ \A i \in keep : i[1] # n
  /\ work' = keep \union {<<n, made[n] + 1>> : n \in fresh}
  /\ adding' = {<<n, made[n] + 1>> : n \in fresh}
  /\ removing' = fleet \ keep
  /\ made' = [n \in Names |-> IF n \in fresh THEN made[n] + 1 ELSE made[n]]
  /\ removedNames' = {i[1] : i \in fleet \ keep}

\* A reload that starts has a plan.
LEMMA ReloadHasPlan ==
  ASSUME StartReload
  PROVE  \E keep \in SUBSET fleet, fresh \in SUBSET Names : Plan(keep, fresh)
  BY DEF StartReload, Plan

\* The instances a reload builds are new members of their bounded set.
LEMMA StartReloadTypes ==
  ASSUME TypeOK, StartReload
  PROVE  TypeOK'
<1> USE DEF TypeOK
<1>1. PICK keep \in SUBSET fleet, fresh \in SUBSET Names : Plan(keep, fresh)
  BY ReloadHasPlan
<1> USE <1>1 DEF Plan
<1>2. \A n \in fresh : <<n, made[n] + 1>> \in Instances
  BY <1>1, MaxInstancesAssumption DEF Instances
<1>3. made' \in [Names -> 0..MaxInstances]
  BY <1>1, MaxInstancesAssumption
<1>4. removedNames' \subseteq Names
  BY <1>1 DEF Instances
<1>5. work' \subseteq Instances /\ adding' \subseteq Instances /\ removing' \subseteq Instances
  BY <1>1, <1>2
<1> QED
  BY <1>3, <1>4, <1>5
  DEF StartReload, ReloadKeeps, series, request, ReloadSteps

\* The steps of a reload keep the types.
LEMMA ReloadStepTypes ==
  ASSUME TypeOK, ReloadStep
  PROVE  TypeOK'
<1> USE DEF TypeOK, ReloadSteps, ReloadKeeps, registry, series, request
<1>1. CASE MarkRemoved \/ Unhooked \/ StartProbers
  BY <1>1 DEF MarkRemoved, Unhooked, StartProbers
<1>2. CASE SwapSnapshot
  <2>1. raced' \subseteq Names
    BY <1>2 DEF SwapSnapshot, Race, Instances
  <2> QED
    BY <1>2, <2>1 DEF SwapSnapshot
<1>3. ASSUME NEW i \in Instances,
             Unhook(i) \/ Forget(i) \/ DeleteSeries(i) \/ StartDrain(i)
      PROVE  TypeOK'
  BY <1>3 DEF Unhook, Forget, DeleteSeries, StartDrain, DrainSteps
<1>4. ASSUME NEW i \in Instances, Seed(i) PROVE TypeOK'
  <2>1. i[1] \in Names
    BY DEF Instances
  <2> QED
    BY <1>4, <2>1 DEF Seed, SeedRaces, Race, Gauge
<1> QED
  BY <1>1, <1>2, <1>3, <1>4 DEF ReloadStep

\* So do those of a drain.
LEMMA DrainTypes ==
  ASSUME TypeOK, NEW i \in Instances, Drain(i)
  PROVE  TypeOK'
<1>1. i[1] \in Names
  BY DEF Instances
<1> USE DEF TypeOK, DrainSteps, DrainKeeps, DrainTo, registry, reloader, request
<1>2. CASE DrainIdle(i) \/ DrainWindowExpires(i) \/ Retire(i) \/ DrainAborted(i)
  BY <1>2 DEF DrainIdle, DrainWindowExpires, Retire, DrainAborted
<1>3. CASE CheckName(i)
  BY <1>3 DEF CheckName
<1>4. CASE DeleteActive(i)
  BY <1>1, <1>4 DEF DeleteActive, Race
<1> QED
  BY <1>2, <1>3, <1>4 DEF Drain

\* The types hold, and the count of each backend is that of its requests.
THEOREM RequestsCorrect == Spec => []RequestInv
<1>1. RequestInv /\ [Next]_vars => RequestInv'
  <2> SUFFICES ASSUME RequestInv, [Next]_vars PROVE RequestInv'
    OBVIOUS
  <2>1. CASE StartReload
    BY <2>1, StartReloadTypes, RequestsRest DEF StartReload, ReloadKeeps, RequestInv
  <2>2. CASE ReloadStep
    <3>1. UNCHANGED <<active, request>>
      BY <2>2 DEF ReloadStep, ReloadKeeps, MarkRemoved, SwapSnapshot, Unhooked, StartProbers,
         Unhook, Forget, DeleteSeries, StartDrain, Seed
    <3> QED
      BY <2>2, <3>1, ReloadStepTypes, RequestsRest DEF RequestInv
  <2>3. CASE Stop \/ UNCHANGED vars
    <3>1. TypeOK'
      BY <2>3 DEF RequestInv, TypeOK, Stop, vars, registry, series, request, reloader, history
    <3> QED
      BY <2>3, <3>1, RequestsRest DEF Stop, vars
  <2>4. ASSUME NEW r \in Requests, Request(r) PROVE RequestInv'
    BY <2>4, RequestStep
  <2>5. ASSUME NEW i \in Instances, Drain(i) PROVE RequestInv'
    <3>1. UNCHANGED <<active, request>>
      BY <2>5 DEF Drain, DrainKeeps, DrainIdle, DrainWindowExpires, Retire, DrainAborted,
         CheckName, DeleteActive
    <3> QED
      BY <2>5, <3>1, DrainTypes, RequestsRest DEF RequestInv
  <2> QED
    BY <2>1, <2>2, <2>3, <2>4, <2>5 DEF Next
<1> QED
  BY <1>1, RequestInit, PTL DEF Spec

\* The types hold, whatever is reloaded, drained and served meanwhile.
THEOREM TypeCorrect == Spec => []TypeOK
  BY RequestsCorrect, PTL DEF RequestInv

\* The slots taken on an instance are the requests that hold one, so a drain
\* that waits for the count waits for them (activate and release, proxy.go).
THEOREM SlotsExact == Spec => []ActiveExact
<1>1. RequestInv => ActiveExact
  BY DEF RequestInv, Counts, ActiveExact
<1> QED
  BY <1>1, RequestsCorrect, PTL

----------------------------------------------------------------------------
(* The reload and the drains.                                              *)

\* The startup fleet is served.
LEMMA ReloadInit == Init => ReloadInv
<1> SUFFICES ASSUME Init PROVE ReloadInv
  OBVIOUS
<1> USE DEF Init, Target, BeforeSwap
<1>1. PlanIsSound
  BY StartNamesAssumption DEF PlanIsSound, WasBuilt
<1>2. Progress /\ ProbersFollow
  BY DEF Progress, ProbersFollow, Begun, Unhooking
<1>3. DrainsAreOfTheGone /\ SeriesFollow
  BY DEF DrainsAreOfTheGone, SeriesFollow
<1> QED
  BY <1>1, <1>2, <1>3 DEF ReloadInv

\* A step that leaves the reload alone, adds series if any, and takes a drain
\* further or not.
LEMMA ReloadRest ==
  ASSUME TypeOK, ReloadInv,
         UNCHANGED <<fleet, made, probers, reloader>>,
         healthSeries \subseteq healthSeries', circuitSeries \subseteq circuitSeries',
         \A i \in Instances : drain'[i] # "none" <=> drain[i] # "none",
         retired' \subseteq Instances, \A i \in retired' : drain[i] # "none"
  PROVE  ReloadInv'
<1> USE DEF ReloadInv, reloader, Target, BeforeSwap
<1>1. PlanIsSound' /\ Progress' /\ ProbersFollow'
  BY DEF PlanIsSound, WasBuilt, Progress, ProbersFollow, Begun, Unhooking
<1>2. DrainsAreOfTheGone'
  BY DEF DrainsAreOfTheGone, WasBuilt
<1>3. SeriesFollow'
  BY DEF SeriesFollow, Awaited
<1> QED
  BY <1>1, <1>2, <1>3

\* Requests take no part in a reload.
LEMMA RequestReload ==
  ASSUME TypeOK, ReloadInv, NEW r \in Requests, Request(r)
  PROVE  ReloadInv'
<1>1. RequestKeeps
  BY DEF Request, Proceed, Relay, Respond, Select, Deny, IncActive, IncGauge, RoundTrip, ClientGone,
     ObserveOutlier, ObserveCircuit, CloseBody, DecActive, DecGauge
<1>2. healthSeries \subseteq healthSeries' /\ circuitSeries \subseteq circuitSeries'
  BY DEF Request, Proceed, Relay, Respond, Select, Deny, IncActive, IncGauge, RoundTrip, ClientGone,
     ObserveOutlier, ObserveCircuit, CloseBody, DecActive, DecGauge, series
<1>3. retired' \subseteq Instances /\ \A i \in retired' : drain[i] # "none"
  BY <1>1 DEF RequestKeeps, TypeOK, ReloadInv, DrainsAreOfTheGone
<1> QED
  BY <1>1, <1>2, <1>3, ReloadRest DEF RequestKeeps, registry

\* A drain retires only an instance that has left for good.
LEMMA DrainReload ==
  ASSUME TypeOK, ReloadInv, NEW i \in Instances, Drain(i)
  PROVE  ReloadInv'
<1>1. DrainKeeps
  BY DEF Drain, DrainIdle, DrainWindowExpires, Retire, DrainAborted, CheckName, DeleteActive
<1>2. drain[i] # "none" /\ \E step \in DrainSteps \ {"none"} : DrainTo(i, step)
  BY DEF Drain, DrainIdle, DrainWindowExpires, Retire, DrainAborted, CheckName, DeleteActive,
     DrainSteps
<1>3. \A j \in Instances : drain'[j] # "none" <=> drain[j] # "none"
  BY <1>2 DEF DrainTo, TypeOK
<1>4. retired' = retired \/ retired' = retired \union {i}
  BY DEF Drain, DrainIdle, DrainWindowExpires, Retire, DrainAborted, CheckName, DeleteActive
<1>5. retired' \subseteq Instances /\ \A j \in retired' : drain[j] # "none"
  BY <1>2, <1>4 DEF TypeOK, ReloadInv, DrainsAreOfTheGone
<1> QED
  BY <1>1, <1>3, <1>5, ReloadRest DEF DrainKeeps, registry

\* Apply plans on a fleet at rest: what it builds is new, and what it drops is
\* not in the plan.
LEMMA StartReloadPlans ==
  ASSUME TypeOK, ReloadInv, StartReload
  PROVE  ReloadInv'
<1> USE DEF ReloadInv
<1>1. PICK keep \in SUBSET fleet, fresh \in SUBSET Names : Plan(keep, fresh)
  BY ReloadHasPlan
<1> USE <1>1 DEF Plan
<1>2. /\ reload = "ready" /\ reload' = "mark" /\ Target = fleet /\ Target' = work'
      /\ UNCHANGED <<fleet, probers, healthSeries, circuitSeries, drain, retired>>
  BY DEF StartReload, ReloadKeeps, series, Target, BeforeSwap
<1>3. /\ \A i \in Instances : WasBuilt(i) => WasBuilt(i)'
      /\ \A i \in adding' : i[1] \in fresh /\ i[2] = made[i[1]] + 1 /\ ~WasBuilt(i) /\ WasBuilt(i)'
  BY <1>1, StartReloadTypes DEF TypeOK, Instances, WasBuilt
<1>4. \A i \in fleet : WasBuilt(i)
  BY DEF PlanIsSound
<1>5. adding' \intersect fleet = {}
  BY <1>3, <1>4
<1>6. PlanIsSound'
  <2>1. \A i \in (fleet \union Target \union removing)' : WasBuilt(i)'
    BY <1>1, <1>2, <1>3, <1>4 DEF TypeOK
  <2>2. \A i, j \in Target' : i[1] = j[1] => i = j
    <3> SUFFICES ASSUME NEW i \in Target', NEW j \in Target', i[1] = j[1] PROVE i = j
      OBVIOUS
    <3>1. CASE i \in keep /\ j \in keep
      BY <3>1, <1>2 DEF PlanIsSound
    <3>2. CASE i \in adding' /\ j \in adding'
      BY <3>2, <1>1
    <3> QED
      BY <3>1, <3>2, <1>1, <1>2, <1>3
  <2>3. (adding \subseteq Target)' /\ (removing \intersect Target = {})'
    BY <1>1, <1>2, <1>5
  <2>4. \A i \in removing', j \in Target' : i[1] = j[1] => j \in adding'
    BY <1>1, <1>2 DEF PlanIsSound
  <2>5. (fleet = (Target \ adding) \union removing)'
    BY <1>1, <1>2, <1>5
  <2> QED
    BY <2>1, <2>2, <2>3, <2>4, <2>5 DEF PlanIsSound
<1>7. Progress'
  BY <1>2 DEF Progress, Unhooking
<1>8. DrainsAreOfTheGone'
  <2> SUFFICES ASSUME NEW i \in Instances, drain[i] # "none"
               PROVE  i \notin fleet \union work' /\ WasBuilt(i)'
    BY <1>2 DEF DrainsAreOfTheGone
  <2>1. i \notin fleet /\ WasBuilt(i)
    BY DEF DrainsAreOfTheGone
  <2> QED
    BY <2>1, <1>1, <1>3
<1>9. ProbersFollow'
  BY <1>1, <1>2, <1>5 DEF ProbersFollow, Progress, Begun, Unhooking
<1>10. SeriesFollow'
  BY <1>1, <1>2 DEF SeriesFollow, Awaited
<1> QED
  BY <1>6, <1>7, <1>8, <1>9, <1>10

\* Every later step of the reload leaves the drains to themselves but for the
\* one it starts.
LEMMA ReloadStepReload ==
  ASSUME TypeOK, ReloadInv, ReloadStep
  PROVE  ReloadInv'
<1> USE DEF ReloadInv, TypeOK, BeforeSwap, Unhooking, ReloadKeeps, series
<1>1. CASE MarkRemoved
  <2> USE <1>1 DEF MarkRemoved
  <2>1. UNCHANGED <<Target, Begun(Unhooking), fleet, made, drain, retired>>
    BY DEF Target, Begun
  <2>2. PlanIsSound' /\ Progress' /\ ProbersFollow'
    BY <2>1 DEF PlanIsSound, WasBuilt, Progress, ProbersFollow
  <2>3. DrainsAreOfTheGone' /\ SeriesFollow'
    BY <2>1 DEF DrainsAreOfTheGone, WasBuilt, SeriesFollow, Awaited
  <2> QED
    BY <2>2, <2>3
<1>2. CASE SwapSnapshot
  <2> USE <1>2 DEF SwapSnapshot
  <2>1. /\ UNCHANGED <<Target, Begun(Unhooking), made, drain, retired>>
        /\ fleet' = Target
    BY DEF Target, Begun
  <2>2. PlanIsSound' /\ Progress' /\ ProbersFollow'
    BY <2>1 DEF PlanIsSound, WasBuilt, Progress, ProbersFollow
  <2>3. DrainsAreOfTheGone' /\ SeriesFollow'
    BY <2>1 DEF DrainsAreOfTheGone, WasBuilt, SeriesFollow, Awaited
  <2> QED
    BY <2>2, <2>3
<1>3. CASE Unhooked \/ StartProbers
  <2> USE <1>3 DEF Unhooked, StartProbers
  <2>1. UNCHANGED <<Target, fleet, made, drain, retired>> /\ Target = fleet
    BY DEF Target, registry
  <2>2. removing = {} /\ removing' = {}
    BY DEF Progress
  <2>3. PlanIsSound' /\ Progress'
    BY <2>1, <2>2 DEF PlanIsSound, WasBuilt, Progress
  <2>4. ProbersFollow'
    BY <2>1, <2>2 DEF ProbersFollow, Begun, PlanIsSound
  <2>5. DrainsAreOfTheGone'
    BY <2>1 DEF DrainsAreOfTheGone, WasBuilt
  <2>6. SeriesFollow'
    BY <2>1 DEF SeriesFollow, Awaited
  <2> QED
    BY <2>3, <2>4, <2>5, <2>6
<1>4. ASSUME NEW i \in Instances, Unhook(i) \/ Forget(i) PROVE ReloadInv'
  <2> USE <1>4 DEF Unhook, Forget
  <2>1. UNCHANGED <<Target, fleet, made, drain, retired>> /\ i \in removing
    BY DEF Target, registry, Progress
  <2>2. PlanIsSound' /\ Progress'
    BY <2>1 DEF PlanIsSound, WasBuilt, Progress
  <2>3. ProbersFollow'
    BY <2>1 DEF ProbersFollow, Begun
  <2>4. DrainsAreOfTheGone' /\ SeriesFollow'
    BY <2>1 DEF DrainsAreOfTheGone, WasBuilt, SeriesFollow, Awaited
  <2> QED
    BY <2>2, <2>3, <2>4
<1>5. ASSUME NEW i \in Instances, DeleteSeries(i) PROVE ReloadInv'
  <2> USE <1>5 DEF DeleteSeries
  <2>1. UNCHANGED <<Target, Begun(Unhooking), fleet, made, drain, retired>> /\ i \in removing
    BY DEF Target, Begun, registry, Progress
  <2>2. PlanIsSound' /\ Progress' /\ ProbersFollow'
    BY <2>1 DEF PlanIsSound, WasBuilt, Progress, ProbersFollow
  <2>3. DrainsAreOfTheGone'
    BY <2>1 DEF DrainsAreOfTheGone, WasBuilt
  <2>4. SeriesFollow'
    <3> SUFFICES ASSUME NEW j \in Target
                 PROVE  (j[1] \in healthSeries' /\ j[1] \in circuitSeries') \/ Awaited(j)'
      BY <2>1 DEF SeriesFollow
    <3>1. CASE j[1] = i[1]
      BY <3>1, <2>1 DEF PlanIsSound, Awaited
    <3>2. CASE j[1] # i[1]
      BY <3>2 DEF SeriesFollow, Awaited
    <3> QED
      BY <3>1, <3>2
  <2> QED
    BY <2>2, <2>3, <2>4
<1>6. ASSUME NEW i \in Instances, StartDrain(i) PROVE ReloadInv'
  <2> USE <1>6 DEF StartDrain
  <2>1. /\ UNCHANGED <<Target, fleet, made, retired>> /\ Target = fleet
        /\ i \in removing /\ removing' = removing \ {i}
    BY DEF Target, registry, Progress
  <2>2. PlanIsSound' /\ Progress'
    BY <2>1 DEF PlanIsSound, WasBuilt, Progress
  <2>3. ProbersFollow'
    BY <2>1 DEF ProbersFollow, Begun, PlanIsSound
  <2>4. DrainsAreOfTheGone'
    BY <2>1 DEF DrainsAreOfTheGone, WasBuilt, PlanIsSound
  <2>5. SeriesFollow'
    BY <2>1 DEF SeriesFollow, Awaited
  <2> QED
    BY <2>2, <2>3, <2>4, <2>5
<1>7. ASSUME NEW i \in Instances, Seed(i) PROVE ReloadInv'
  <2> USE <1>7 DEF Seed
  <2>1. UNCHANGED <<Target, Begun(Unhooking), fleet, made, drain, retired>> /\ Target = fleet
    BY DEF Target, Begun, registry
  <2>2. PlanIsSound' /\ Progress' /\ ProbersFollow'
    BY <2>1 DEF PlanIsSound, WasBuilt, Progress, ProbersFollow
  <2>3. DrainsAreOfTheGone'
    BY <2>1 DEF DrainsAreOfTheGone, WasBuilt
  <2>4. SeriesFollow'
    BY <2>1 DEF SeriesFollow, Awaited
  <2> QED
    BY <2>2, <2>3, <2>4
<1> QED
  BY <1>1, <1>2, <1>3, <1>4, <1>5, <1>6, <1>7 DEF ReloadStep

\* A reload ends with the fleet it planned, probed and reported, and no drain is
\* ever of a backend that serves.
THEOREM ReloadCorrect == Spec => []ReloadInv
<1>1. TypeOK /\ ReloadInv /\ [Next]_vars => ReloadInv'
  <2> SUFFICES ASSUME TypeOK, ReloadInv, [Next]_vars PROVE ReloadInv'
    OBVIOUS
  <2>1. CASE Stop \/ UNCHANGED vars
    <3>1. UNCHANGED <<fleet, made, probers, reloader, healthSeries, circuitSeries, drain, retired>>
      BY <2>1 DEF Stop, vars, registry, series
    <3>2. \A i \in retired' : drain[i] # "none"
      BY <3>1 DEF ReloadInv, DrainsAreOfTheGone
    <3> QED
      BY <3>1, <3>2, ReloadRest DEF TypeOK
  <2> QED
    BY <2>1, StartReloadPlans, ReloadStepReload, RequestReload, DrainReload DEF Next
<1> QED
  BY <1>1, ReloadInit, TypeCorrect, PTL DEF Spec

\* A drain never cuts off a backend of the fleet, whatever shares its name
\* (drain.go:41).
THEOREM FleetIsNeverRetired == Spec => []FleetNeverRetired
<1>1. TypeOK /\ ReloadInv => FleetNeverRetired
  BY DEF TypeOK, ReloadInv, DrainsAreOfTheGone, FleetNeverRetired
<1> QED
  BY <1>1, ReloadCorrect, TypeCorrect, PTL

\* When a reload has returned, the fleet and nothing else is probed, and every
\* backend has its health and circuit series (app.go:218).
THEOREM ReloadLeavesFleetServed == Spec => []ReloadSettles
<1>1. ReloadInv => ReloadSettles
  BY DEF ReloadInv, Progress, ProbersFollow, SeriesFollow, Awaited, Target, Begun,
     BeforeSwap, Unhooking, ReloadSettles
<1> QED
  BY <1>1, ReloadCorrect, PTL

----------------------------------------------------------------------------
(* What is left behind.                                                    *)

\* At the start nothing is left over.
LEMMA LeftoversInit == Init => LeftoversInv
<1> SUFFICES ASSUME Init PROVE LeftoversInv
  OBVIOUS
<1>1. \A n \in healthSeries \union circuitSeries : <<n, 1>> \in fleet /\ <<n, 1>>[1] = n
  BY DEF Init
<1>2. Leftovers
  BY <1>1 DEF Init, Leftovers
<1> QED
  BY <1>2 DEF Init, LeftoversInv, LeaversAreMarked

\* A step that leaves the reload and the fleet alone keeps what it adds to what
\* the fleet and the late observers account for.
LEMMA LeftoversRest ==
  ASSUME LeftoversInv, UNCHANGED <<registry, reloader>>, late \subseteq late',
         windows' \subseteq windows \union fleet \union late',
         \A n \in healthSeries' \union circuitSeries' :
           n \in healthSeries \union circuitSeries
             \/ \E i \in fleet \union late' : i[1] = n,
         \A r \in Requests : pc'[r] # "idle" => on'[r] \in fleet \union removed
  PROVE  LeftoversInv'
<1> USE DEF LeftoversInv, registry, reloader
<1>1. UNCHANGED <<Begun({"unseries", "drain"}), Begun({"drain"})>>
  BY DEF Begun
<1>2. LeaversAreMarked'
  BY DEF LeaversAreMarked
<1>3. Leftovers'
  BY <1>1 DEF Leftovers
<1> QED
  BY <1>2, <1>3

\* What a request leaves behind is by an observer told late.
LEMMA RequestLeftovers ==
  ASSUME RequestInv, LeftoversInv, NEW r \in Requests, Request(r)
  PROVE  LeftoversInv'
<1>1. UNCHANGED <<registry, reloader>>
  BY DEF Request, Proceed, Relay, Respond, Select, Deny, IncActive, IncGauge, RoundTrip, ClientGone,
     ObserveOutlier, ObserveCircuit, CloseBody, DecActive, DecGauge, RequestKeeps
<1>2. \A q \in Requests : pc'[q] # "idle" => on'[q] \in fleet \union removed
  BY DEF Request, Proceed, Relay, Respond, Select, Deny, IncActive, IncGauge, RoundTrip, ClientGone,
     ObserveOutlier, ObserveCircuit, CloseBody, DecActive, DecGauge, Goto, Finish,
     RequestInv, TypeOK, LeftoversInv, LeaversAreMarked
<1>3. /\ late \subseteq late'
      /\ windows' \subseteq windows \union fleet \union late'
      /\ \A n \in healthSeries' \union circuitSeries' :
           n \in healthSeries \union circuitSeries
             \/ \E i \in fleet \union late' : i[1] = n
  <2>1. CASE ObserveOutlier(r) \/ ObserveCircuit(r)
    <3>1. on[r] \in fleet \union late'
      BY <2>1 DEF ObserveOutlier, ObserveCircuit, Told, LeftoversInv, LeaversAreMarked
    <3> QED
      BY <2>1, <3>1 DEF ObserveOutlier, ObserveCircuit, Told
  <2>2. CASE ~(ObserveOutlier(r) \/ ObserveCircuit(r))
    BY <2>2 DEF Request, Proceed, Relay, Respond, Select, Deny, IncActive, IncGauge, RoundTrip,
       ClientGone, CloseBody, DecActive, DecGauge, series, history
  <2> QED
    BY <2>1, <2>2
<1> QED
  BY <1>1, <1>2, <1>3, LeftoversRest

\* A reload deletes what it unhooks.
LEMMA ReloadLeftovers ==
  ASSUME TypeOK, ReloadInv, LeftoversInv, StartReload \/ ReloadStep
  PROVE  LeftoversInv'
<1> USE DEF LeftoversInv, Leftovers, LeaversAreMarked, ReloadKeeps, series, request, Begun
<1>1. CASE StartReload
  BY <1>1 DEF StartReload, ReloadInv, Progress
<1>2. CASE MarkRemoved
  BY <1>2 DEF MarkRemoved
<1>3. CASE SwapSnapshot
  <2>1. fleet = (fleet' \ adding) \union removing /\ reload = "swap" /\ reload' = "unhook"
    BY <1>3 DEF SwapSnapshot, ReloadInv, PlanIsSound, Target, BeforeSwap
  <2>2. LeaversAreMarked'
    BY <1>3, <2>1 DEF SwapSnapshot
  <2>3. Leftovers'
    BY <1>3, <2>1 DEF SwapSnapshot
  <2> QED
    BY <2>2, <2>3
<1>4. CASE Unhooked \/ StartProbers
  BY <1>4 DEF Unhooked, StartProbers, registry
<1>5. ASSUME NEW i \in Instances, Unhook(i) PROVE LeftoversInv'
  BY <1>5 DEF Unhook, registry
<1>6. ASSUME NEW i \in Instances, Forget(i) PROVE LeftoversInv'
  BY <1>6 DEF Forget, registry
<1>7. ASSUME NEW i \in Instances, DeleteSeries(i) PROVE LeftoversInv'
  BY <1>7 DEF DeleteSeries, registry
<1>8. ASSUME NEW i \in Instances, StartDrain(i) PROVE LeftoversInv'
  BY <1>8 DEF StartDrain, registry
<1>9. ASSUME NEW i \in Instances, Seed(i) PROVE LeftoversInv'
  <2>1. i \in fleet
    BY <1>9 DEF Seed, ReloadInv, PlanIsSound, Progress, Target, BeforeSwap
  <2> QED
    BY <1>9, <2>1 DEF Seed, registry
<1> QED
  BY <1>1, <1>2, <1>3, <1>4, <1>5, <1>6, <1>7, <1>8, <1>9 DEF ReloadStep

\* What is kept between reloads is kept for the fleet, or was made by an observer
\* told late (proxy.go:258).
THEOREM NothingIsLeftBehind == Spec => []NothingLeftBehind
<1>1. RequestInv /\ ReloadInv /\ LeftoversInv /\ [Next]_vars => LeftoversInv'
  <2> SUFFICES ASSUME RequestInv, ReloadInv, LeftoversInv, [Next]_vars PROVE LeftoversInv'
    OBVIOUS
  <2>1. ASSUME Stop \/ UNCHANGED vars \/ \E i \in Instances : Drain(i)
        PROVE  LeftoversInv'
    <3>1. UNCHANGED <<registry, reloader, request, late, windows, healthSeries, circuitSeries>>
      BY <2>1 DEF Stop, vars, series, history, Drain, DrainKeeps, DrainIdle,
         DrainWindowExpires, Retire, DrainAborted, CheckName, DeleteActive
    <3> QED
      BY <3>1, LeftoversRest DEF LeftoversInv, LeaversAreMarked, request
  <2> QED
    BY <2>1, RequestLeftovers, ReloadLeftovers DEF Next, RequestInv
<1>2. ReloadInv /\ LeftoversInv => NothingLeftBehind
  BY DEF ReloadInv, Progress, LeftoversInv, Leftovers, Begun, NothingLeftBehind, InUse
<1> QED
  BY <1>1, <1>2, LeftoversInit, RequestsCorrect, ReloadCorrect, PTL DEF Spec

----------------------------------------------------------------------------
(* The series of the active requests.                                      *)

\* At the start the series are zero.
LEMMA GaugeInit == Init => GaugeInv
<1> SUFFICES ASSUME Init PROVE GaugeInv
  OBVIOUS
<1>1. ASSUME NEW n \in Names PROVE Holding(n) = {} /\ gauge[n] = 0
  BY DEF Init, Holding, InGauge, HasGauge
<1>2. \A i \in Target : i[1] \in gauged
  BY DEF Init, Target, BeforeSwap
<1> QED
  BY <1>1, <1>2, CountNone DEF Init, GaugeInv, BeforeSwap

\* A step that leaves the reload alone keeps the plan for the series.
LEMMA GaugeRest ==
  ASSUME GaugeInv, UNCHANGED <<fleet, reloader>>, raced \subseteq raced',
         gauged \subseteq gauged',
         \A n \in Names \ raced' :
           IsFiniteSet(Holding(n)') /\ gauge'[n] = Cardinality(Holding(n)')
  PROVE  GaugeInv'
  BY DEF GaugeInv, reloader, Target, Awaited, BeforeSwap

\* A request joins the series of its name once, and leaves it once.
LEMMA RequestGauge ==
  ASSUME RequestInv, GaugeInv, NEW r \in Requests, Request(r)
  PROVE  GaugeInv'
<1> USE DEF RequestInv, TypeOK, Steps, InGauge, HasGauge, Goto
<1>1. UNCHANGED <<fleet, reloader>> /\ raced \subseteq raced' /\ gauged \subseteq gauged'
  BY DEF Request, Proceed, Relay, Respond, Select, Deny, IncActive, IncGauge, RoundTrip, ClientGone,
     ObserveOutlier, ObserveCircuit, CloseBody, DecActive, DecGauge, RequestKeeps, Gauge,
     Told, Race, registry, series, history
<1>2. CASE IncGauge(r)
  <2>1. PICK k \in Names : on[r][1] = k
    BY <1>2 DEF IncGauge, OnInstance, Instances
  <2>2. /\ gauge'[k] = gauge[k] + 1
        /\ Holding(k)' = Holding(k) \union {r} /\ r \notin Holding(k)
    BY <1>2, <2>1 DEF IncGauge, Gauge, Holding
  <2>3. ASSUME NEW n \in Names, n # k
        PROVE  gauge'[n] = gauge[n] /\ Holding(n)' = Holding(n)
    BY <1>2, <2>1, <2>3 DEF IncGauge, Gauge, Holding
  <2>4. ASSUME NEW n \in Names \ raced
        PROVE  IsFiniteSet(Holding(n)') /\ gauge'[n] = Cardinality(Holding(n)')
    <3>1. IsFiniteSet(Holding(n)) /\ gauge[n] = Cardinality(Holding(n))
      BY DEF GaugeInv
    <3>2. CASE n = k
      BY <3>1, <3>2, <2>2, CountJoin
    <3>3. CASE n # k
      BY <3>1, <3>3, <2>3
    <3> QED
      BY <3>2, <3>3
  <2> QED
    BY <1>1, <2>4, GaugeRest
<1>3. CASE DecGauge(r)
  <2>1. PICK k \in Names : on[r][1] = k
    BY <1>3 DEF DecGauge, OnInstance, Instances
  <2>2. /\ gauge'[k] = gauge[k] - 1
        /\ Holding(k)' = Holding(k) \ {r} /\ r \in Holding(k)
    BY <1>3, <2>1 DEF DecGauge, Gauge, Finish, Holding
  <2>3. ASSUME NEW n \in Names, n # k
        PROVE  gauge'[n] = gauge[n] /\ Holding(n)' = Holding(n)
    BY <1>3, <2>1, <2>3 DEF DecGauge, Gauge, Finish, Holding
  <2>4. ASSUME NEW n \in Names \ raced
        PROVE  IsFiniteSet(Holding(n)') /\ gauge'[n] = Cardinality(Holding(n)')
    <3>1. IsFiniteSet(Holding(n)) /\ gauge[n] = Cardinality(Holding(n))
      BY DEF GaugeInv
    <3>2. CASE n = k
      BY <3>1, <3>2, <2>2, CountLeave
    <3>3. CASE n # k
      BY <3>1, <3>3, <2>3
    <3> QED
      BY <3>2, <3>3
  <2> QED
    BY <1>1, <2>4, GaugeRest
<1>4. CASE ~(IncGauge(r) \/ DecGauge(r))
  <2>1. \A n \in Names : Holding(n)' = Holding(n)
    BY <1>4 DEF Request, Proceed, Relay, Respond, Select, Deny, IncActive, RoundTrip, ClientGone,
       ObserveOutlier, ObserveCircuit, CloseBody, DecActive, Finish, Holding
  <2>2. gauge' = gauge
    BY <1>4 DEF Request, Proceed, Relay, Respond, Select, Deny, IncActive, RoundTrip, ClientGone,
       ObserveOutlier, ObserveCircuit, CloseBody, DecActive, series
  <2> QED
    BY <1>1, <2>1, <2>2, GaugeRest DEF GaugeInv
<1> QED
  BY <1>2, <1>3, <1>4

\* The requests of every name stay where they are while others move.
LEMMA HoldingRest ==
  ASSUME UNCHANGED request
  PROVE  \A n \in Names : Holding(n)' = Holding(n)
  BY DEF request, Holding

\* A request takes a slot behind its drain's back only in the one order that marks
\* the name.
LEMMA RequestDue ==
  ASSUME RequestInv, DrainsAreDue, NEW r \in Requests, Request(r)
  PROVE  DrainsAreDue'
<1>1. UNCHANGED <<fleet, drain>> /\ raced \subseteq raced'
  BY DEF Request, Proceed, Relay, Respond, Select, Deny, IncActive, IncGauge, RoundTrip,
     ClientGone, ObserveOutlier, ObserveCircuit, CloseBody, DecActive, DecGauge,
     RequestKeeps, Told, Race, registry, history
<1>2. ASSUME NEW i \in Instances, i[1] \notin raced', drain[i] \in {"check", "delete"}
      PROVE  On(i, Counted)' \subseteq On(i, Counted)
  <2> USE DEF RequestInv, TypeOK, On, Goto, Counted, HasGauge
  <2>1. CASE IncActive(r)
    <3>1. on[r] # i
      BY <1>2, <2>1 DEF IncActive, Race, FoundIdle
    <3> QED
      BY <2>1, <3>1 DEF IncActive
  <2>2. CASE ~IncActive(r)
    BY <2>2 DEF Request, Proceed, Relay, Respond, Select, Deny, IncGauge, RoundTrip,
       ClientGone, ObserveOutlier, ObserveCircuit, CloseBody, DecActive, DecGauge, Finish
  <2> QED
    BY <2>1, <2>2
<1> QED
  BY <1>1, <1>2 DEF DrainsAreDue, InUse

\* A reload that brings a name into use under a deletion marks it.
LEMMA ReloadDue ==
  ASSUME TypeOK, DrainsAreDue, StartReload \/ ReloadStep
  PROVE  DrainsAreDue'
<1>1. /\ UNCHANGED request /\ raced \subseteq raced'
      /\ \A i \in Instances : drain'[i] \in {"check", "delete"} => drain'[i] = drain[i]
  BY DEF ReloadStep, StartReload, MarkRemoved, SwapSnapshot, Unhooked, StartProbers, Unhook,
     Forget, DeleteSeries, StartDrain, Seed, SeedRaces, Race, ReloadKeeps, TypeOK
<1>2. \A i \in Instances : On(i, Counted)' = On(i, Counted)
  BY <1>1 DEF request, On
<1>3. ASSUME NEW i \in Instances, i[1] \notin raced', drain'[i] = "delete", ~InUse(i[1])
      PROVE  ~InUse(i[1])'
  <2>1. CASE SwapSnapshot
    <3>1. drain[i] = "delete" /\ Deleting(i[1])
      BY <1>1, <1>3 DEF Deleting
    <3> QED
      BY <1>3, <2>1, <3>1 DEF SwapSnapshot, Race, InUse
  <2>2. CASE ~SwapSnapshot
    BY <1>3, <2>2 DEF ReloadStep, StartReload, MarkRemoved, Unhooked, StartProbers, Unhook,
       Forget, DeleteSeries, StartDrain, Seed, registry, InUse
  <2> QED
    BY <2>1, <2>2
<1> QED
  BY <1>1, <1>2, <1>3 DEF DrainsAreDue

\* A drain goes on when it has found nobody, and deletes when the name is unused.
LEMMA DrainDue ==
  ASSUME RequestInv, DrainsAreDue, NEW i \in Instances, Drain(i)
  PROVE  DrainsAreDue'
<1>1. UNCHANGED <<fleet, request>> /\ raced \subseteq raced'
  BY DEF Drain, DrainIdle, DrainWindowExpires, Retire, DrainAborted, CheckName, DeleteActive,
     DrainKeeps, Race, registry
<1>2. \A j \in Instances : On(j, Counted)' = On(j, Counted) /\ InUse(j[1])' = InUse(j[1])
  BY <1>1 DEF request, On, InUse
<1>3. \A j \in Instances : j # i => drain'[j] = drain[j]
  BY DEF Drain, DrainIdle, DrainWindowExpires, Retire, DrainAborted, CheckName, DeleteActive,
     DrainTo, RequestInv, TypeOK
<1>4. CASE DrainIdle(i)
  <2>1. On(i, Counted) = {}
    BY <1>4, FS_EmptySet DEF DrainIdle, RequestInv, Counts
  <2>2. drain'[i] = "check"
    BY <1>4 DEF DrainIdle, DrainTo, RequestInv, TypeOK
  <2> QED
    BY <1>1, <1>2, <1>3, <2>1, <2>2 DEF DrainsAreDue
<1>5. CASE CheckName(i)
  <2>1. drain[i] = "check" /\ (drain'[i] = "delete" => ~InUse(i[1]))
    BY <1>5 DEF CheckName, DrainTo, RequestInv, TypeOK
  <2> QED
    BY <1>1, <1>2, <1>3, <2>1 DEF DrainsAreDue
<1>6. CASE DrainWindowExpires(i) \/ Retire(i) \/ DrainAborted(i) \/ DeleteActive(i)
  <2>1. drain'[i] \notin {"check", "delete"}
    BY <1>6 DEF DrainWindowExpires, Retire, DrainAborted, DeleteActive, DrainTo, RequestInv,
       TypeOK
  <2> QED
    BY <1>1, <1>2, <1>3, <2>1 DEF DrainsAreDue
<1> QED
  BY <1>4, <1>5, <1>6 DEF Drain

\* A drain deletes only a series that nobody uses or is to use, or marks the name.
LEMMA DrainGauge ==
  ASSUME RequestInv, ReloadInv, DrainsAreDue, GaugeInv, NEW i \in Instances, Drain(i)
  PROVE  GaugeInv'
<1>1. UNCHANGED <<fleet, reloader, request>>
  BY DEF Drain, DrainIdle, DrainWindowExpires, Retire, DrainAborted, CheckName, DeleteActive,
     DrainKeeps, registry
<1>2. \A n \in Names : Holding(n)' = Holding(n)
  BY <1>1, HoldingRest
<1>3. CASE UNCHANGED <<gauge, gauged, raced>>
  BY <1>1, <1>2, <1>3, GaugeRest DEF GaugeInv
<1>4. CASE DeleteActive(i)
  <2> DEFINE n == i[1]
  <2>1. /\ n \in Names
        /\ gauge' = [gauge EXCEPT ![n] = 0] /\ gauged' = gauged \ {n}
        /\ raced \subseteq raced' /\ raced' \subseteq raced \union {n}
    BY <1>4 DEF DeleteActive, Race, Instances
  <2>2. ASSUME n \notin raced' PROVE Holding(n) = {} /\ ~InUse(n)
    <3>1. On(i, Counted) = {} /\ ~InUse(n)
      BY <1>4, <2>1, <2>2 DEF DeleteActive, DrainsAreDue
    <3>2. ASSUME NEW r \in Holding(n) PROVE FALSE
      <4>1. on[r] \in Instances /\ on[r][1] = n /\ pc[r] \in InGauge
        BY <3>2 DEF RequestInv, OnInstance, Holding, InGauge, HasGauge
      <4>2. on[r] \notin fleet
        BY <3>1, <4>1 DEF InUse
      <4>3. on[r] = i /\ pc[r] # "gaugeDec"
        BY <1>4, <2>2, <4>2 DEF DeleteActive, Race
      <4> QED
        BY <3>1, <3>2, <4>1, <4>3 DEF On, Counted, InGauge, Holding
    <3> QED
      BY <3>1, <3>2
  <2>3. ASSUME NEW m \in Names \ raced'
        PROVE  IsFiniteSet(Holding(m)') /\ gauge'[m] = Cardinality(Holding(m)')
    <3>1. CASE m = n
      BY <3>1, <2>1, <1>2, <2>2, CountNone DEF RequestInv, TypeOK
    <3>2. CASE m # n
      BY <3>2, <2>1, <1>2 DEF RequestInv, TypeOK, GaugeInv
    <3> QED
      BY <3>1, <3>2
  <2>4. ASSUME NEW j \in Target
        PROVE  \/ j[1] \in raced' \union gauged'
               \/ Awaited(j) /\ j[1] \notin removedNames
    <3>1. CASE j[1] # n \/ n \in raced'
      BY <3>1, <2>1 DEF GaugeInv
    <3>2. CASE j[1] = n /\ n \notin raced'
      <4>1. j \notin fleet /\ \A k \in fleet : k[1] # n
        BY <3>2, <2>2 DEF InUse
      <4>2. reload \in BeforeSwap /\ j \in adding
        BY <4>1 DEF Target, ReloadInv, PlanIsSound
      <4>3. n \notin removedNames
        BY <4>1, <4>2 DEF GaugeInv
      <4> QED
        BY <3>2, <4>2, <4>3 DEF Awaited, BeforeSwap
    <3> QED
      BY <3>1, <3>2
  <2> QED
    BY <1>1, <2>3, <2>4 DEF GaugeInv, reloader, Target, Awaited, BeforeSwap
<1> QED
  BY <1>3, <1>4 DEF Drain, DrainIdle, DrainWindowExpires, Retire, DrainAborted, CheckName

\* A reload that adds a name finds its series there or seeds it.
LEMMA ReloadGauge ==
  ASSUME TypeOK, ReloadInv, GaugeInv, StartReload \/ ReloadStep
  PROVE  GaugeInv'
<1>1. UNCHANGED request
  BY DEF ReloadStep, StartReload, MarkRemoved, SwapSnapshot, Unhooked, StartProbers, Unhook,
     Forget, DeleteSeries, StartDrain, Seed, ReloadKeeps
<1>2. \A n \in Names : Holding(n)' = Holding(n)
  BY <1>1, HoldingRest
<1>3. ASSUME UNCHANGED gauge, raced \subseteq raced'
      PROVE  \A n \in Names \ raced' :
               IsFiniteSet(Holding(n)') /\ gauge'[n] = Cardinality(Holding(n)')
  BY <1>2, <1>3 DEF GaugeInv
<1>4. CASE StartReload
  <2>1. PICK keep \in SUBSET fleet, fresh \in SUBSET Names : Plan(keep, fresh)
    BY <1>4, ReloadHasPlan
  <2>2. /\ reload = "ready" /\ reload' = "mark" /\ Target = fleet /\ Target' = work'
        /\ UNCHANGED <<fleet, gauge, gauged, raced>>
    BY <1>4 DEF StartReload, ReloadKeeps, series, Target, BeforeSwap
  <2>3. \A i \in fleet : i[1] \in raced \union gauged
    BY <2>2 DEF GaugeInv, Awaited
  <2>4. removedNames' \subseteq {i[1] : i \in fleet}
    BY <2>1 DEF Plan
  <2>5. ASSUME NEW i \in work'
        PROVE  \/ i[1] \in raced \union gauged
               \/ Awaited(i)' /\ i[1] \notin removedNames'
    <3>1. CASE i \in keep
      BY <3>1, <2>3
    <3>2. CASE i \in adding'
      BY <3>2, <2>2, <2>3, <2>4 DEF Awaited
    <3> QED
      BY <3>1, <3>2, <2>1 DEF Plan
  <2> QED
    BY <1>3, <2>2, <2>4, <2>5 DEF GaugeInv
<1>5. CASE MarkRemoved \/ SwapSnapshot
  <2>1. UNCHANGED <<gauge, gauged, adding, removedNames, Target>> /\ raced \subseteq raced'
    BY <1>5 DEF MarkRemoved, SwapSnapshot, Race, series, ReloadKeeps, Target, BeforeSwap
  <2>2. \A i \in Target : Awaited(i) => Awaited(i)'
    BY <1>5 DEF MarkRemoved, SwapSnapshot, Awaited
  <2>3. reload' \in BeforeSwap => reload \in BeforeSwap /\ fleet' = fleet
    BY <1>5 DEF MarkRemoved, SwapSnapshot, BeforeSwap
  <2> QED
    BY <1>3, <2>1, <2>2, <2>3 DEF GaugeInv
<1>6. ASSUME Unhooked \/ \E i \in Instances :
               Unhook(i) \/ Forget(i) \/ DeleteSeries(i) \/ StartDrain(i)
      PROVE  GaugeInv'
  <2>1. /\ UNCHANGED <<gauge, gauged, raced, adding, removedNames, Target>>
        /\ reload' \notin BeforeSwap
    BY <1>6 DEF Unhooked, Unhook, Forget, DeleteSeries, StartDrain, registry, series,
       ReloadKeeps, Target, BeforeSwap
  <2>2. \A i \in Target : Awaited(i) => Awaited(i)'
    BY <1>6 DEF Unhooked, Unhook, Forget, DeleteSeries, StartDrain, Awaited
  <2> QED
    BY <1>3, <2>1, <2>2 DEF GaugeInv
<1>7. CASE StartProbers
  <2>1. UNCHANGED <<gauge, gauged, raced, Target>> /\ reload' \notin BeforeSwap
    BY <1>7 DEF StartProbers, registry, series, Target, BeforeSwap
  <2>2. \A i \in Target : ~Awaited(i)
    BY <1>7 DEF StartProbers, Awaited
  <2> QED
    BY <1>3, <2>1, <2>2 DEF GaugeInv
<1>8. ASSUME NEW i \in Instances, Seed(i) PROVE GaugeInv'
  <2>1. /\ UNCHANGED <<Target, adding, removedNames>> /\ reload' \notin BeforeSwap
        /\ reload = "seed" /\ reload' = reload /\ work' = work \ {i}
        /\ gauged \subseteq gauged' /\ raced \subseteq raced' /\ i[1] \in Names
        /\ i[1] \notin removedNames => i[1] \in gauged'
    BY <1>8 DEF Seed, SeedRaces, Race, Gauge, registry, Target, BeforeSwap, Instances
  <2>2. \A j \in Target : \/ j[1] \in raced' \union gauged'
                          \/ Awaited(j)' /\ j[1] \notin removedNames
    BY <2>1 DEF GaugeInv, Awaited
  <2>3. ASSUME NEW n \in Names \ raced'
        PROVE  IsFiniteSet(Holding(n)') /\ gauge'[n] = Cardinality(Holding(n)')
    <3>1. CASE n = i[1] /\ i[1] \notin removedNames
      <4>1. Holding(n) = {} /\ gauge'[n] = 0
        BY <1>8, <2>1, <3>1 DEF Seed, SeedRaces, Race, Gauge, TypeOK
      <4> QED
        BY <4>1, <1>2, CountNone
    <3>2. CASE ~(n = i[1] /\ i[1] \notin removedNames)
      <4>1. gauge'[n] = gauge[n]
        BY <1>8, <3>2 DEF Seed, Gauge, TypeOK
      <4> QED
        BY <4>1, <1>2, <2>1 DEF GaugeInv
    <3> QED
      BY <3>1, <3>2
  <2> QED
    BY <2>1, <2>2, <2>3 DEF GaugeInv
<1> QED
  BY <1>4, <1>5, <1>6, <1>7, <1>8 DEF ReloadStep

\* lb_active_requests counts the requests of a name across its instances, until
\* it is overwritten in an order that neither the seed nor the drain looks for (app.go:303,
\* drain.go:109).
THEOREM GaugeCountsRequests == Spec => []GaugeExactUnlessRaced
<1>1. RequestInv /\ DrainsAreDue /\ [Next]_vars => DrainsAreDue'
  <2> SUFFICES ASSUME RequestInv, DrainsAreDue, [Next]_vars PROVE DrainsAreDue'
    OBVIOUS
  <2>1. CASE Stop \/ UNCHANGED vars
    BY <2>1 DEF Stop, vars, registry, request, history, DrainsAreDue, On, InUse
  <2> QED
    BY <2>1, RequestDue, ReloadDue, DrainDue DEF Next, RequestInv
<1>2. Init => DrainsAreDue
  BY DEF Init, DrainsAreDue
<1>3. RequestInv /\ ReloadInv /\ DrainsAreDue /\ GaugeInv /\ [Next]_vars => GaugeInv'
  <2> SUFFICES ASSUME RequestInv, ReloadInv, DrainsAreDue, GaugeInv, [Next]_vars
               PROVE  GaugeInv'
    OBVIOUS
  <2>1. CASE Stop \/ UNCHANGED vars
    <3>1. UNCHANGED <<fleet, reloader, request, gauge, gauged, raced>>
      BY <2>1 DEF Stop, vars, registry, series, history
    <3>2. \A n \in Names : Holding(n)' = Holding(n)
      BY <3>1, HoldingRest
    <3> QED
      BY <3>1, <3>2, GaugeRest DEF GaugeInv
  <2> QED
    BY <2>1, RequestGauge, ReloadGauge, DrainGauge DEF Next, RequestInv
<1>4. TypeOK /\ GaugeInv => GaugeExactUnlessRaced
  BY DEF TypeOK, GaugeInv, GaugeExactUnlessRaced, InUse, Target, BeforeSwap, Awaited
<1> QED
  BY <1>1, <1>2, <1>3, <1>4, GaugeInit, TypeCorrect, RequestsCorrect, ReloadCorrect, PTL DEF Spec
=============================================================================
