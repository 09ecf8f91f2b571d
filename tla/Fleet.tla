------------------------------- MODULE Fleet -------------------------------
(***************************************************************************)
(* The fleet while it is reloaded: the registry snapshot, the reload that  *)
(* replaces it (internal/app/app.go, Apply in internal/backend), the       *)
(* requests the proxy is serving (internal/proxy/proxy.go), one drain per  *)
(* removed backend (internal/app/drain.go), and the series of the metrics  *)
(* collector that all of them write by backend name.                       *)
(*                                                                         *)
(* A backend instance is <<name, k>>: the k-th Backend ever built for that *)
(* name. A name whose URL changes, or that leaves and comes back, gets a   *)
(* fresh instance. Health and circuit state are in Health and Circuit;     *)
(* here a selector may pick any backend of the fleet that may be healthy.  *)
(***************************************************************************)
EXTENDS Integers, FiniteSets

CONSTANTS Names,         \* backend names
          Requests,      \* request goroutines
          StartNames,    \* the backends of the startup config
          MaxInstances,  \* bound: instances ever built per name
          MaxBuilt,      \* bound: instances ever built
          None           \* no backend

ASSUME StartNamesAssumption == StartNames \subseteq Names /\ StartNames # {}
ASSUME MaxInstancesAssumption == MaxInstances \in Nat \ {0}
ASSUME MaxBuiltAssumption == MaxBuilt \in Nat
ASSUME NoneAssumption == None \notin Names \X Nat

Instances == Names \X (1..MaxInstances)

VARIABLES
  fleet,      \* the registry snapshot: a set of instances
  made,       \* how many instances of each name were built
  removed,    \* instances whose removed flag is set
  retired,    \* instances whose retired context is cancelled
  active,     \* Backend.active
  gauge,      \* lb_active_requests, by name
  gauged,     \* the names that have an lb_active_requests series
  windows,    \* instances with an outlier window
  healthSeries, circuitSeries,  \* names with lb_backend_healthy, lb_circuit_state
  probers,    \* instances the checker probes
  pc, on,     \* each request: its step, the instance it is on
  reload,     \* the step of the reload holding reloadMu
  work,       \* what its step works on: the snapshot to install, then the
              \* backend being unhooked, then those still to be seeded
  removing, adding,  \* what it still has to unhook and to hook up
  removedNames,  \* the names of the backends it removed
  drain,      \* each instance's drain goroutine
  stopping    \* the process context is cancelled

\* History: no code reads these, the properties do.
VARIABLES
  late,       \* removed instances an observer was told about
  raced       \* names whose active-requests series was overwritten in one of the
              \* orders that seed and drain leave open: see Seed, DeleteActive,
              \* IncActive and SwapSnapshot

registry == <<fleet, made, removed>>
series   == <<gauge, gauged, healthSeries, circuitSeries>>
request  == <<pc, on>>
reloader == <<reload, work, removing, adding, removedNames>>
history  == <<late, raced>>
vars == <<registry, retired, active, series, windows, probers, request, reloader,
          drain, stopping, history>>

\* A request is counted in Backend.active, and in the gauge, at these steps.
HasGauge == {"joined", "upload", "observeOutlier", "observeCircuit", "body", "write",
             "release"}
Counted  == HasGauge \union {"counted"}
InGauge  == HasGauge \union {"gaugeDec"}
Steps    == Counted \union {"idle", "selected", "gaugeDec"}

\* The steps at which a request waits for its client and for nothing else.
AtClient == {"upload", "write"}

DrainSteps == {"none", "waiting", "expired", "cancelled", "check", "delete",
               "done", "aborted"}

ReloadSteps == {"ready", "mark", "swap", "unhook", "forget", "unseries", "drain",
                "seed", "probe"}

\* The drain has found its backend idle.
FoundIdle == {"check", "delete", "done"}

InUse(n) == \E i \in fleet : i[1] = n

Built == {i \in Instances : i[2] <= made[i[1]]}

\* A drain has decided to delete the series of n.
Deleting(n) == \E i \in Instances : i[1] = n /\ drain[i] = "delete"

\* The requests counted in the series of n.
Holding(n) == {r \in Requests : pc[r] \in InGauge /\ on[r][1] = n}

Init ==
  /\ fleet = {<<n, 1>> : n \in StartNames}
  /\ made = [n \in Names |-> IF n \in StartNames THEN 1 ELSE 0]
  /\ removed = {}
  /\ retired = {}
  /\ active = [i \in Instances |-> 0]
  /\ gauge = [n \in Names |-> 0]
  /\ gauged = StartNames
  /\ windows = {}
  /\ healthSeries = StartNames
  /\ circuitSeries = StartNames
  /\ probers = {<<n, 1>> : n \in StartNames}
  /\ pc = [r \in Requests |-> "idle"]
  /\ on = [r \in Requests |-> None]
  /\ reload = "ready"
  /\ work = {} /\ removing = {} /\ adding = {} /\ removedNames = {}
  /\ drain = [i \in Instances |-> "none"]
  /\ stopping = FALSE
  /\ late = {} /\ raced = {}

----------------------------------------------------------------------------
(* Requests: ServeHTTP and the hooks of the reverse proxy.                 *)

Goto(r, step) == pc' = [pc EXCEPT ![r] = step]
Finish(r) == Goto(r, "idle") /\ on' = [on EXCEPT ![r] = None]

\* A gauge that is written exists, even if it was deleted before.
Gauge(n, v) == gauge' = [gauge EXCEPT ![n] = v] /\ gauged' = gauged \union {n}

\* What no request step changes.
RequestKeeps ==
  UNCHANGED <<registry, retired, probers, reloader, drain, stopping>>

Race(names) == raced' = raced \union names

\* A backend added by a reload is unhealthy until its prober admits it, so the
\* reload has seeded its series before any request can be routed to it.
Select(r) ==
  /\ pc[r] = "idle"
  /\ \E i \in fleet \ adding : on' = [on EXCEPT ![r] = i]
  /\ Goto(r, "selected")
  /\ RequestKeeps /\ UNCHANGED <<history, active, series, windows>>

\* Registry.Allow denies.
Deny(r) ==
  /\ pc[r] = "selected"
  /\ Finish(r)
  /\ RequestKeeps /\ UNCHANGED <<history, active, series, windows>>

\* activate(): the counter, then the gauge. The drain of a backend may have found
\* it idle since the request selected it.
IncActive(r) ==
  /\ pc[r] = "selected"
  /\ active' = [active EXCEPT ![on[r]] = @ + 1]
  /\ Goto(r, "counted")
  /\ Race({i[1] : i \in {j \in {on[r]} : drain[j] \in FoundIdle}})
  /\ RequestKeeps /\ UNCHANGED <<late, on, series, windows>>

IncGauge(r) ==
  /\ pc[r] = "counted"
  /\ LET n == on[r][1] IN Gauge(n, gauge[n] + 1)
  /\ Goto(r, "joined")
  /\ RequestKeeps /\ UNCHANGED <<history, on, active, windows, healthSeries, circuitSeries>>

\* The body of the request, and then that of the response, is copied: a read on
\* the one side, a write on the other. ReadTimeout bounds the client's share of the
\* first, over plain HTTP only (app.go:448); nothing bounds that of the second.
Relay(r) ==
  /\ \/ pc[r] = "joined" /\ Goto(r, "upload")
     \/ pc[r] = "upload" /\ Goto(r, "joined")
     \/ pc[r] = "body"   /\ Goto(r, "write")
     \/ pc[r] = "write"  /\ Goto(r, "body")
  /\ RequestKeeps /\ UNCHANGED <<history, on, active, series, windows>>

\* The round trip ends. observe() looks at IsRemoved before it calls the
\* observers. A response is followed by its body, a failure by the release; a
\* retired backend's context join makes every round trip fail.
RoundTrip(r) ==
  /\ pc[r] \in {"joined", "upload"}
  /\ \/ on[r] \notin removed /\ Goto(r, "observeOutlier")
     \/ on[r] \in removed /\ \E step \in {"body", "release"} : Goto(r, step)
  /\ RequestKeeps /\ UNCHANGED <<history, on, active, series, windows>>

\* Mutation: tier 2 of errorHandler returns without releasing the slot.
ClientGoneUnreleased(r) ==
  /\ pc[r] \in {"joined", "upload"}
  /\ Finish(r)
  /\ RequestKeeps /\ UNCHANGED <<history, active, series, windows>>

\* Tier 2 of errorHandler: the client is gone, nobody observes.
ClientGone(r) ==
  /\ pc[r] \in {"joined", "upload"}
  /\ Goto(r, "release")
  /\ RequestKeeps /\ UNCHANGED <<history, on, active, series, windows>>

Told(r) == late' = late \union ({on[r]} \intersect removed) /\ UNCHANGED raced

\* The outlier detector creates the window, and may eject and write its gauge.
ObserveOutlier(r) ==
  /\ pc[r] = "observeOutlier"
  /\ windows' = windows \union {on[r]}
  /\ \E ejects \in BOOLEAN :
       healthSeries' = healthSeries \union (IF ejects THEN {on[r][1]} ELSE {})
  /\ Goto(r, "observeCircuit")
  /\ Told(r)
  /\ RequestKeeps /\ UNCHANGED <<on, active, gauge, gauged, circuitSeries>>

\* The breaker may have made a transition to write.
ObserveCircuit(r) ==
  /\ pc[r] = "observeCircuit"
  /\ \E transition \in BOOLEAN :
       circuitSeries' = circuitSeries \union (IF transition THEN {on[r][1]} ELSE {})
  /\ \E step \in {"body", "release"} : Goto(r, step)
  /\ Told(r)
  /\ RequestKeeps /\ UNCHANGED <<on, active, gauge, gauged, healthSeries, windows>>

\* The body has been streamed, or reading it or writing it failed, and is closed.
CloseBody(r) ==
  /\ pc[r] \in {"body", "write"}
  /\ Goto(r, "release")
  /\ RequestKeeps /\ UNCHANGED <<history, on, active, series, windows>>

\* release(): the counter, then the gauge.
DecActive(r) ==
  /\ pc[r] = "release"
  /\ active' = [active EXCEPT ![on[r]] = @ - 1]
  /\ Goto(r, "gaugeDec")
  /\ RequestKeeps /\ UNCHANGED <<history, on, series, windows>>

\* Mutation: release() without its sync.Once.
DecGaugeTwice(r) ==
  /\ pc[r] = "gaugeDec"
  /\ LET n == on[r][1] IN Gauge(n, gauge[n] - 1)
  /\ \/ Finish(r)
     \/ Goto(r, "release") /\ UNCHANGED on
  /\ RequestKeeps /\ UNCHANGED <<history, active, windows, healthSeries, circuitSeries>>

DecGauge(r) ==
  /\ pc[r] = "gaugeDec"
  /\ LET n == on[r][1] IN Gauge(n, gauge[n] - 1)
  /\ Finish(r)
  /\ RequestKeeps /\ UNCHANGED <<history, active, windows, healthSeries, circuitSeries>>

\* What a request does without waiting for a backend or a client.
Proceed(r) ==
  \/ Deny(r) \/ IncActive(r) \/ IncGauge(r)
  \/ ObserveOutlier(r) \/ ObserveCircuit(r)
  \/ DecActive(r) \/ DecGauge(r)

\* What a backend, a client, or the context of a retired backend brings about.
Respond(r) == RoundTrip(r) \/ ClientGone(r) \/ CloseBody(r)

Request(r) == Select(r) \/ Proceed(r) \/ Relay(r) \/ Respond(r)

----------------------------------------------------------------------------
(* The reload. reloadMu makes it the only writer of the registry.          *)

ReloadKeeps == UNCHANGED <<retired, active, request, stopping, late>>

\* Apply builds the next snapshot: every name of the new config keeps its
\* instance or, when its URL changed or it is new, gets a fresh one. At least
\* one backend is configured, always. A reload that changes no backend does
\* nothing of what is modelled here.
StartReload ==
  /\ reload = "ready"
  /\ \E keep \in SUBSET fleet, fresh \in SUBSET Names :
       /\ \A n \in fresh : made[n] < MaxInstances /\ \A i \in keep : i[1] # n
       /\ keep \union fresh # {} /\ ~(keep = fleet /\ fresh = {})
       /\ Cardinality(Built) + Cardinality(fresh) <= MaxBuilt
       /\ LET new == {<<n, made[n] + 1>> : n \in fresh}
          IN /\ work' = keep \union new
             /\ adding' = new
             /\ removing' = fleet \ keep
       /\ made' = [n \in Names |-> IF n \in fresh THEN made[n] + 1 ELSE made[n]]
       /\ removedNames' = {i[1] : i \in fleet \ keep}
  /\ reload' = "mark"
  /\ ReloadKeeps /\ UNCHANGED raced
  /\ UNCHANGED <<fleet, removed, series, windows, probers, drain>>

\* Every removed instance is marked before the snapshot is swapped.
MarkRemoved ==
  /\ reload = "mark"
  /\ removed' = removed \union removing
  /\ reload' = "swap"
  /\ ReloadKeeps /\ UNCHANGED raced
  /\ UNCHANGED <<fleet, made, series, windows, probers, work, removing, adding,
                 removedNames, drain>>

\* The drain of an old instance may have found a name unused that now is used.
SwapSnapshot ==
  /\ reload = "swap"
  /\ fleet' = work
  /\ reload' = "unhook"
  /\ Race({i[1] : i \in {j \in work \ fleet : Deleting(j[1])}})
  /\ ReloadKeeps
  /\ UNCHANGED <<made, removed, series, windows, probers, work, removing, adding,
                 removedNames, drain>>

\* Mutation: checker.Remove is left out.
UnhookKeepsProber(i) ==
  /\ reload = "unhook" /\ i \in removing
  /\ work' = {i}
  /\ reload' = "forget"
  /\ ReloadKeeps /\ UNCHANGED raced
  /\ UNCHANGED <<registry, series, windows, probers, removing, adding, removedNames, drain>>

\* For each removed backend: checker.Remove, outlier.Forget, the deletion of
\* its series, and its drain. The loop ends when none is left.
Unhook(i) ==
  /\ reload = "unhook" /\ i \in removing
  /\ probers' = probers \ {i}
  /\ work' = {i}
  /\ reload' = "forget"
  /\ ReloadKeeps /\ UNCHANGED raced
  /\ UNCHANGED <<registry, series, windows, removing, adding, removedNames, drain>>

\* Mutation: outlier.Forget is left out.
ForgetNothing(i) ==
  /\ reload = "forget" /\ work = {i}
  /\ reload' = "unseries"
  /\ ReloadKeeps /\ UNCHANGED raced
  /\ UNCHANGED <<registry, series, windows, probers, work, removing, adding, removedNames,
                 drain>>

Forget(i) ==
  /\ reload = "forget" /\ work = {i}
  /\ windows' = windows \ {i}
  /\ reload' = "unseries"
  /\ ReloadKeeps /\ UNCHANGED raced
  /\ UNCHANGED <<registry, series, probers, work, removing, adding, removedNames, drain>>

DeleteSeries(i) ==
  /\ reload = "unseries" /\ work = {i}
  /\ healthSeries' = healthSeries \ {i[1]}
  /\ circuitSeries' = circuitSeries \ {i[1]}
  /\ reload' = "drain"
  /\ ReloadKeeps /\ UNCHANGED raced
  /\ UNCHANGED <<registry, gauge, gauged, windows, probers, work, removing, adding,
                 removedNames, drain>>

StartDrain(i) ==
  /\ reload = "drain" /\ work = {i}
  /\ drain' = [drain EXCEPT ![i] = "waiting"]
  /\ removing' = removing \ {i}
  /\ work' = {}
  /\ reload' = "unhook"
  /\ ReloadKeeps /\ UNCHANGED raced
  /\ UNCHANGED <<registry, series, windows, probers, adding, removedNames>>

Unhooked ==
  /\ reload = "unhook" /\ removing = {}
  /\ work' = adding
  /\ reload' = "seed"
  /\ ReloadKeeps /\ UNCHANGED raced
  /\ UNCHANGED <<registry, series, windows, probers, removing, adding, removedNames, drain>>

\* Requests of an instance that an earlier reload removed may be counted in a
\* series that is seeded.
SeedRaces(i) == Race({n \in {i[1]} \ removedNames : Holding(n) # {}})

\* Mutation: the active-requests series is seeded for every added backend.
SeedEveryName(i) ==
  /\ reload = "seed" /\ i \in work
  /\ Gauge(i[1], 0)
  /\ SeedRaces(i)
  /\ healthSeries' = healthSeries \union {i[1]}
  /\ circuitSeries' = circuitSeries \union {i[1]}
  /\ work' = work \ {i}
  /\ UNCHANGED reload
  /\ ReloadKeeps
  /\ UNCHANGED <<registry, windows, probers, removing, adding, removedNames, drain>>

\* Every added backend's series are seeded; the active-requests series only if
\* this reload removed no backend of that name.
Seed(i) ==
  /\ reload = "seed" /\ i \in work
  /\ IF i[1] \in removedNames THEN UNCHANGED <<gauge, gauged>> ELSE Gauge(i[1], 0)
  /\ SeedRaces(i)
  /\ healthSeries' = healthSeries \union {i[1]}
  /\ circuitSeries' = circuitSeries \union {i[1]}
  /\ work' = work \ {i}
  /\ UNCHANGED reload
  /\ ReloadKeeps
  /\ UNCHANGED <<registry, windows, probers, removing, adding, removedNames, drain>>

\* Then every added backend is handed to the checker, and the reload returns.
StartProbers ==
  /\ reload = "seed" /\ work = {}
  /\ probers' = probers \union adding
  /\ adding' = {} /\ removedNames' = {}
  /\ reload' = "ready"
  /\ ReloadKeeps /\ UNCHANGED raced
  /\ UNCHANGED <<registry, series, windows, work, removing, drain>>

ReloadStep ==
  \/ MarkRemoved \/ SwapSnapshot \/ Unhooked \/ StartProbers
  \/ \E i \in Instances :
       Unhook(i) \/ Forget(i) \/ DeleteSeries(i) \/ StartDrain(i) \/ Seed(i)

----------------------------------------------------------------------------
(* The drain of instance i.                                                *)

DrainTo(i, step) == drain' = [drain EXCEPT ![i] = step]
DrainKeeps ==
  UNCHANGED <<registry, active, windows, healthSeries, circuitSeries, probers,
              request, reloader, stopping, late>>

\* waitActiveZero polls, or its window runs out.
DrainIdle(i) ==
  /\ drain[i] \in {"waiting", "cancelled"} /\ active[i] = 0
  /\ DrainTo(i, "check")
  /\ DrainKeeps /\ UNCHANGED <<retired, gauge, gauged, raced>>

DrainWindowExpires(i) ==
  /\ drain[i] = "waiting" /\ active[i] # 0 /\ ~stopping
  /\ DrainTo(i, "expired")
  /\ DrainKeeps /\ UNCHANGED <<retired, gauge, gauged, raced>>

\* Mutation: the drain retires every backend with its name.
RetireByName(i) ==
  /\ drain[i] = "expired"
  /\ retired' = retired \union {i} \union {j \in fleet : j[1] = i[1]}
  /\ DrainTo(i, "cancelled")
  /\ DrainKeeps /\ UNCHANGED <<gauge, gauged, raced>>

\* Mutation: the requests are not cancelled.
RetireNobody(i) ==
  /\ drain[i] = "expired"
  /\ DrainTo(i, "cancelled")
  /\ DrainKeeps /\ UNCHANGED <<retired, gauge, gauged, raced>>

\* ctx is looked at once more before Retire, and may be cancelled right after.
Retire(i) ==
  /\ drain[i] = "expired"
  /\ retired' = retired \union {i}
  /\ DrainTo(i, "cancelled")
  /\ DrainKeeps /\ UNCHANGED <<gauge, gauged, raced>>

DrainAborted(i) ==
  /\ drain[i] \in {"waiting", "expired", "cancelled"} /\ stopping
  /\ DrainTo(i, "aborted")
  /\ DrainKeeps /\ UNCHANGED <<retired, gauge, gauged, raced>>

\* Mutation: the series is deleted though a backend of the fleet has the name.
CheckNothing(i) ==
  /\ drain[i] = "check"
  /\ DrainTo(i, "delete")
  /\ DrainKeeps /\ UNCHANGED <<retired, gauge, gauged, raced>>

\* completeDrain: look for the name in the snapshot, then delete the series.
CheckName(i) ==
  /\ drain[i] = "check"
  /\ DrainTo(i, IF InUse(i[1]) THEN "done" ELSE "delete")
  /\ DrainKeeps /\ UNCHANGED <<retired, gauge, gauged, raced>>

\* A request of i may have given back its slot and not yet its share of the
\* series, and those of another removed instance of the name may be under way.
DeleteActive(i) ==
  /\ drain[i] = "delete"
  /\ gauge' = [gauge EXCEPT ![i[1]] = 0]
  /\ gauged' = gauged \ {i[1]}
  /\ Race({n \in {i[1]} : \E r \in Holding(n) :
              on[r] \notin fleet /\ (on[r] # i \/ pc[r] = "gaugeDec")})
  /\ DrainTo(i, "done")
  /\ DrainKeeps /\ UNCHANGED retired

Drain(i) ==
  \/ DrainIdle(i) \/ DrainWindowExpires(i) \/ Retire(i) \/ DrainAborted(i)
  \/ CheckName(i) \/ DeleteActive(i)

\* SIGINT or SIGTERM.
Stop ==
  /\ ~stopping
  /\ stopping' = TRUE
  /\ UNCHANGED <<registry, retired, active, series, windows, probers, request,
                 reloader, drain, history>>

Next ==
  \/ StartReload \/ ReloadStep \/ Stop
  \/ \E r \in Requests : Request(r)
  \/ \E i \in Instances : Drain(i)

Spec == Init /\ [][Next]_vars

\* A goroutine that can run does; the drain timer fires. A retired backend's
\* context is cancelled, so a request on it that goes on waiting for the backend,
\* or returns to that again and again, is cut off. Nothing else is assumed of a
\* backend, a client or an operator: a stream may last for ever, and a request
\* that waits for its client may wait for ever, on a retired backend too.
CutOff(r) == on[r] \in retired /\ pc[r] \notin AtClient /\ Respond(r)

Fairness ==
  /\ WF_vars(ReloadStep)
  /\ \A r \in Requests : WF_vars(Proceed(r)) /\ SF_vars(CutOff(r))
  /\ \A i \in Instances : WF_vars(Drain(i))

FairSpec == Spec /\ Fairness

----------------------------------------------------------------------------
On(i, steps) == {r \in Requests : on[r] = i /\ pc[r] \in steps}

TypeOK ==
  /\ fleet \subseteq Instances
  /\ made \in [Names -> 0..MaxInstances]
  /\ removed \subseteq Instances
  /\ retired \subseteq Instances
  /\ active \in [Instances -> Nat]
  /\ gauge \in [Names -> Int]
  /\ gauged \subseteq Names
  /\ windows \subseteq Instances
  /\ healthSeries \subseteq Names
  /\ circuitSeries \subseteq Names
  /\ probers \subseteq Instances
  /\ pc \in [Requests -> Steps]
  /\ on \in [Requests -> Instances \union {None}]
  /\ reload \in ReloadSteps
  /\ work \subseteq Instances
  /\ removing \subseteq Instances
  /\ adding \subseteq Instances
  /\ removedNames \subseteq Names
  /\ drain \in [Instances -> DrainSteps]
  /\ stopping \in BOOLEAN
  /\ late \subseteq removed /\ raced \subseteq Names

\* Every request on the dispatch path holds exactly one slot of its instance
\* and gives it back once, whatever ends it (reqState.activate and release).
\* The drain waits on nothing but this count.
ActiveExact ==
  \A i \in Instances : active[i] = Cardinality(On(i, Counted))

\* lb_active_requests is the number of requests that hold a slot of any instance
\* of the name, removed ones included, and between reloads every backend has the
\* series: a seed skips a name whose requests this reload left running (app.go:303)
\* and a drain leaves the series of a name in use alone (drain.go:109). That is so
\* until the series is overwritten in an order these two checks do not see, each
\* marked in raced where it happens.
GaugeExactUnlessRaced ==
  \A n \in Names \ raced :
    /\ gauge[n] = Cardinality(Holding(n))
    /\ reload = "ready" /\ InUse(n) => n \in gauged

\* A drain cuts off the requests of the instance it was started for, never
\* those of a backend in the fleet, even one with the same name and URL
\* (drain.go:41, ADR-0016 decision 9).
FleetNeverRetired == retired \intersect fleet = {}

\* When a reload has returned, every backend of the fleet has its health and
\* circuit series and its prober, and no other backend is probed: removals come
\* before additions, or a name that stays would lose its fresh series
\* (app.go:218).
ReloadSettles ==
  reload = "ready" =>
    /\ \A i \in fleet : i[1] \in healthSeries /\ i[1] \in circuitSeries
    /\ probers = fleet

\* Between reloads nothing is kept for a backend that has left: no outlier
\* window, no health and no circuit series, unless an observer that had found it
\* still in the fleet was told of a round trip after that (proxy.go:258: the check
\* of IsRemoved and the calls that follow it are separate steps).
NothingLeftBehind ==
  reload = "ready" =>
    /\ windows \subseteq fleet \union late
    /\ \A n \in healthSeries \union circuitSeries :
         InUse(n) \/ \E i \in late : i[1] = n

\* Every drain ends, by idleness or by cutting off what is left, unless the
\* process is stopping: a backend that is stuck holds no request for ever (ADR-0016).
\* What can hold up a drain for good is a client, and only by never again reading
\* or sending, since phase two has no deadline (drainBackend).
DrainEndsUnlessStalled ==
  \A i \in Instances :
    (drain[i] = "waiting") ~> \/ drain[i] \in {"done", "aborted"}
                              \/ [](\E r \in Requests : on[r] = i /\ pc[r] \in AtClient)

\* "the fresh instance must not reset a series the removed instance's requests
\* are still decrementing" (app.go:208): a seed leaves the series of a name alone
\* while a request is counted in it.
SeedKeepsCount ==
  [][\A i \in Instances : Seed(i) /\ Holding(i[1]) # {} => UNCHANGED gauge]_vars
============================================================================
