-------------------------------- MODULE Demo --------------------------------
(***************************************************************************)
(* The demo stack around the load balancers: the control service           *)
(* (demo/control-service), the control endpoint and the arrival loop of    *)
(* the traffic generators (demo/traffic-generator), and the admin listener *)
(* of the dummy backends (deployments/docker/dummy-backend), whose         *)
(* containers the control service kills and starts.                        *)
(*                                                                         *)
(* A peer keeps its settings behind one atomic pointer, and an update      *)
(* loads it, overwrites the fields it names and stores the result, with no *)
(* lock: nothing keeps two updates apart. A poll of the state is an update *)
(* of every backend that names no field.                                   *)
(*                                                                         *)
(* The load balancers are outside: what matters of one is whether the      *)
(* generators send to it. So is the Docker Engine.                         *)
(***************************************************************************)
EXTENDS Naturals, FiniteSets

CONSTANTS Generators, Backends,
          LBs,          \* the targets of the allowlist
          Handlers,     \* requests the control service handles at once
          Profiles,     \* bound: the sets of fields a profile request names
          MaxInflight,  \* a generator's bound on its requests in flight
          MaxRequests,  \* bound: requests ever made to the control service
          None          \* no answer

ASSUME PeersAssumption ==
  /\ Generators # {} /\ IsFiniteSet(Generators) /\ LBs # {}
  /\ Generators \intersect Backends = {}
ASSUME MaxInflightAssumption == MaxInflight \in Nat \ {0}
ASSUME MaxRequestsAssumption == MaxRequests \in Nat
ASSUME NoneAssumption == None \notin LBs

Peers == Generators \union Backends

ProfileFields == {"sleep_ms", "jitter_ms", "fail_rate"}

ASSUME ProfilesAssumption == Profiles \subseteq (SUBSET ProfileFields) \ {{}}

\* A rate and a field of a profile are 0 or not; a profile starts at 0.
InitialProfile == [f \in ProfileFields |-> 0]

VARIABLES
  settings,  \* generator.settings, backend.profile
  up,        \* the backends whose container runs
  \* the control service
  job,       \* what each handler does
  answer,    \* each of its calls: "none", "waiting", "ok" or "failed"
  target,    \* the target each generator has answered to its gather, or None
  requests,  \* how many requests it has had
  \* the peers
  call,      \* the update each peer is serving for each handler, or NoCall
  \* the arrival loop of the generators
  due,       \* those with an arrival pending
  inflight   \* how many requests each has in flight

\* History.
VARIABLES
  named,     \* for each field of a peer, the value last named for it
  stale,     \* updates whose loaded settings have been replaced
  clobbered, \* peers on which such an update has been stored
  split,     \* an update of the generators was reported failed, was stored on
             \* a clobbered one, or overlapped another of the same field
  moved,     \* handlers during whose gather a generator changed its target
  late       \* arrivals at a generator since its rate became 0

control == <<job, answer, target, requests>>
traffic == <<due, inflight, late>>
history == <<named, stale, clobbered, split, moved>>
vars == <<settings, up, control, call, traffic, history>>

NoCall == [step |-> "none"]
Called(values)      == [step |-> "called", with |-> values]
Loaded(values, old) == [step |-> "loaded", with |-> values, old |-> old]

\* One x for each peer of a set.
ForEach(set, x, y) == [p \in Peers |-> IF p \in set THEN x ELSE y]

NoAnswers == ForEach({}, "none", "none")
NoTargets == [g \in Generators |-> None]

Init ==
  /\ \E lb \in LBs :
       settings = [p \in Peers |-> IF p \in Generators
                                     THEN [total_rate |-> 1, target |-> lb]
                                     ELSE InitialProfile]
  /\ up = Backends
  /\ job = [h \in Handlers |-> "idle"]
  /\ answer = [h \in Handlers |-> NoAnswers]
  /\ target = [h \in Handlers |-> NoTargets]
  /\ requests = 0
  /\ call = [h \in Handlers |-> ForEach({}, NoCall, NoCall)]
  /\ due = {}
  /\ inflight = [g \in Generators |-> 0]
  /\ named = settings
  /\ stale = {} /\ clobbered = {} /\ split = FALSE /\ moved = {}
  /\ late = [g \in Generators |-> 0]

----------------------------------------------------------------------------
(* The control service.                                                    *)

Answered(h) == \A p \in Peers : answer[h][p] # "waiting"

\* Mutation: a fan-out is ok when any peer is.
AnyOk(h) == \E p \in Peers : answer[h][p] = "ok"

AllOk(h) == \A p \in Peers : answer[h][p] # "failed"

\* h takes a request. Bound: not before the peers are done with its calls for
\* the last.
Begin(h) ==
  /\ job[h] = "idle" /\ \A p \in Peers : call[h][p] = NoCall
  /\ requests < MaxRequests
  /\ requests' = requests + 1

\* h posts values to every peer of a set at once.
Send(h, kind, set, values) ==
  /\ job' = [job EXCEPT ![h] = kind]
  /\ answer' = [answer EXCEPT ![h] = ForEach(set, "waiting", "none")]
  /\ call' = [call EXCEPT ![h] = ForEach(set, Called(values), NoCall)]
  /\ UNCHANGED <<settings, up, traffic, named, stale, clobbered>>

Overlaps(h, kind) == \E k \in Handlers \ {h} : job[k] = kind

\* handleRate and handleLB: fanOut to every generator.
SetRate(h) ==
  /\ Begin(h)
  /\ \E rate \in {0, 1} : Send(h, "rate", Generators, [total_rate |-> rate])
  /\ split' = (split \/ Overlaps(h, "rate"))
  /\ UNCHANGED <<target, moved>>

SetLB(h) ==
  /\ Begin(h)
  /\ \E lb \in LBs : Send(h, "lb", Generators, [target |-> lb])
  /\ split' = (split \/ Overlaps(h, "lb"))
  /\ UNCHANGED <<target, moved>>

\* handleBackend.
SetProfile(h) ==
  /\ Begin(h)
  /\ \E b \in Backends, fields \in Profiles :
       Send(h, "profile", {b}, [f \in fields |-> 1])
  /\ UNCHANGED <<target, split, moved>>

\* handleState and handleReloadInvalid: gatherGenerators.
Gather(h) ==
  /\ Begin(h)
  /\ \E kind \in {"state", "reload"} : job' = [job EXCEPT ![h] = kind]
  /\ answer' = [answer EXCEPT ![h] = ForEach(Generators, "waiting", "none")]
  /\ moved' = moved \ {h}
  /\ UNCHANGED <<settings, up, target, call, traffic, named, stale, clobbered, split>>

\* gatherBackends: an update of each backend that names nothing.
Poll(h) ==
  /\ job[h] = "state" /\ Answered(h)
  /\ Send(h, "poll", Backends, <<>>)
  /\ UNCHANGED <<target, requests, split, moved>>

\* Mutation: a generator that has not answered does not count.
ActiveAmongAnswers(h) ==
  LET answers == {target[h][g] : g \in Generators} \ {None}
  IN IF Cardinality(answers) = 1 THEN CHOOSE lb \in answers : TRUE ELSE None

\* activeLB: every generator has answered, and all with one target.
ActiveLB(h) ==
  LET answers == {target[h][g] : g \in Generators}
  IN IF Cardinality(answers) = 1 THEN CHOOSE lb \in answers : TRUE ELSE None

\* The invalid config is posted to the active LB, or the request is refused.
PostInvalid(h) ==
  /\ job[h] = "reload" /\ Answered(h)
  /\ job' = [job EXCEPT ![h] = IF ActiveLB(h) = None THEN "refused" ELSE "reloading"]
  /\ UNCHANGED <<settings, up, answer, target, requests, call, traffic, history>>

\* Every call has been answered or given up: the response is written, and of a
\* fan-out it says whether any peer failed (writeFanOut).
Report(h) ==
  /\ job[h] \in {"rate", "lb", "profile", "poll", "refused", "reloading"}
  /\ Answered(h)
  /\ job' = [job EXCEPT ![h] = "idle"]
  /\ answer' = [answer EXCEPT ![h] = NoAnswers]
  /\ target' = [target EXCEPT ![h] = NoTargets]
  /\ split' = (split \/ (job[h] \in {"rate", "lb"} /\ ~AllOk(h)))
  /\ moved' = moved \ {h}
  /\ UNCHANGED <<settings, up, requests, call, traffic, named, stale, clobbered>>

\* handlePower: the Engine kills or starts the container of a backend, which
\* fails its calls, and starts again with the profile of its environment. The
\* service keeps nothing of the request.
Kill(b) ==
  /\ b \in up
  /\ up' = up \ {b}
  /\ answer' = [h \in Handlers |->
                  [answer[h] EXCEPT ![b] = IF @ = "waiting" THEN "failed" ELSE @]]
  /\ call' = [h \in Handlers |-> [call[h] EXCEPT ![b] = NoCall]]
  /\ stale' = {c \in stale : c[2] # b}
  /\ UNCHANGED <<settings, job, target, requests, traffic, named, clobbered, split, moved>>

Revive(b) ==
  /\ b \in Backends \ up
  /\ up' = up \union {b}
  /\ settings' = [settings EXCEPT ![b] = InitialProfile]
  /\ named' = [named EXCEPT ![b] = InitialProfile]
  /\ clobbered' = clobbered \ {b}
  /\ UNCHANGED <<control, call, traffic, stale, split, moved>>

----------------------------------------------------------------------------
(* A call at a peer. The values it carries have been found valid.          *)

\* A generator's GET.
ReadGenerator(h, g) ==
  /\ job[h] \in {"state", "reload"} /\ answer[h][g] = "waiting"
  /\ target' = [target EXCEPT ![h][g] = settings[g].target]
  /\ answer' = [answer EXCEPT ![h][g] = "ok"]
  /\ UNCHANGED <<settings, up, job, requests, call, traffic, history>>

\* No connection, or no answer within requestTimeout: a peer that has received
\* the call goes on with it.
CallFails(h, p) ==
  /\ answer[h][p] = "waiting"
  /\ answer' = [answer EXCEPT ![h][p] = "failed"]
  /\ \/ UNCHANGED call
     \/ call[h][p].step = "called" /\ call' = [call EXCEPT ![h][p] = NoCall]
  /\ UNCHANGED <<settings, up, job, target, requests, traffic, history>>

\* handleUpdate of the generator and adminHandler of the backend: the load,
Load(h, p) ==
  /\ call[h][p].step = "called" /\ p \in Generators \union up
  /\ call' = [call EXCEPT ![h][p] = Loaded(@.with, settings[p])]
  /\ UNCHANGED <<settings, up, control, traffic, history>>

\* Mutation: a number the request omits is set to zero.
OverwriteNumbers(old, new) ==
  [f \in DOMAIN old |-> IF f \in DOMAIN new THEN new[f]
                        ELSE IF f = "target" THEN old[f] ELSE 0]

\* The copy: an omitted field keeps its value.
Overwrite(old, new) ==
  [f \in DOMAIN old |-> IF f \in DOMAIN new THEN new[f] ELSE old[f]]

\* and the store with the answer, which the service may have given up.
Store(h, p) ==
  LET c    == call[h][p]
      next == Overwrite(c.old, c.with)
      lost == <<h, p>> \in stale
  IN /\ c.step = "loaded"
     /\ settings' = [settings EXCEPT ![p] = next]
     /\ call' = [call EXCEPT ![h][p] = NoCall]
     /\ answer' = [answer EXCEPT ![h][p] = IF @ = "waiting" THEN "ok" ELSE @]
     /\ named' = [named EXCEPT ![p] =
                    [f \in DOMAIN @ |-> IF f \in DOMAIN c.with THEN c.with[f] ELSE @[f]]]
     /\ stale' = (stale \ {<<h, p>>})
                   \union {<<k, p>> : k \in {k \in Handlers \ {h} : call[k][p].step = "loaded"}}
     /\ clobbered' = clobbered \union {q \in {p} : lost}
     /\ split' = (split \/ (lost /\ p \in Generators))
     /\ IF p \in Generators
          THEN /\ moved' = IF next.target = settings[p].target THEN moved
                           ELSE {k \in Handlers : job[k] \in {"state", "reload", "reloading"}}
               /\ late' = [late EXCEPT ![p] = IF settings[p].total_rate = 0 /\ next.total_rate = 0
                                                THEN @ ELSE 0]
          ELSE UNCHANGED <<moved, late>>
     /\ UNCHANGED <<up, job, target, requests, due, inflight>>

----------------------------------------------------------------------------
(* generator.run.                                                          *)

TrafficKeeps == UNCHANGED <<settings, up, control, call, history>>

\* Mutation: the rate is read once, before the loop.
ScheduleAnyway(g) ==
  /\ g \notin due
  /\ due' = due \union {g}
  /\ TrafficKeeps /\ UNCHANGED <<inflight, late>>

\* At rate 0 the loop only polls the settings.
Schedule(g) ==
  /\ g \notin due /\ settings[g].total_rate > 0
  /\ due' = due \union {g}
  /\ TrafficKeeps /\ UNCHANGED <<inflight, late>>

\* arrival: a request, or one more dropped at the bound; never queued. The rate
\* may have changed since it was scheduled.
Arrive(g) ==
  /\ g \in due
  /\ due' = due \ {g}
  /\ inflight' = [inflight EXCEPT ![g] = IF @ < MaxInflight THEN @ + 1 ELSE @]
  /\ late' = [late EXCEPT ![g] = IF settings[g].total_rate = 0 THEN @ + 1 ELSE @]
  /\ TrafficKeeps

\* send completes or fails.
Deliver(g) ==
  /\ inflight[g] > 0
  /\ inflight' = [inflight EXCEPT ![g] = @ - 1]
  /\ TrafficKeeps /\ UNCHANGED <<due, late>>

Next ==
  \/ \E h \in Handlers :
       \/ SetRate(h) \/ SetLB(h) \/ SetProfile(h) \/ Gather(h) \/ Poll(h)
       \/ PostInvalid(h) \/ Report(h)
       \/ \E g \in Generators : ReadGenerator(h, g)
       \/ \E p \in Peers : CallFails(h, p) \/ Load(h, p) \/ Store(h, p)
  \/ \E b \in Backends : Kill(b) \/ Revive(b)
  \/ \E g \in Generators : Schedule(g) \/ Arrive(g) \/ Deliver(g)

Spec == Init /\ [][Next]_vars

----------------------------------------------------------------------------
\* A peer holds for every field the value the last update that named it gave it,
\* whatever other updates and polls came between and whatever the service was
\* told of them, unless an update of that peer stored over one it had not seen
\* ("an omitted field keeps its current value", dummy-backend/main.go:332,
\* traffic-generator/main.go:154): handleUpdate and adminHandler copy, change and
\* store without a lock.
UpdatesKept == \A p \in Peers \ clobbered : settings[p] = named[p]

\* The generators agree whenever no fan-out is under way, unless one was reported
\* failed or two of them raced: the page is never told ok about a fleet that is
\* split (fanOut and writeFanOut, control-service/main.go:916, ADR-0025 decision 4).
SplitIsReported ==
  (~split /\ \A h \in Handlers : job[h] \notin {"rate", "lb"}) =>
    \A g, k \in Generators : settings[g] = settings[k]

\* The invalid reload is posted to the LB that all generators send to, unless one
\* changed its target since the gather began (handleReloadInvalid: the gather and
\* the call are separate steps).
InvalidGoesToActive ==
  \A h \in Handlers \ moved :
    job[h] = "reloading" => \A g \in Generators : settings[g].target = ActiveLB(h)

\* A total rate of 0 stops a generator: of the arrivals scheduled before it, one
\* at most still comes (run, traffic-generator/main.go:286).
ZeroRateStops ==
  \A g \in Generators :
    settings[g].total_rate = 0 => late[g] + (IF g \in due THEN 1 ELSE 0) <= 1
=============================================================================
