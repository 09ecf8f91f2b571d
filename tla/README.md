# A formal model of l7LoadBalancer

TLA+ modules of the load balancer's concurrent core, of its configuration and of
the demo stack around it, the TLC runs that check them on small instances, and
TLAPS proofs of what matters most for every value of the constants.

The program is an HTTP reverse proxy in Go whose fleet can be reloaded while it
serves. Most of its state is in atomics with no lock over them: a request, the
reload, a prober, the outlier detector and a drain each touch the same backend
at their own pace. Unit tests and the chaos suite drive these in a few orders;
the models drive them in all.

## 1. The system

| Part | Source | State | Operations |
|---|---|---|---|
| Circuit breaker | `internal/backend/backend.go`, `internal/circuit/circuit.go` | one immutable snapshot (state, failures, trial, openedAt) behind an atomic pointer, per backend | `CircuitOpen`, `CircuitAllow`, `CircuitSuccess`, `CircuitFailure`, `RearmTrial`; the lazy promotion in `currentCircuit` |
| Registry | `internal/backend/registry.go` | a versioned snapshot of the fleet behind an atomic pointer; `removed` and the retired context of each backend | `Apply`, `All`, `Selectable`, `Allow`, `Snapshot`, `Version` |
| Proxy | `internal/proxy/proxy.go` | per request: its backend, whether its slot is taken, released; the selector pointer | `ServeHTTP`, `modifyResponse`, `errorHandler`, `observe`, `activate`, `release`, `SetSelector` |
| Reload | `internal/app/app.go` | `reloadMu`, the recorded config, the last outcome | `Reload`, `ReloadFrom`, `reloadLocked` |
| Drain | `internal/app/drain.go` | one goroutine per removed backend | `drainBackend`, `waitActiveZero`, `completeDrain` |
| Active checker | `internal/health/checker.go` | a prober goroutine per backend with its consecutive counts; the first-round latch | `Start`, `Add`, `Remove`, `probeOnce`, `markProbed` |
| Outlier detector | `internal/health/outlier.go` | a mutex and a window per backend | `ObserveRoundTrip`, `Forget` |
| Selectors | `internal/balancer` | the round-robin counter; the cached ring | `Select` of four algorithms, `currentRing` |
| Metrics | `internal/metrics` | gauges by backend name | increments, sets, seeds and deletions of series |
| Health endpoint | `internal/health/endpoint.go` | none | `livez`, `readyz`, `startupz` |
| Process | `cmd/l7LoadBalancer`, `internal/app` | signal channels, `runCtx`, `loadedCfg`, three HTTP servers | `reloadLoop`, `Run`, admin reload |
| Configuration | `internal/config` | none | `Load`, `Parse`, `Validate`, `NonBackendChanges`, `DiffBackends` |
| Demo stack | `demo/control-service`, `demo/traffic-generator`, `deployments/docker/dummy-backend` | a generator's settings and a backend's profile, each behind one atomic pointer; a generator's arrival loop | the control service's handlers, which fan out updates, gather states and kill or start containers; `handleUpdate`, `adminHandler`, `run`, `arrival` |

How they interact. A request asks the selector for a backend (which reads the
registry snapshot, the health flags, the circuits, the active counts), asks the
circuit for admission, takes a slot, makes the round trip, tells the outlier
detector and the circuit how it went (unless the backend was removed meanwhile),
streams the body and releases the slot. The reload swaps the snapshot, stops the
removed backends' probers, drops their windows, deletes their series, starts
their drains, and then seeds and starts what it added. A drain waits for its
backend's count to reach zero, cuts the rest off after a window, and deletes the
last series. All of these name a series by the backend's name, while the
requests and the drains hold backend instances: one name can have several.
The control service of the demo stack keeps nothing: every request to it calls
the generators or the backends at once and reports how that went.

What is hard: steps of these actors in orders nobody wrote a test for. The list
is in `PROJECT.json` under `hazards`, each at its line with the property that
covers it.

What makes each part correct:

- Circuit: the trial's slot always comes back; one trial at a time; a late outcome
  changes nothing; no outcome is lost in the CompareAndSwap loops.
- Registry and reload: when a reload returns, fleet, series, probers, selector and
  recorded config agree; a rejected reload changes nothing.
- Proxy: a slot taken is released once, on every way out; selection uses backends that
  were found healthy and then admitting while it ran.
- Drain: only a client can hold it up, and it touches no instance but its own.
- Checker: nothing is written for a backend after `Remove`; a dead backend is ejected and a
  live one reinstated; `/startupz` turns 200 after the first round.
- Outlier detector: its count is that of its window; one burst ejects once; flag and gauge agree.
- Selectors: the ring is of one snapshot and never goes back; turns are shared; samples are
  folded in once.
- Metrics: a series says what is the case once its writers are at rest, and none outlives
  its backend.
- Process: no signal is lost; two triggers never interleave.
- Configuration: a file is taken or refused as a whole, and no series of reloads moves what
  cannot be reloaded.
- Demo stack: an update changes only the fields it names; a split of the generators is never
  reported as success.

## 2. The modules

**`Circuit`**: the circuit of one backend as the rest of the program sees it,
each method one step. `circuit` is the snapshot, `cooled` the comparison of
`time.Since(openedAt)` with the cooldown (the only thing the code does with
time), `inflight` the requests admitted whose outcome is not recorded. A request
is admitted (`AdmitClosed`, `AdmitTrial`) and ends by an outcome (`Succeed`,
`Fail`), by having it suppressed because the backend was removed (`Suppressed`),
or by its client going away (`Abandon`, which is `RearmTrial`). `holder`,
`trials` and `stray` are history: who took the trial, which trials are in flight,
whether somebody else freed the slot.

**`CircuitExport`**: `Circuit` with `lb_circuit_state`, three series of which one is to
be 1. Whoever makes a transition exports it by three writes (`SetCircuitState`), after the
transition and before anything else it does; `target[r]` and `written[r]` are how far it
is. `AllowPromotes` and `Admitted` or `Denied` are the two halves of a `CircuitAllow` that
promotes, with the writes between them. A promotion by a scan exports nothing (ADR-0013
decision 13). `overlapped` is history.

**`CircuitCAS`**: the same methods as the goroutines run them, one load or one
CompareAndSwap a step. `seen[r]` is what r's last load returned; `stale` is the
set of goroutines whose loaded pointer has been replaced since (a snapshot is
never mutated and its address is not reused while held, so a swap succeeds
exactly when the loader is not stale). It implements `Circuit` under the mapping
that keeps the snapshot and calls a request in flight from its admission to the
swap that records its outcome. `upload` is where its body is being relayed.

**`Fleet`**: registry, reload, requests, drains, series. An instance is
`<<name, k>>`, the k-th backend built for that name. Each request is a program
counter (`selected` -> `counted` -> `joined` -> `observeOutlier` ->
`observeCircuit` -> `body` -> `release` -> `gaugeDec`), one step for each write
others can see: the slot and its gauge are two writes, and so are the two
observers. While it relays a body it is now and then at `upload` or `write`, where it
waits for its client and the context of its backend does not reach it. The reload
is a program counter as well, statement by statement of `reloadLocked` and `Registry.Apply`.
Each removed instance has a drain. `late` (an observer was told of a
backend already removed) and `raced` (the series of a name was overwritten in one of the five
orders that the checks of seed and drain leave open) are history: what they exclude is
reachable, and is listed below. Each order is marked where it happens, from the state the code
is in and not from what the checks decided, so that a check left out is not excused.

**`Health`**: one backend's flag and gauge, its prober, the detector's window and
the reload that removes it. The prober reads the flag, writes the gauge and
writes the flag in three steps without a lock; the detector's observation is one
step up to the ejection, whose flag and gauge writes are two more under its
mutex. `recent`, `reinstated`, `evidence` are history.

**`ConsistentHash`**: the ring selector over a registry that reloads replace: the
scan, the capacity, the cache with its load / Snapshot / CompareAndSwap, the walk
and the fallback, and the slots of the requests it placed. A ring is the set of
instances it was built from, and the constant `VNodes` the order of the virtual
nodes.

**`Selectors`**: the other three selectors over a fixed fleet. A selection is one step for each
read it makes (in the scan each backend's health flag, and of a healthy one then its circuit,
which this read itself may promote; each active count, each estimate), `using[r]` the selector the
request loaded, which a reload may have swapped since. The request then takes a slot, and records
its latency by a load and a CompareAndSwap of the estimate. `wasHealthy`, `wasSelectable` (not
open at some moment of the scan, and healthy then or before), `throughout`, `idle`, `busy`,
`turns`, `skewed` and `folded` are history.

**`Config`**: no state. A file is a record of abstract values that keeps apart what the
code does: a setting omitted, at its default, at another value, or rejected; a tls block
absent, complete or with an empty path; a name or URL malformed; a URL that is a variable,
set or not. `Decode`, `Normalize`, `Valid` are `decode`, the defaults and the checks of
`Validate`; `NonBackendChanges` and `DiffBackends` are diff.go.

**`Process`**: what surrounds a reload, over `Config`. `run` is how far `App.Run` has come,
with `toStart` the backends `Checker.Start` has read and not yet registered; `hup` the
one-place signal channel and `loop` the goroutine that reads it; `admin` a request
to `POST /admin/reload`; `mu` the reload mutex. Whoever holds it runs the steps of
`ReloadFrom` and `reloadLocked` (`job`): load a file or reject it, apply the diff with
`loaded`, swap the selector, write the two series of `SetAlgorithm`, record the config,
remove and add probers. The registry swap is one step here and drains and the series of
backends are left to `Fleet`. `fleet` is a sequence, since the order of the snapshot is what
round-robin takes turns in. `counted`, `probed` and `complete` are the first probe round,
which `/startupz` reports. `unseen` and `raced` are history. `MCProcess` has the files.

**`Rollout`**: what `Process` promises of a reload: `config` is the recorded config, `target`
the one on its way, `backends` and `algorithm` what is served. A config is taken when the last
one is recorded, and then the backends, the algorithm and the record follow in that order
(ADR-0015 decisions 12, 14 and 18). Mutex, instances, probers and series are not seen.

**`Demo`**: the control service with several requests at once (`job`, `answer`, `target`),
the calls they make to their peers (`call`), and the arrival loop of the generators (`due`,
`inflight`). An update at a peer is two steps, the load of the atomic pointer and the store of
the changed copy. A call can fail before it arrives, or be given up and still be served.
The Docker Engine is two actions, `Kill` and `Revive`. `named`, `stale`, `clobbered`, `split`,
`moved` and `late` are history.

How they compose: `CircuitCAS` implements `Circuit`, so does `CircuitExport` (proved), and
`Process` implements `Rollout` under the mapping that forgets which instance of a backend is
served (both checked and proved). `Fleet` uses the circuit as an observer that may be called or
not, `Process` the reload of `Fleet` in fewer steps, `ConsistentHash` the registry of `Fleet` as a
sequence of snapshots; these three share no state and the correspondence is by construction, not
by a theorem.

**`CircuitProofs`**, **`CircuitCASProofs`**, **`FleetProofs`**, **`HealthProofs`**,
**`ConsistentHashProofs`**, **`SelectorsProofs`**, **`ProcessProofs`**, **`DemoProofs`**: theorems
(section 5). `MCCircuit`, `MCCircuitCAS`, `MCFleet`, `MCConsistentHash`, `MCSelectors`, `MCDemo`
define the symmetry sets of the runs, and the order of the virtual nodes, of the registry, and the
requests to the demo.

Definitions whose comment begins "Mutation:" are wrong variants of the
definition that follows them. Nothing uses them: they show that a property
distinguishes the code from a plausible bug in it.

## 3. The runs

`tlc -workers 2 -config <cfg> <module>`. All bounds are constants; the counters of
the code that would grow for ever (versions, instances built) are bounded in the
guards of the actions that raise them, and each bound is named here.

| Run | Configuration | What it shows |
|---|---|---|
| `circuit` | `MCCircuit.cfg` | `NoWedge`: on a backend of the fleet a trial's flag always has a request in flight that will clear it. `OneTrialUnlessStray`: one trial at a time, as long as no request that took none freed the slot. `SeriesFaithfulUnlessOverlap`: with no export pending the three series say the circuit's state, as long as the last transition was not exported beside another. `OpenOutlastsCooldown`: an outcome that comes late touches an open circuit in no way. |
| `circuit_cas` | `MCCircuitCAS.cfg` | `ImplementsCircuit`: the CompareAndSwap loops are the atomic circuit. `FailuresCounted`: no failure lost or counted twice. `TrialEndsUnlessStalled`: a trial ends, unless the body of its request is never relayed to the end. |
| `fleet` | `MCFleet.cfg` | `ActiveExact`: the slots taken are exactly the requests that hold one, whichever of the wrapper and the error handler releases them. `FleetNeverRetired`: a drain never cuts off a backend in service, though both share a name. `DrainEndsUnlessStalled`: a drain ends, unless a client keeps one of its requests waiting for ever. |
| `fleet_two` | `MCFleetTwo.cfg` | `GaugeExactUnlessRaced`: the series that instances of one name share counts the requests on all of them, and a backend in service has it, through removals, returns, seeds and drains, until one of five orders overwrites it. It rests on the seed's look at the removed names and on the drain's look at the fleet: without either it fails. `ReloadSettles`: removals before additions, so a name that stays keeps its fresh series, and the fleet is what is probed. `NothingLeftBehind`: no window and no series of a backend that has left, but for an observer told late. |
| `health` | `MCHealth.cfg` | `WindowExact`: the failure count is the failures in the window. `EjectionIsVisible`: prober and detector agree on an ejection. `NoStaleEjection`: a failure that ejected a backend does not eject it twice. `NoProbeAfterRemove`: after `Remove` returned no probe writes. `DeadIsEjected`, `AliveRecovers`, `RemoveEnds`. |
| `ring` | `MCConsistentHash.cfg` | `RingIsCurrent`: a walk is over one whole published snapshot, no older than the request's scan. `CacheNeverRegresses`: a slow rebuild never puts an older ring over a newer one. `WalkIsComplete`: giving up, or falling back, only after every backend of the ring was met, once. |
| `selectors` | `MCSelectors.cfg` | `ChosenWasSelectable`, `NoFalseRefusal`: the set a scan makes may never have existed, yet a request gets a backend that was healthy and, at that moment of its scan or later, had a circuit that was not open; and it is refused only if none was eligible throughout. `TurnsAreShared`: no backend two turns ahead of another. `IdleNotPassedOver`: least connections over counts read at different moments. `SamplesFoldedOnce`: the loop on the latency estimate. |
| `process` | `MCProcess.cfg` | `LoadedIsServed`: between reloads the recorded config is what registry and proxy run, in its order, whatever was rejected in between, so the next diff is right. `NoDrift`: a valid file is taken exactly when it says of the listeners, timeouts and transport what the startup file said, after any series of reloads. `ScrapeShowsAlgorithm`: a scrape always sees an algorithm, and between reloads the right one. `ImplementsRollout`: whatever the two triggers do, the reloads are a sequence of rollouts. `ProbersMatchUnlessRaced`: the fleet is probed, and nothing else. `SignalIsServed`: after a SIGHUP the file is read again. |
| `demo` | `MCDemo.cfg` | `UpdatesKept`: a field holds what the last update that named it said, through polls, updates of other fields and calls given up, unless two updates of one peer raced. `SplitIsReported`: generators that disagree mean that a fan-out was reported failed, or that two raced. `InvalidGoesToActive`: the invalid reload goes to the balancer all generators send to, or nowhere. `ZeroRateStops`: one late arrival at most. |

Three runs end in a counterexample, each to a sentence of a comment of the code.

| Run | Sentence | What happens |
|---|---|---|
| `fleet_seed` | app.go:208, "the fresh instance must not reset a series the removed instance's requests are still decrementing" | A request is on `a`. A reload removes `a`, a later one adds it again: it finds `a` among the names to seed, since only the names *this* reload removed are skipped, and writes 0 to the series the request is counted in. |
| `health_gauge` | outlier.go:132, the log line and the gauge "can never disagree" | The detector clears the flag; the prober sees it, writes gauge 1 and sets the flag; the detector writes gauge 0. The backend is healthy and the gauge stays 0, for the prober writes it only for an unhealthy backend. |
| `process_startup` | endpoint.go:81, "503 until [...] the first active probe round is complete, then permanently 200" | A reload removes a startup backend before its first probe. The number of probers that have probed never reaches the size of the startup fleet. |

Further departures are reachable in the models and have no run of their own. Where a
property is "unless" one of them, the history variable named here is what excludes it.

- A request admitted while the circuit was closed is abandoned by its client during a later
  half-open episode: `RearmTrial` frees the slot of somebody else's trial, and a second trial
  starts beside it, where backend.go:305 has one (`Circuit`: `stray`).
- Two transitions exported at once interleave their three writes; all three series may be left at
  0, or two at 1 (`CircuitExport`: `overlapped`).
- The series of a name may be wrong, or missing, after five orders (`Fleet`: `raced`):
  `release` gives back the slot and then decrements the gauge, and a drain that looks in between
  finds the backend idle and deletes the series, which the decrement recreates at -1
  (`DeleteActive`); two removed instances of the name drain at once, and the first to be idle
  deletes the series the requests of the other are counted in (`DeleteActive`); a request
  that selected its backend before the removal takes its slot after the drain found it idle
  (`IncActive`); a drain finds its name unused, a reload adds the name, and the drain deletes
  the series of the new backend (`SwapSnapshot`); and the seed of `fleet_seed` (`Seed`).
- A half-open trial lasts as long as its request's body is being relayed, which may be for ever: the
  client stops sending where `ReadTimeout` is 0 (TLS and h2c), or the backend stops
  taking. The circuit denies the backend for that time (`TrialEndsUnlessStalled` names this as
  the one cause).
- A client that neither reads nor sends holds up the drain of its backend for ever: `Retire`
  cancels the context of the round trip, which a copy blocked in writing to the client does
  not see, no server has a `WriteTimeout` (app.go:453, config.go:217), and the second wait of
  `drainBackend` has no deadline (drain.go:59). The goroutine, and the backend's series, then
  last until the process stops. `DrainEndsUnlessStalled` names this as the one cause.
- A request can be given a backend that was eligible at no moment: it is found healthy while its
  circuit is open, then ejected, and then its circuit leaves the open state before it is
  read (registry.go:145).
- An observer is told of a backend removed since `observe` looked (proxy.go:258), and leaves a
  window or a series behind (`Fleet`: `late`).
- A backend is probed for ever though it has left the fleet, when a SIGHUP is handled while
  `Checker.Start` registers what it read: `Remove` finds no prober, and `Start` then starts it
  (`Process`: `raced`).
- Two updates of one generator or backend load the same value and the second store undoes the
  first; a poll of the page is such an update (`Demo`: `clobbered`).
- The fallback of the ring's `Select`, said to be unreachable (consistent_hash.go:104), is
  reached when two requests take their slots between a third's capacity and its walk, or
  when a backend is ejected for the first of the two looks the walk takes at its health: the
  argument of the comment holds at the scan (`CapacityHasRoom`) and not at the walk.

Why the bounds are enough.

- *Circuit.* The threshold of 3 is the code's: it has a first, a middle and a last failure. Two
  requests are a trial and a late outcome of an earlier admission; four leave room for late ones
  through a whole closed, open, half-open, open cycle, and for three exports at once. The proofs
  lift both bounds.
- *CircuitCAS.* Two goroutines are enough for every conflict of two loops on one
  pointer, which is all a CompareAndSwap can see; the threshold 2 has a failure that
  counts and one that opens. `RingSelector` is on: the ring picks a backend without
  reading its circuit, so admission must cope with a circuit the scan did not read.
- *Fleet.* `MaxInstances = 2` is one removal and one re-addition of the name, the
  shortest history in which a name has two instances at once. Two requests can sit on
  both. `fleet_two` has two names instead, so that a reload removes one and
  keeps or adds the other, and three instances in all (`MaxBuilt`): the name comes back in
  the same reload or in a later one, which are the two cases of the seed. A reload that changes
  nothing does nothing modelled here and is left out.
- *Health.* The probe thresholds are the code's own, 3 and 2. The window is 4 with
  ejection at 2 for the code's larger ones: it fills, wraps, ejects before and
  after it is full, and a burst straddles the wrap.
- *ConsistentHash.* Three snapshots are two reloads, so a rebuild can be two versions
  late; two names with interleaved virtual nodes `<<a, b, b, a>>` have walks that
  wrap and that meet a name twice. `Streams = 1` starts each backend with up to one
  long stream, so that candidates over capacity, and the fallback, occur.
- *Selectors.* The run starts with least connections, and a reload may swap in either of the
  others, so requests of the old and the new one run together. The health of both backends flips;
  `Tripping` bounds the backends whose circuit does to one, so that there is one whose two flags
  change independently beside one with a single flag. The proofs lift both bounds. Two backends,
  so that the order of the scan and of the comparisons matters and the remainder of the counter
  does too; two requests, one of which moves what the other reads; two selectors ever built.
  Latencies 1 and 2 make estimates 0, 1 and 2. The round-robin counter is kept modulo `Turns`, a
  common multiple of the lengths it is divided by, which changes no turn; the wrap of its 64 bits
  is out of reach of the program.
- *Process.* Both startup backends are read by `Start`, so a reload can fall before,
  between and after their registration. The files are the startup file, which omits most
  settings, one that writes every default out, reorders the backends and moves one to the URL
  of a variable, one that drops a backend and changes the algorithm, and one for each way to be
  refused: by decoding, by each check of `Validate`, and by each kind of change that cannot be
  reloaded. Two instances per identity are a removal and a return; `process_startup` needs one.
- *Demo.* Two generators can disagree; one backend can be polled, changed and killed; two requests
  at once (`Handlers`) are what can race, and `MaxRequests = 2` are those two or one after the
  other. The two `Profiles` name different fields, so that losing one shows.

Deadlock is not checked: the bounds stop the models, and nobody is obliged to send a
request, a signal or a reload. That nothing waits for ever is stated by the
liveness properties.

## 4. Fairness

Fairness is assumed of goroutines that can run, of the timers and timeouts the code
sets, and of a request whose context is cancelled; never of a client, a backend or an operator.

- `CircuitCAS`: `SF_vars(Ends)`: a request that has been admitted records its outcome, unless it
  waits for ever at `upload`, where its body is read from the client and written to the
  backend. The transport bounds the dial before that and the wait for the response headers
  after it (`buildTransport`, app.go:498), which is where the outcome is recorded, so
  a silent backend is a failure. `ReadTimeout` bounds the client's share of the body over
  plain HTTP only (app.go:425), and nothing bounds the backend's.
- `Fleet`: a reload's steps, a drain's steps, and a request's own steps between round
  trip and release. A response body may stream for ever, and a client may let its request
  wait for ever (`AtClient`), on a retired backend too. What must end is a request
  of a retired backend that again and again waits for that backend: its context is cancelled, so
  its round trip or its next read fails. This is `SF_vars(CutOff)`, strong because a request
  goes back and forth between backend and client. `DrainEndsUnlessStalled` rests on `Retire`
  reaching every request of the instance.
- `Health`: the ticker fires, and a probe has a timeout. `SF_vars(Exit)` says that a
  `select` with both the ticker and the cancelled context ready, again and again,
  takes the latter some time: Go chooses among ready cases at random.
- `CircuitExport`, `ConsistentHash`, `Selectors`, `Demo`: none; they have safety properties only.
- `Process`: `WF` for the boot, the signal loop, the reload and the probers, and
  `SF_vars(LockByLoop)`, for `sync.Mutex` hands the lock to a waiter starved for 1 ms.
  Nothing after the shutdown has begun is promised, since the process may exit.

## 5. The proofs

`CircuitProofs`, from `ThresholdAssumption` (the threshold is positive) and
`NoRequestAssumption`, for every set of requests, finite or not:

- `TypeCorrect`: `Spec => []TypeOK`. The failure count never reaches the
  threshold: `AfterFailureType`.
- `Inductive`: `Spec => []IInv` where `IInv` is `TypeOK`, `NoWedge`, and two facts
  neither safety invariant is inductive without: a trial flag is set only
  half-open (`TrialOnlyHalfOpen`: otherwise a success on a closed circuit would be
  allowed to leave a flag behind), and, until a stray release, the trials in flight
  are exactly what flag and holder say (`TrialsMatchFlag`).
- `NeverWedged`, `TrialExclusive` and `CooldownHolds` follow: the three properties
  the `circuit` run checks on four requests.
- `SeriesAreFaithful`: `ExportSpec => []SeriesFaithfulUnlessOverlap`, from `ExportInv`. The
  property speaks of the moments when no export is pending; between them one has to know
  that the only goroutine exporting writes a state that may be said, and that the series
  it has written say it already (`ExportIsFaithful`). `ExportImplementsCircuit` shows
  that the steps of the export are steps or stutters of `Circuit`, whose type invariant is used.

`CircuitCASProofs`, with the same assumptions, about the loops:

- `Inductive`: a goroutine between its load and its swap that is not stale has
  seen the current snapshot (`PinnedIsCurrent`), and the count of the snapshot is
  the history's (`FailuresCounted`).
- `CountsExact`: `FailuresCounted` always holds.
- `LoopsImplementCircuit`: the refinement. Each of the swaps is shown to be the
  step of `Circuit` it stands for (`PromoteSwapStep`, `TrialSwapStep`,
  `SuccessSwapStep`, `FailureSwapStep`, `RearmSwapStep`) and each load, or failed
  swap, a stutter or the end of a request.

`FleetProofs`, for every set of names and of requests and every bound on the instances
(`StartNamesAssumption`, `MaxInstancesAssumption`):

- `TypeCorrect` and `SlotsExact`, from `RequestInv`: that the holders of each instance's slots
  are a finite set is part of the invariant, for `Cardinality` says nothing of others and
  the set of requests may be infinite.
- `FleetIsNeverRetired` and `ReloadLeavesFleetServed`, from `ReloadInv`. `PlanIsSound` is what the
  diff guarantees while the reload carries it out: one instance a name, an added instance for
  a removed one whose name stays, and the fleet being the target with the two exchanged.
  `DrainsAreOfTheGone` is why a drain cannot hit its successor: it is of an instance that was
  built and has left, and instances are never built twice. `ProbersFollow` and `SeriesFollow`
  say how far along the removals and the seeds are.
- `NothingIsLeftBehind`, from `LeftoversInv`: a request is on a backend of the fleet or on one
  marked removed (`LeaversAreMarked`, which holds because the marking comes before the swap), and
  what is kept for another is still to be deleted by the reload, or came late.
- `GaugeCountsRequests`, from `GaugeInv`, with `RequestInv` and `ReloadInv`: the series of a name
  that was not raced counts its requests, each backend of the target has it or is still to be
  seeded by the reload in progress, and a drain that has decided to delete a series found its name
  out of the fleet, so the name is raced or still is (`DrainsAreDue`). A seed then writes 0 where
  nothing is counted, and a deletion takes a series that nothing is counted in: of the requests
  counted, those of the fleet are none, and those of other instances are a marked order.

`HealthProofs`, from `ThresholdsAssumption`, for all thresholds and windows:

- `EjectionShows`, from `FlagInv`: the prober's streak tells whether it has seen the flag
  down (`StreakAgrees`), and the gauge follows unless the detector is about to write it.
- `NoStaleEjectionHolds`, from `BurstIsFresh`: while the detector is armed the failures in its
  window are among those observed since the reinstatement.
- `NoProbeAfterRemoveHolds`: `Remove` returns after the prober's exit, and nothing starts it again.
- `WindowCounts`, from `WindowInv`: the ring holds the last outcomes at the slots counted back from
  `next` (`SlotOf`), and the count is that of the failures among them. The count alone is not
  inductive, since an observation subtracts what the slot it overwrites holds.

`ConsistentHashProofs`, from `MaxVersionAssumption`, `VNodesAssumption` (each name owns a
position) and `StreamsAssumption`, for every placement and any number of reloads:

- `WalksAreCurrent` and `CacheMovesForward` from `RingInv`, which says at each step of `currentRing`
  what the request holds: the ring of a published snapshot, then one that is newer than the
  cached one it read and no older than its scan.
- `CandidatesAreComplete`: over any set with one backend a name, from any position, the walk lists
  each backend once. What has been met after k positions is what their owners are
  (`MeetingCovers`, by induction on k), and the n positions from any start, modulo n, are all of
  them (`EveryOwnerIsMet`). `WalksAreComplete` follows, since a published snapshot never has two
  backends of a name (`NamesDiffer`), which is also why the walk may find an owner by its name.
- `CapacityHasRoom`: of every set a scan may find, one backend is within the capacity computed
  from it (`CapacityLeavesRoom`). A capacity is at least 5/4 of the mean of the set and at least
  1, so the sum of the loads is less than it would be if each of them were above the capacity
  (`CeilingCovers`).
  `SumsExist` and `SumIsAtLeast` are what the proof needs of `FoldSet`, by induction on the size
  of the set; that there are finitely many backends comes from the positions.

`SelectorsProofs`, from the assumptions of `Selectors`, for every registry, latencies and number
of selectors, and whatever circuits flip: `ChosenWasHealthyThenAdmitted` and `RefusalIsFair` from
`SelectInv` (a backend whose circuit is to be read was healthy, whom the scan has found had its
circuit not open at that moment or later, `WitnessesHold`; and the scan has found or is still to
look at whoever was eligible throughout, `ScanIsFair`); `IdleIsPreferred` from `LeastIsKept` (the
count kept is not above that of an idle backend already compared); `SamplesAreFolded`. The lemmas
on `Range` are about the sequences a selection walks. `TurnsGoRound`, from `TurnInv`: the turns
taken by a selector over one set of eligible backends are a window, those of the last m of its
cycle before the counter, and a scan lists a set in one way only (`ListingIsUnique`, for the
registry has an order). A turn moves the window by one (`WindowAdvances`), because the remainder
of the counter advances by one and wraps (`PhaseAdvances`), for which `Turns` has to be a multiple
of the number of backends.

`ProcessProofs`, from `FilesAssumption`, `StartFileAssumption`, `EnvAssumption` and
`MaxInstancesAssumption`, for every set of names, URLs, variables and files:

- `RecordedIsServed` and `ScrapesShowAlgorithm`, from `ReloadInv`: at each step of a reload the
  registry, the selector and the two series are those of the old config or of the new one,
  according to what has been done. `UnchangedIsFound` is the lemma on `Apply`: an unchanged
  backend is found in the fleet by its identity, so it keeps its instance.
- `SettingsNeverDrift`, from `SettingsInv`: the recorded config agrees with the startup config on the
  fixed settings, and two configs that agree differ in none of them (`ChangesAreDisagreements`).
- `FleetIsProbed`, from `ProbersInv`, which says what `Start` has registered, what is left to
  it, and how far the removals and additions of a reload are.
- `TypeCorrect`: what Load has compared the bound with is what Apply builds (`WithinBound`), and the
  count of first probes is the number of the probers that made one, as none is counted twice.
- `ReloadsImplementRollout`, from `ReloadInv` and `RolloutInv`: outside the steps between the loading
  and the recording of a config none is on its way (`CfgSettles`), so `Load` is `Accept`;
  `Apply` is `SwitchFleet`, the selector's swap `SwitchSelector`, `StoreConfig` `Record`, and every
  other step, of whatever trigger, a stutter.

`DemoProofs`, from `PeersAssumption`, for every set of peers, handlers and profiles:

- `UpdatesAreKept`, from `KeepInv`: an update that has loaded holds the current settings until
  another one stores, and a container that does not run serves none.
- `RateZeroStops`, from `RateInv`: what is due at a generator, and which calls carry a rate.
- `SplitsAreReported`, from `SplitInv` with `KeepInv`: until a split, a field has one fan-out at
  most (`Apart`); each of its calls is under way, or has stored the value, or has failed in the
  fan-out's sight (`UnderWay`); and on a field nobody sets the generators agree (`Agreed`).
- `InvalidReachesActive`, from `GatherInv`: what a gather has read is still true of its generator, unless
  one moved. That the active LB is every generator's rests on `Cardinality`, so on the
  generators being finite in number (`PeersAssumption`).

What is only model-checked is liveness: `TrialEndsUnlessStalled`, `DrainEndsUnlessStalled`, `DeadIsEjected`,
`AliveRecovers`, `RemoveEnds` and `SignalIsServed`. Fairness is stated with `ENABLED`, which the
prover does not handle. Every safety invariant and action property of the passing runs has its
theorem. In the other direction, `CapacityLeavesRoom` and the types of `Process` are proved and
are not among the properties of a run.

The inductions over positions, sizes and turns go by the least counterexample: a set of numbers
that is not empty has a least element (`LeastOf`, from `NatLessThanWellFounded`), so a set
that has 0 and the successor of each of its elements has every number (`SetInduction`).

## 6. What is not modelled, and why

- *Time.* The cooldown, the drain window, the probe interval and timeouts are events
  that may happen, not durations. A measured latency is any member of `Latencies`.
- *HTTP.* Headers, bodies, statuses, TLS, h2c and retries of the transport. A round trip
  succeeds, fails, or is abandoned by its client: the three tiers of `errorHandler`. An upgrade
  (101) is not modelled: `releaseBody` is not a writer, so `ReverseProxy` calls `errorHandler`
  after `modifyResponse`, and the observers are told twice of one round trip.
- *Selectors under a changing fleet.* `Selectors` has a fixed fleet and `ConsistentHash` a
  changing one; in `Fleet` any backend of the selectable set may be chosen.
- *The hash.* `VNodes` is an arbitrary placement; how evenly FNV-1a spreads is a statistical matter.
- *Counters, histograms and log lines*: nothing reads them. The gauges that say what the fleet,
  the circuits and the selector are have their modules.
- *The text of a configuration*: YAML, the syntax of names, URLs and addresses, and a reference in
  the middle of a URL. A value is well-formed or not, a URL a variable or not.
- *The outcome record of a reload*, written under the mutex and only reported.
- *What only reads*: `/livez`, `/readyz`, the page, the metrics and the load balancers' states of the
  control service, the generators' delivery counters.
- *The naive consistent hash*, an offline reproducer, and the logger.

Two facts the models settle that the code is careful about and need not be, or must be:
in `Select` of the ring the ring is read after the scan, so the case
consistent_hash.go:142 guards against, a ring older than the selectable set, does not
arise (`RingIsCurrent`); and a signal taken when the context is already cancelled may
still start a reload, since `select` chooses among ready cases (`TakeSignal` has
no guard on `stopping`), although main.go:188 says that a reload never races shutdown.

## 7. The plan

The order was the circuit and its loops; the fleet under reload; the probers and the
detector; the selectors; the process with its configuration; the demo stack; and the
proofs in the same order. What is left, by what it would add:

1. that `Fleet` implements `Rollout` too: its backends have no config, so this calls for the
   diff as an operation of `Fleet`;
2. the circuits in the ring: whether a backend of the ring is eligible is any Boolean now, and
   its admission is checked in `CircuitCAS` alone;
3. `/readyz` under a reload, when a service in front of the balancer is to act on it.
