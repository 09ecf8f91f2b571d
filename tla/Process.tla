------------------------------ MODULE Process ------------------------------
(***************************************************************************)
(* The process around the fleet: the boot sequence and the shutdown of     *)
(* App.Run (internal/app/app.go), the SIGHUP loop of main, the reload      *)
(* admin endpoint and the mutex they share (internal/app/admin.go), what a *)
(* reload does to the registry, the selector, the recorded config and the  *)
(* checker, and the checker's first probe round, which /startupz reports.  *)
(* What is loaded is a config file or a request body (Config).             *)
(*                                                                         *)
(* The reload is the one of Fleet at a coarser grain: Registry.Apply is    *)
(* one step, and drains and the series of backends are left to Fleet.      *)
(***************************************************************************)
EXTENDS Config

CONSTANTS Files,         \* what the file or a request body may hold when it parses
          StartFile,     \* the file at startup
          MaxInstances   \* bound: instances ever built per identity

ASSUME FilesAssumption == \A f \in Files \union {StartFile} : IsFile(f)
ASSUME StartFileAssumption == Accepted(StartFile)
ASSUME MaxInstancesAssumption == MaxInstances \in Nat \ {0}

\* A backend's identity: its name with its URL.
Identities == [name : Names, url : URLs]

Instances == Identities \X (1..MaxInstances)

\* The configs a process may be given.
Configs == {Resolved(f) : f \in {f \in Files \union {StartFile} : Accepted(f)}}

VARIABLES
  stopping,  \* SIGINT or SIGTERM has cancelled the process context
  run,       \* the step of App.Run
  toStart,   \* the backends Checker.Start has still to register
  hup,       \* a SIGHUP is queued in the channel
  loop,      \* the step of reloadLoop
  admin,     \* the step of an admin request
  mu,        \* who holds reloadMu
  job,       \* the step of the reload it is doing
  cfg,       \* the config being applied
  removing, adding,  \* the backends to stop probing, to start probing
  fleet, made,       \* the registry, in order; instances built per identity
  selector,  \* the algorithm of the proxy's selector
  algo,      \* the algorithms with a series in lb_algorithm_info
  loaded,    \* loadedCfg
  probers,   \* the checker's probers
  counted,   \* those whose first probe has been counted
  probed,    \* how many have been counted
  complete   \* probeRoundComplete

\* History.
VARIABLES
  unseen,    \* a SIGHUP was sent and the file has not been read since
  raced      \* a reload removed a backend Checker.Start had yet to register

signals  == <<hup, loop, unseen>>
reload   == <<mu, job, cfg, removing, adding>>
registry == <<fleet, made, selector, algo, loaded>>
round    == <<counted, probed, complete>>
vars == <<stopping, run, toStart, signals, admin, reload, registry, probers, round, raced>>

Start == Resolved(StartFile)

\* The first instances, one for each backend of a config.
FirstOf(c) == [k \in DOMAIN c.backends |-> <<c.backends[k], 1>>]

Init ==
  /\ stopping = FALSE
  /\ run = "boot" /\ toStart = {}
  /\ hup = FALSE /\ loop = "wait" /\ unseen = FALSE
  /\ admin = "idle"
  /\ mu = "free" /\ job = "none" /\ removing = {} /\ adding = {}
  /\ fleet = FirstOf(Start)
  /\ made = [b \in Identities |-> IF b \in Range(Start.backends) THEN 1 ELSE 0]
  /\ selector = Start.algorithm /\ algo = {Start.algorithm}
  /\ loaded = Start
  /\ cfg = loaded
  /\ probers = {}
  /\ counted = {} /\ probed = 0 /\ complete = FALSE
  /\ raced = FALSE

----------------------------------------------------------------------------
(* App.Run.                                                                *)

RunKeeps == UNCHANGED <<stopping, signals, admin, reload, registry, round, raced>>

\* Checker.Start loads the snapshot, then registers its backends one by one.
StartChecker ==
  /\ run = "boot"
  /\ run' = "starting"
  /\ toStart' = Range(fleet)
  /\ RunKeeps /\ UNCHANGED probers

\* Registering a backend that has a prober is a no-op.
StartProber(i) ==
  /\ run = "starting" /\ i \in toStart
  /\ toStart' = toStart \ {i}
  /\ probers' = probers \union {i}
  /\ RunKeeps /\ UNCHANGED run

Serve ==
  /\ run = "starting" /\ toStart = {}
  /\ run' = "serving"
  /\ RunKeeps /\ UNCHANGED <<toStart, probers>>

\* The process context is cancelled, or one of the servers has failed. Run then
\* shuts the client, metrics and health servers down in turn and returns, at the
\* first that does not stop in time or after the last: a behaviour may end at
\* any moment from here, and nothing is promised for it to do.
BeginShutdown ==
  /\ run = "serving"
  /\ run' = "shutdown"
  /\ RunKeeps /\ UNCHANGED <<toStart, probers>>

Run ==
  \/ StartChecker \/ Serve \/ BeginShutdown
  \/ \E i \in Instances : StartProber(i)

Stop ==
  /\ ~stopping
  /\ stopping' = TRUE
  /\ UNCHANGED <<run, toStart, signals, admin, reload, registry, probers, round, raced>>

----------------------------------------------------------------------------
(* SIGHUP and the loop of main. The channel holds one signal; another is   *)
(* dropped.                                                                *)

SignalKeeps ==
  UNCHANGED <<stopping, run, toStart, admin, reload, registry, probers, round, raced>>

Hup ==
  /\ hup' = TRUE /\ unseen' = TRUE
  /\ SignalKeeps /\ UNCHANGED loop

\* The select of reloadLoop: it may take a signal after the context is done.
TakeSignal ==
  /\ loop = "wait" /\ hup
  /\ hup' = FALSE
  /\ loop' = "drain"
  /\ SignalKeeps /\ UNCHANGED unseen

LoopExits ==
  /\ loop = "wait" /\ stopping
  /\ loop' = "exited"
  /\ SignalKeeps /\ UNCHANGED <<hup, unseen>>

DrainSignals ==
  /\ loop = "drain"
  /\ hup' = FALSE
  /\ loop' = "lock"
  /\ SignalKeeps /\ UNCHANGED unseen

\* POST /admin/reload, served from the start of the metrics server to its
\* shutdown, which follows the client server's.
PostReload ==
  /\ run \in {"serving", "shutdown"} /\ admin = "idle"
  /\ admin' = "lock"
  /\ UNCHANGED <<stopping, run, toStart, signals, reload, registry, probers, round, raced>>

----------------------------------------------------------------------------
(* ReloadFrom, by the loop or by the admin request, under reloadMu.        *)

Step(from, to) == job = from /\ job' = to

ReloadKeeps == UNCHANGED <<stopping, run, toStart, hup, admin, round>>

LockByLoop ==
  /\ loop = "lock" /\ mu = "free"
  /\ mu' = "loop" /\ job' = "load" /\ loop' = "reload"
  /\ ReloadKeeps
  /\ UNCHANGED <<unseen, cfg, removing, adding, registry, probers, raced>>

\* Mutation: the admin request does not wait for the mutex.
LockByAdminUnheld ==
  /\ admin = "lock"
  /\ mu' = "admin" /\ job' = "load" /\ admin' = "reload"
  /\ UNCHANGED <<stopping, run, toStart, signals, cfg, removing, adding, registry, probers,
                 round, raced>>

LockByAdmin ==
  /\ admin = "lock" /\ mu = "free"
  /\ mu' = "admin" /\ job' = "load" /\ admin' = "reload"
  /\ UNCHANGED <<stopping, run, toStart, signals, cfg, removing, adding, registry, probers,
                 round, raced>>

\* The loop reads the file, the admin request its body.
Seen == unseen' = (unseen /\ mu # "loop")

Unchanged == UNCHANGED <<loop, mu, cfg, removing, adding>>

\* The file or the body decodes, validates and changes nothing but the backends
\* and the algorithm of the recorded config.
Load ==
  /\ Step("load", "apply")
  /\ \E f \in Files :
       /\ Accepted(f)
       /\ NonBackendChanges(loaded, Resolved(f)) = {}
       /\ cfg' = Resolved(f)
  /\ \A b \in DiffBackends(loaded, cfg').added : made[b] < MaxInstances
  /\ Seen
  /\ ReloadKeeps
  /\ UNCHANGED <<loop, mu, removing, adding, registry, probers, raced>>

\* It does not parse, or it is none of those that Load takes: the reload is over
\* and nothing has changed.
Reject ==
  /\ Step("load", "record")
  /\ Seen
  /\ ReloadKeeps /\ Unchanged /\ UNCHANGED <<registry, probers, raced>>

\* Registry.Apply walks the new config in its order: an added backend gets a new
\* instance, an unchanged one keeps the instance of its name.
Apply ==
  LET diff      == DiffBackends(loaded, cfg)
      Fresh(b)  == <<b, made[b] + 1>>
      ByName(b) == CHOOSE i \in Range(fleet) : i[1].name = b.name
  IN /\ Step("apply", IF cfg.algorithm = loaded.algorithm THEN "store" ELSE "select")
     /\ adding' = {Fresh(b) : b \in diff.added}
     /\ removing' = {ByName(b) : b \in diff.removed}
     /\ fleet' = [k \in DOMAIN cfg.backends |->
                    LET b == cfg.backends[k]
                    IN IF b \in diff.added THEN Fresh(b) ELSE ByName(b)]
     /\ made' = [b \in Identities |-> made[b] + (IF b \in diff.added THEN 1 ELSE 0)]
     /\ ReloadKeeps
     /\ UNCHANGED <<loop, unseen, mu, cfg, selector, algo, loaded, probers, raced>>

SelectKeeps ==
  ReloadKeeps /\ UNCHANGED <<loop, unseen, mu, cfg, removing, adding, fleet, made, loaded,
                             probers, raced>>

SwitchSelector ==
  /\ Step("select", "show")
  /\ selector' = cfg.algorithm
  /\ SelectKeeps /\ UNCHANGED algo

\* Mutation: the previous algorithm is deleted first.
ShowFirst ==
  /\ Step("show", "hide")
  /\ algo' = algo \ {loaded.algorithm}
  /\ SelectKeeps /\ UNCHANGED selector

\* Collector.SetAlgorithm: a scrape may come between its two writes.
ShowAlgorithm ==
  /\ Step("show", "hide")
  /\ algo' = algo \union {cfg.algorithm}
  /\ SelectKeeps /\ UNCHANGED selector

HidePrevious ==
  /\ Step("hide", "store")
  /\ algo' = algo \ {loaded.algorithm}
  /\ SelectKeeps /\ UNCHANGED selector

StoreConfig ==
  /\ Step("store", "remove")
  /\ loaded' = cfg
  /\ ReloadKeeps
  /\ UNCHANGED <<loop, unseen, mu, cfg, removing, adding, fleet, made, selector, algo,
                 probers, raced>>

\* Mutation: the prober leaves the work list and is never stopped.
RemoveProberLeaking(i) ==
  /\ Step("remove", "remove") /\ i \in removing
  /\ removing' = removing \ {i}
  /\ raced' = (raced \/ i \in toStart)
  /\ ReloadKeeps /\ UNCHANGED <<loop, unseen, mu, cfg, adding, registry, probers>>

\* Checker.Remove of a backend without a prober is a no-op.
RemoveProber(i) ==
  /\ Step("remove", "remove") /\ i \in removing
  /\ removing' = removing \ {i}
  /\ probers' = probers \ {i}
  /\ raced' = (raced \/ i \in toStart)
  /\ ReloadKeeps /\ UNCHANGED <<loop, unseen, mu, cfg, adding, registry>>

AddProber(i) ==
  /\ Step("remove", "remove") /\ removing = {} /\ i \in adding
  /\ adding' = adding \ {i}
  /\ probers' = probers \union {i}
  /\ ReloadKeeps /\ UNCHANGED <<loop, unseen, mu, cfg, removing, registry, raced>>

Unlock ==
  /\ \/ job = "record"
     \/ job = "remove" /\ removing = {} /\ adding = {}
  /\ mu' = "free" /\ job' = "none" /\ cfg' = loaded
  /\ loop' = IF mu = "loop" THEN "wait" ELSE loop
  /\ admin' = IF mu = "admin" THEN "idle" ELSE admin
  /\ UNCHANGED <<stopping, run, toStart, unseen, removing, adding, registry, probers, round,
                 raced>>

\* Mutation: the loop drains the signals after the reload, not before it.
RecordDraining ==
  /\ Unlock
  /\ hup' = (hup /\ mu # "loop")

\* The outcome is recorded and the mutex unlocked; the config is forgotten.
Record ==
  /\ Unlock
  /\ UNCHANGED hup

Reload ==
  \/ Load \/ Reject \/ Apply \/ SwitchSelector \/ ShowAlgorithm \/ HidePrevious
  \/ StoreConfig \/ Record
  \/ \E i \in Instances : RemoveProber(i) \/ AddProber(i)

----------------------------------------------------------------------------
(* The first probe round. The checker compares with the size of the        *)
(* startup fleet.                                                          *)

\* The first probe of a prober. A prober whose context is cancelled drops it.
FirstProbe(i) ==
  /\ ~stopping
  /\ i \in probers \ counted
  /\ counted' = counted \union {i}
  /\ probed' = probed + 1
  /\ complete' = (complete \/ probed' = Len(Start.backends))
  /\ UNCHANGED <<stopping, run, toStart, signals, admin, reload, registry, probers, raced>>

Next ==
  \/ Run \/ Stop \/ Hup \/ TakeSignal \/ LoopExits \/ DrainSignals \/ PostReload
  \/ LockByLoop \/ LockByAdmin \/ Reload
  \/ \E i \in Instances : FirstProbe(i)

Spec == Init /\ [][Next]_vars

\* Goroutines that can run do, and sync.Mutex does not starve a waiter. Nobody
\* is assumed to stop the process or to send a request.
Fairness ==
  /\ WF_vars(StartChecker) /\ WF_vars(Serve)
  /\ WF_vars(TakeSignal) /\ WF_vars(DrainSignals)
  /\ SF_vars(LockByLoop) /\ WF_vars(Reload)
  /\ \A i \in Instances : WF_vars(StartProber(i)) /\ WF_vars(FirstProbe(i))

FairSpec == Spec /\ Fairness

----------------------------------------------------------------------------
TypeOK ==
  /\ stopping \in BOOLEAN /\ hup \in BOOLEAN /\ unseen \in BOOLEAN /\ raced \in BOOLEAN
  /\ run \in {"boot", "starting", "serving", "shutdown"}
  /\ toStart \subseteq Instances
  /\ loop \in {"wait", "drain", "lock", "reload", "exited"}
  /\ admin \in {"idle", "lock", "reload"}
  /\ mu \in {"free", "loop", "admin"}
  /\ job \in {"none", "load", "apply", "select", "show", "hide", "store", "remove", "record"}
  /\ cfg \in Configs /\ loaded \in Configs
  /\ removing \subseteq Instances /\ adding \subseteq Instances
  /\ Range(fleet) \subseteq Instances
  /\ made \in [Identities -> 0..MaxInstances]
  /\ selector \in Algorithms /\ algo \subseteq Algorithms
  /\ probers \subseteq Instances /\ counted \subseteq Instances
  /\ probed = Cardinality(counted)
  /\ complete \in BOOLEAN

\* Between reloads the recorded config is what the registry and the proxy run:
\* in its order, one instance for each of its backends, with the backend's URL,
\* and no two of a name. So the next diff is taken with the truth and successive
\* reloads compose, whichever trigger they come from and whatever was rejected
\* in between (app.go:281, ADR-0015 decisions 3 and 12).
LoadedIsServed ==
  mu = "free" =>
    /\ [k \in DOMAIN fleet |-> fleet[k][1]] = loaded.backends
    /\ \A i, j \in Range(fleet) : i[1].name = j[1].name => i = j
    /\ Len(fleet) = Cardinality(Range(fleet))
    /\ selector = loaded.algorithm

\* The configs that agree with the startup one on what cannot be reloaded.
Rollable == {c \in Configs : NonBackendChanges(Start, c) = {}}

Service == INSTANCE Rollout WITH
  Configs <- Rollable, config <- loaded, target <- cfg,
  backends <- [k \in DOMAIN fleet |-> fleet[k][1]], algorithm <- selector

\* Whatever the two triggers do, the reloads are a sequence of rollouts, of
\* configs that differ in nothing that cannot be reloaded: each is taken when the
\* one before it is recorded, the selector follows the registry, and the record
\* follows both (ReloadFrom, reloadLocked; ADR-0015 decisions 12, 14 and 18).
ImplementsRollout == Service!Spec

\* What a file says of the settings that cannot be reloaded, omitted ones at
\* their defaults.
Says(f) ==
  <<f.listen, f.h2c, f.tls,
    [k \in Settings |-> IF k \in DOMAIN f.settings THEN f.settings[k] ELSE Default(k)]>>

\* Which files a reload may take is settled at startup: one that is valid is
\* taken exactly when it says of the listeners, the timeouts and the transport
\* what the startup file said, written out or omitted. The comparison is with the
\* recorded config, so no series of reloads moves a setting the servers were
\* built with (NonBackendChanges; diff.go:64, ADR-0015 decision 4).
NoDrift ==
  job = "load" =>
    \A f \in {f \in Files : Accepted(f)} :
      NonBackendChanges(loaded, Resolved(f)) = {} <=> Says(f) = Says(StartFile)

\* A scrape never sees no current algorithm (metrics.go:237), and between reloads
\* it sees the one the proxy uses and no other.
ScrapeShowsAlgorithm ==
  algo # {} /\ (mu = "free" => algo = {selector})

\* Once Start has returned and no reload is running, exactly the backends of the
\* fleet are probed, though the SIGHUP loop runs before and during Start, unless
\* a reload removed a backend that Start had loaded and not yet registered.
ProbersMatchUnlessRaced ==
  (mu = "free" /\ run \notin {"boot", "starting"} /\ ~raced) => probers = Range(fleet)

\* After a SIGHUP the file is read: signals collapse, and none is lost to a
\* reload in progress (reloadLoop, drainSignals).
SignalIsServed == unseen ~> (~unseen \/ stopping \/ run = "shutdown")

\* "503 until config is loaded and the first active probe round is complete,
\* then permanently 200" (endpoint.go:81): the first round completes.
StartupCompletes == <>(complete \/ stopping \/ run = "shutdown")
=============================================================================
