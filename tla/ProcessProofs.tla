--------------------------- MODULE ProcessProofs ---------------------------
(***************************************************************************)
(* Theorems about Process, for every set of names, URLs, variables and     *)
(* files, and every bound on the instances.                                *)
(***************************************************************************)
EXTENDS Process, FiniteSetTheorems, TLAPS

(* What a config given to the process is like.                             *)

Distinct(bs) == \A i, j \in DOMAIN bs : bs[i].name = bs[j].name => i = j

\* Decoding leaves no variable in a URL, and validation no malformed one.
LEMMA BackendsAreIdentities ==
  ASSUME NEW f, IsFile(f), Accepted(f)
  PROVE  Resolved(f).backends \in Seq(Identities) /\ Distinct(Resolved(f).backends)
<1> DEFINE bs == f.backends
           es == Resolved(f).backends
<1>1. bs \in Seq([name : Names \union {Malformed}, url : URLs \union Vars \union {Malformed}])
  BY DEF IsFile
<1>2. es = [i \in DOMAIN bs |-> [name |-> bs[i].name, url |-> Expand(bs[i].url)]]
  <2>1. "backends" \in DOMAIN f
    BY DEF IsFile
  <2>2. Decode(f).backends = [i \in DOMAIN bs |-> [name |-> bs[i].name, url |-> Expand(bs[i].url)]]
    BY <2>1 DEF Decode
  <2>3. Resolved(f).backends = Decode(f).backends
    BY <2>1 DEF Resolved, Normalize, Decode
  <2> QED BY <2>2, <2>3
<1>3. ASSUME NEW i \in DOMAIN bs PROVE es[i] \in Identities
  <2>1. bs[i] \in [name : Names \union {Malformed}, url : URLs \union Vars \union {Malformed}]
    <3>1. ASSUME NEW R, bs \in Seq(R) PROVE bs[i] \in R
      BY <3>1
    <3> QED BY <1>1, <3>1
  <2>2. es[i].name = bs[i].name /\ es[i].url = Expand(bs[i].url)
    BY <1>2, <2>1
  <2>3. Expand(bs[i].url) # Unset
    BY DEF Accepted, Decodes, Range
  <2>4. es[i] \in Range(es)
    BY <1>2 DEF Range
  <2>5. es[i].name # Malformed /\ es[i].url # Malformed
    BY <2>4 DEF Accepted, Valid, ValidBackends, WellFormed
  <2>6. Expand(bs[i].url) \in URLs
    BY <2>1, <2>2, <2>3, <2>5, EnvAssumption DEF Expand
  <2>7. bs[i].name \in Names
    BY <2>1, <2>2, <2>5
  <2> QED BY <1>2, <2>1, <2>6, <2>7 DEF Identities
<1>4. es \in Seq(Identities)
  <2>1. DOMAIN bs = 1..Len(bs) /\ Len(bs) \in Nat
    BY <1>1
  <2>2. es \in [1..Len(bs) -> Identities]
    BY <1>2, <1>3, <2>1
  <2> QED BY <2>1, <2>2
<1>5. Distinct(es)
  BY DEF Accepted, Valid, ValidBackends, Distinct
<1> QED BY <1>4, <1>5

\* A config's backends are identities and no two share a name.
LEMMA ConfigsAreValid ==
  ASSUME NEW c \in Configs
  PROVE  c.backends \in Seq(Identities) /\ Distinct(c.backends)
<1>1. PICK f \in Files \union {StartFile} : Accepted(f) /\ c = Resolved(f)
  BY DEF Configs
<1>2. IsFile(f)
  BY FilesAssumption
<1> QED BY <1>1, <1>2, BackendsAreIdentities

\* The startup file gives a config.
LEMMA StartIsConfig == Start \in Configs
BY StartFileAssumption DEF Start, Configs

\* Two configs differ in nothing that cannot be reloaded.
Agree(c, d) ==
  /\ c.listen = d.listen /\ c.h2c = d.h2c /\ c.tls = d.tls
  /\ \A k \in Settings : c.settings[k] = d.settings[k]

\* A diff of the fixed settings is empty when they agree.
LEMMA ChangesAreDisagreements ==
  ASSUME NEW c, NEW d
  PROVE  NonBackendChanges(c, d) = {} <=> Agree(c, d)
<1>1. (\A s \in DOMAIN SectionFields : \A k \in SectionFields[s] :
         c.settings[k] = d.settings[k])
      <=> \A k \in Settings : c.settings[k] = d.settings[k]
  BY DEF Settings
<1>2. (c["listen"] = d["listen"] /\ c["h2c"] = d["h2c"])
      <=> {s \in {"listen", "h2c"} : c[s] # d[s]} = {}
  OBVIOUS
<1> QED BY <1>1, <1>2 DEF NonBackendChanges, TLSEqual, Agree

----------------------------------------------------------------------------
(* The reload.                                                             *)

\* The registry has one instance of each backend of c, in its order.
Serves(c) ==
  /\ DOMAIN fleet = DOMAIN c.backends
  /\ \A k \in DOMAIN fleet : fleet[k][1] = c.backends[k]

\* The steps of a reload after Registry.Apply, after SetSelector, and between
\* the two writes of the gauge.
Applied  == {"select", "show", "hide", "store"}
Switched == {"show", "hide", "store"}

\* The config that is served by the registry, and by the selector.
Applying  == IF job \in Applied THEN cfg ELSE loaded
Selecting == IF job \in Switched THEN cfg ELSE loaded

\* The algorithms the gauge shows.
Shown ==
  {c.algorithm : c \in (IF job = "store" THEN {} ELSE {loaded})
                         \union (IF job \in {"hide", "store"} THEN {cfg} ELSE {})}

Domains ==
  /\ cfg \in Configs /\ loaded \in Configs
  /\ fleet \in Seq(Identities \X Nat)
  /\ made \in [Identities -> Nat]
  /\ mu = "free" <=> job = "none"

\* Only an algorithm that changes is switched, or the last write would delete
\* the series of the current one.
SwitchIsChange == job \in {"select", "show", "hide"} => cfg.algorithm # loaded.algorithm

ReloadInv ==
  /\ Domains /\ SwitchIsChange
  /\ Serves(Applying) /\ selector = Selecting.algorithm /\ algo = Shown

\* The startup config is served.
LEMMA InitReload == Init => ReloadInv
<1> SUFFICES ASSUME Init PROVE ReloadInv
  OBVIOUS
<1>1. Start \in Configs /\ Start.backends \in Seq(Identities)
  BY StartIsConfig, ConfigsAreValid
<1>2. fleet \in Seq(Identities \X Nat) /\ Serves(Start)
  <2> DEFINE bs == Start.backends
  <2>1. fleet = [k \in DOMAIN bs |-> <<bs[k], 1>>]
    BY DEF Init, FirstOf
  <2>2. bs \in [1..Len(bs) -> Identities] /\ DOMAIN bs = 1..Len(bs) /\ Len(bs) \in Nat
    BY <1>1
  <2>3. fleet \in [1..Len(bs) -> Identities \X Nat]
    BY <2>1, <2>2
  <2> QED BY <2>1, <2>2, <2>3 DEF Serves
<1>3. Domains /\ loaded = Start /\ cfg = Start /\ job = "none"
  BY <1>1, <1>2 DEF Init, Domains
<1> QED BY <1>2, <1>3 DEF Init, ReloadInv, SwitchIsChange, Applying, Selecting, Shown,
                          Applied, Switched

\* Apply finds the instance of an unchanged backend by its name, and it is that
\* backend's.
LEMMA UnchangedIsFound ==
  ASSUME ReloadInv, job = "apply", NEW b \in Range(loaded.backends),
         NEW i, i = CHOOSE j \in Range(fleet) : j[1].name = b.name
  PROVE  i \in Range(fleet) /\ i[1] = b
<1>1. Serves(loaded) /\ Distinct(loaded.backends)
  BY ConfigsAreValid DEF ReloadInv, Domains, Applying, Applied
<1>2. PICK k \in DOMAIN loaded.backends : loaded.backends[k] = b
  BY DEF Range
<1>3. fleet[k] \in Range(fleet) /\ fleet[k][1].name = b.name
  BY <1>1, <1>2 DEF Serves, Range
<1>4. i \in Range(fleet) /\ i[1].name = b.name
  BY <1>3
<1>5. PICK l \in DOMAIN fleet : fleet[l] = i
  BY <1>4 DEF Range
<1>6. l = k
  BY <1>1, <1>2, <1>4, <1>5 DEF Serves, Distinct
<1> QED BY <1>1, <1>2, <1>4, <1>5, <1>6 DEF Serves

\* The registry swap gives the fleet of the new config, in its order.
LEMMA ApplyReload == ASSUME ReloadInv, Apply PROVE ReloadInv'
<1> DEFINE bs == cfg.backends
           Fresh(b)  == <<b, made[b] + 1>>
           ByName(b) == CHOOSE i \in Range(fleet) : i[1].name = b.name
           added == DiffBackends(loaded, cfg).added
<1>1. /\ fleet' = [k \in DOMAIN bs |->
                     IF bs[k] \in added THEN Fresh(bs[k]) ELSE ByName(bs[k])]
      /\ made' = [b \in Identities |-> made[b] + (IF b \in added THEN 1 ELSE 0)]
      /\ UNCHANGED <<mu, cfg, loaded, selector, algo>>
      /\ job = "apply"
      /\ job' = IF cfg.algorithm = loaded.algorithm THEN "store" ELSE "select"
  BY DEF Apply, Step
<1>2. bs \in [1..Len(bs) -> Identities] /\ DOMAIN bs = 1..Len(bs) /\ Len(bs) \in Nat
  BY ConfigsAreValid DEF ReloadInv, Domains
<1>3. made \in [Identities -> Nat] /\ fleet \in Seq(Identities \X Nat)
  BY DEF ReloadInv, Domains
<1>4. ASSUME NEW k \in DOMAIN bs
      PROVE  fleet'[k] \in Identities \X Nat /\ fleet'[k][1] = bs[k]
  <2>1. CASE bs[k] \in added
    BY <1>1, <1>2, <1>3, <2>1
  <2>2. CASE bs[k] \notin added
    <3>1. bs[k] \in Range(loaded.backends)
      BY <2>2 DEF DiffBackends, Range
    <3>2. ByName(bs[k]) \in Range(fleet) /\ ByName(bs[k])[1] = bs[k]
      BY <1>1, <3>1, UnchangedIsFound
    <3>3. Range(fleet) \subseteq Identities \X Nat
      BY <1>3 DEF Range
    <3>4. fleet'[k] = ByName(bs[k])
      BY <1>1, <2>2
    <3> QED BY <3>2, <3>3, <3>4
  <2> QED BY <2>1, <2>2
<1>5. fleet' \in Seq(Identities \X Nat) /\ DOMAIN fleet' = DOMAIN bs
  <2>1. fleet' \in [1..Len(bs) -> Identities \X Nat]
    BY <1>1, <1>2, <1>4
  <2> QED BY <1>2, <2>1
<1>6. made' \in [Identities -> Nat]
  BY <1>1, <1>3
<1>7. Domains' /\ SwitchIsChange'
  BY <1>1, <1>5, <1>6 DEF ReloadInv, Domains, SwitchIsChange
<1>8. Applying' = cfg /\ Serves(cfg)'
  BY <1>1, <1>4, <1>5 DEF Serves, Applying, Applied
<1>9. (selector = Selecting.algorithm)'
  BY <1>1 DEF ReloadInv, Selecting, Switched
<1>10. (algo = Shown)'
  BY <1>1 DEF ReloadInv, Shown
<1> QED BY <1>1, <1>7, <1>8, <1>9, <1>10 DEF ReloadInv, Serves

\* Every step keeps what is recorded and what is served in line.
LEMMA StepReload == ASSUME ReloadInv, [Next]_vars PROVE ReloadInv'
<1> USE DEF ReloadInv, Domains, SwitchIsChange, Serves, Applying, Selecting, Shown, Applied,
            Switched, Step
<1>1. CASE UNCHANGED <<mu, job, cfg, fleet, made, selector, algo, loaded>>
  BY <1>1
<1>2. CASE LockByLoop \/ LockByAdmin
  BY <1>2 DEF LockByLoop, LockByAdmin, registry
<1>3. CASE Load
  <2>1. PICK f \in Files : Accepted(f) /\ cfg' = Resolved(f)
    BY <1>3 DEF Load
  <2>2. cfg' \in Configs
    BY <2>1 DEF Configs
  <2> QED BY <1>3, <2>2 DEF Load, registry
<1>4. CASE Reject
  BY <1>4 DEF Reject, Unchanged, registry
<1>5. CASE Apply
  BY <1>5, ApplyReload
<1>6. CASE SwitchSelector
  BY <1>6 DEF SwitchSelector, SelectKeeps
<1>7. CASE ShowAlgorithm
  BY <1>7 DEF ShowAlgorithm, SelectKeeps
<1>8. CASE HidePrevious
  BY <1>8 DEF HidePrevious, SelectKeeps
<1>9. CASE StoreConfig
  BY <1>9 DEF StoreConfig
<1>10. CASE \E i \in Instances : RemoveProber(i) \/ AddProber(i)
  BY <1>10 DEF RemoveProber, AddProber, registry
<1>11. CASE Record
  BY <1>11 DEF Record, Unlock, registry
<1>12. CASE \/ Run \/ Stop \/ Hup \/ TakeSignal \/ LoopExits \/ DrainSignals \/ PostReload
            \/ \E i \in Instances : FirstProbe(i)
  BY <1>1, <1>12 DEF Run, StartChecker, StartProber, Serve, BeginShutdown, RunKeeps, Stop, Hup,
     TakeSignal, LoopExits, DrainSignals, SignalKeeps, PostReload, FirstProbe, reload, registry
<1> QED BY <1>1, <1>2, <1>3, <1>4, <1>5, <1>6, <1>7, <1>8, <1>9, <1>10, <1>11, <1>12
        DEF Next, Reload, vars, reload, registry

\* A reload goes from one served config to the next, step by step.
THEOREM ReloadsAreServed == Spec => []ReloadInv
BY InitReload, StepReload, PTL DEF Spec

\* The recorded config is what the registry and the selector run.
THEOREM RecordedIsServed == Spec => []LoadedIsServed
<1>1. ASSUME ReloadInv PROVE LoadedIsServed
  <2> SUFFICES ASSUME mu = "free"
               PROVE  /\ [k \in DOMAIN fleet |-> fleet[k][1]] = loaded.backends
                      /\ \A i, j \in Range(fleet) : i[1].name = j[1].name => i = j
                      /\ Len(fleet) = Cardinality(Range(fleet))
                      /\ selector = loaded.algorithm
    BY DEF LoadedIsServed
  <2> DEFINE bs == loaded.backends
  <2>1. Serves(loaded) /\ selector = loaded.algorithm /\ fleet \in Seq(Identities \X Nat)
    BY <1>1 DEF ReloadInv, Domains, Applying, Selecting, Applied, Switched
  <2>2. bs \in Seq(Identities) /\ Distinct(bs)
    BY <1>1, ConfigsAreValid DEF ReloadInv, Domains
  <2>3. [k \in DOMAIN fleet |-> fleet[k][1]] = bs
    BY <2>1, <2>2 DEF Serves
  <2>4. \A k, l \in DOMAIN fleet : fleet[k][1].name = fleet[l][1].name => k = l
    BY <2>1, <2>2 DEF Serves, Distinct
  <2>5. \A i, j \in Range(fleet) : i[1].name = j[1].name => i = j
    BY <2>4 DEF Range
  <2>6. Len(fleet) = Cardinality(Range(fleet))
    <3>1. DOMAIN fleet = 1..Len(fleet) /\ Len(fleet) \in Nat
      BY <2>1
    <3>2. fleet \in [1..Len(fleet) -> Range(fleet)]
      BY <2>1, <3>1 DEF Range
    <3>3. fleet \in Bijection(1..Len(fleet), Range(fleet))
      BY <2>4, <3>1, <3>2 DEF Bijection, Injection, Surjection, Range, IsInjective
    <3> QED BY <3>1, <3>3, FS_CountingElements DEF ExistsBijection
  <2> QED BY <2>1, <2>3, <2>5, <2>6
<1> QED BY <1>1, ReloadsAreServed, PTL

\* A scrape always finds an algorithm, between reloads that of the proxy.
THEOREM ScrapesShowAlgorithm == Spec => []ScrapeShowsAlgorithm
<1>1. ASSUME ReloadInv PROVE ScrapeShowsAlgorithm
  BY <1>1 DEF ReloadInv, Domains, Shown, Selecting, Switched, ScrapeShowsAlgorithm
<1> QED BY <1>1, ReloadsAreServed, PTL

----------------------------------------------------------------------------
(* The settings that cannot be reloaded.                                   *)

\* They are the startup file's in the recorded config and in the one applied.
SettingsInv == Agree(loaded, Start) /\ Agree(cfg, Start)

\* No step changes what the recorded config says of the fixed settings.
LEMMA StepSettings == ASSUME SettingsInv, [Next]_vars PROVE SettingsInv'
<1>1. CASE Load
  <2>1. NonBackendChanges(loaded, cfg') = {} /\ UNCHANGED loaded
    BY <1>1 DEF Load, registry
  <2>2. Agree(loaded, cfg')
    BY <2>1, ChangesAreDisagreements
  <2> QED BY <2>1, <2>2 DEF SettingsInv, Agree
<1>2. CASE StoreConfig \/ Record
  BY <1>2 DEF StoreConfig, Record, Unlock, registry, SettingsInv
<1>3. CASE UNCHANGED <<cfg, loaded>>
  BY <1>3 DEF SettingsInv
<1> QED BY <1>1, <1>2, <1>3
        DEF Next, Run, StartChecker, StartProber, Serve, BeginShutdown, RunKeeps, Stop, Hup,
            TakeSignal, LoopExits, DrainSignals, SignalKeeps, PostReload, FirstProbe,
            LockByLoop, LockByAdmin, Reload, Reject, Unchanged, Apply, SwitchSelector,
            ShowAlgorithm, HidePrevious, SelectKeeps, RemoveProber, AddProber,
            vars, reload, registry

\* The recorded config keeps what the startup file said of the fixed settings.
THEOREM SettingsStay == Spec => []SettingsInv
<1>1. Init => SettingsInv
  BY DEF Init, SettingsInv, Agree
<1> QED BY <1>1, StepSettings, PTL DEF Spec

\* What a file says and what it resolves to are one.
LEMMA SaysIsAgreement ==
  ASSUME NEW f, IsFile(f), NEW g, IsFile(g)
  PROVE  Says(f) = Says(g) <=> Agree(Resolved(f), Resolved(g))
<1> DEFINE Setting(h, k) == IF k \in DOMAIN h.settings THEN h.settings[k] ELSE Default(k)
<1>1. ASSUME NEW h, IsFile(h)
      PROVE  LET r == Resolved(h)
             IN  /\ r.listen = h.listen /\ r.h2c = h.h2c /\ r.tls = h.tls
                 /\ r.settings = [k \in Settings |-> Setting(h, k)]
  BY <1>1 DEF IsFile, Resolved, Normalize, Decode
<1>2. ASSUME NEW h, IsFile(h)
      PROVE  Says(h) = <<h.listen, h.h2c, h.tls, Resolved(h).settings>>
  <2>1. Says(h) = <<h.listen, h.h2c, h.tls, [k \in Settings |-> Setting(h, k)]>>
    BY DEF Says
  <2>2. Resolved(h).settings = [k \in Settings |-> Setting(h, k)]
    BY <1>1, <1>2
  <2> QED BY <2>1, <2>2
<1>3. Resolved(f).settings = Resolved(g).settings
      <=> \A k \in Settings : Resolved(f).settings[k] = Resolved(g).settings[k]
  <2> DEFINE r == Resolved(f).settings
             s == Resolved(g).settings
  <2>1. r = [k \in Settings |-> Setting(f, k)] /\ s = [k \in Settings |-> Setting(g, k)]
    BY <1>1
  <2>2. DOMAIN r = Settings /\ r = [k \in Settings |-> r[k]]
    BY <2>1
  <2>3. DOMAIN s = Settings /\ s = [k \in Settings |-> s[k]]
    BY <2>1
  <2> HIDE DEF r, s
  <2>4. r = s <=> \A k \in Settings : r[k] = s[k]
    BY <2>2, <2>3
  <2> QED BY <2>4 DEF r, s
<1>4. /\ Says(f) = <<f.listen, f.h2c, f.tls, Resolved(f).settings>>
      /\ Says(g) = <<g.listen, g.h2c, g.tls, Resolved(g).settings>>
  BY <1>2
<1>5. /\ Resolved(f).listen = f.listen /\ Resolved(f).h2c = f.h2c /\ Resolved(f).tls = f.tls
      /\ Resolved(g).listen = g.listen /\ Resolved(g).h2c = g.h2c /\ Resolved(g).tls = g.tls
  BY <1>1
<1> QED BY <1>3, <1>4, <1>5 DEF Agree

\* Which files may be reloaded is settled at startup.
THEOREM SettingsNeverDrift == Spec => []NoDrift
<1>1. ASSUME SettingsInv PROVE NoDrift
  <2> SUFFICES ASSUME NEW f \in Files, Accepted(f)
               PROVE  NonBackendChanges(loaded, Resolved(f)) = {} <=> Says(f) = Says(StartFile)
    BY DEF NoDrift
  <2>1. NonBackendChanges(loaded, Resolved(f)) = {} <=> Agree(loaded, Resolved(f))
    BY ChangesAreDisagreements
  <2>2. Agree(loaded, Resolved(f)) <=> Agree(Resolved(f), Start)
    BY <1>1 DEF SettingsInv, Agree
  <2>3. Says(f) = Says(StartFile) <=> Agree(Resolved(f), Start)
    BY FilesAssumption, SaysIsAgreement DEF Start
  <2> QED BY <2>1, <2>2, <2>3
<1> QED BY <1>1, SettingsStay, PTL

----------------------------------------------------------------------------
(* The probers.                                                            *)

\* The backends that are probed, or about to be since Start has loaded them.
Followed == probers \union toStart

\* A backend to stop probing has left the fleet, one to start probing is in it.
PlanIsSound ==
  /\ removing \intersect Range(fleet) = {} /\ adding \subseteq Range(fleet)
  /\ job \in {"none", "load", "apply", "record"} => removing = {} /\ adding = {}

\* Without a race nothing is followed but the fleet and what is about to be
\* stopped, and once Start has loaded the fleet all of it is followed but what
\* is about to be started.
ProbersInv ==
  /\ PlanIsSound
  /\ run # "starting" => toStart = {}
  /\ ~raced => Followed \subseteq Range(fleet) \union removing
  /\ ~raced /\ run # "boot" => Range(fleet) \ adding \subseteq Followed

\* An applied reload replaces what it adds and removes and nothing else.
LEMMA ApplyProbers == ASSUME ReloadInv, ProbersInv, Apply PROVE ProbersInv'
<1> DEFINE bs == cfg.backends
           Fresh(b)  == <<b, made[b] + 1>>
           ByName(b) == CHOOSE i \in Range(fleet) : i[1].name = b.name
           diff == DiffBackends(loaded, cfg)
<1>1. /\ fleet' = [k \in DOMAIN bs |->
                     IF bs[k] \in diff.added THEN Fresh(bs[k]) ELSE ByName(bs[k])]
      /\ adding' = {Fresh(b) : b \in diff.added}
      /\ removing' = {ByName(b) : b \in diff.removed}
      /\ job = "apply" /\ job' \in {"store", "select"}
      /\ UNCHANGED <<run, toStart, probers, raced, cfg, loaded>>
  BY DEF Apply, Step, ReloadKeeps
<1>2. removing = {} /\ adding = {}
  BY <1>1 DEF ProbersInv, PlanIsSound
<1>3. /\ diff.added = Range(bs) \ Range(loaded.backends)
      /\ diff.removed = Range(loaded.backends) \ Range(bs)
  BY DEF DiffBackends
<1>4. \A b \in Range(loaded.backends) : ByName(b) \in Range(fleet) /\ ByName(b)[1] = b
  BY <1>1, UnchangedIsFound
<1>5. ASSUME NEW i \in Range(fleet) PROVE i[1] \in Range(loaded.backends) /\ ByName(i[1]) = i
  <2>1. Serves(loaded) /\ Distinct(loaded.backends)
    BY <1>1, ConfigsAreValid DEF ReloadInv, Domains, Applying, Applied
  <2>2. PICK k \in DOMAIN fleet : fleet[k] = i
    BY DEF Range
  <2>3. i[1] = loaded.backends[k] /\ i[1] \in Range(loaded.backends)
    BY <2>1, <2>2 DEF Serves, Range
  <2>4. PICK l \in DOMAIN fleet : fleet[l] = ByName(i[1])
    BY <1>4, <2>3 DEF Range
  <2>5. loaded.backends[l] = loaded.backends[k]
    BY <1>4, <2>1, <2>3, <2>4 DEF Serves
  <2>6. l = k
    BY <2>1, <2>2, <2>4, <2>5 DEF Serves, Distinct
  <2> QED BY <2>2, <2>3, <2>4, <2>6
<1> HIDE DEF bs, Fresh, ByName, diff
<1>6. Range(fleet)' = adding' \union {ByName(b) : b \in Range(bs) \intersect Range(loaded.backends)}
  <2>1. Range(fleet)' = {IF b \in diff.added THEN Fresh(b) ELSE ByName(b) : b \in Range(bs)}
    BY <1>1 DEF Range
  <2> QED BY <1>1, <1>3, <2>1
<1>7. removing' \intersect Range(fleet)' = {}
  <2>1. \A i \in removing' : i[1] \notin Range(bs)
    BY <1>1, <1>3, <1>4
  <2>2. \A i \in Range(fleet)' : i[1] \in Range(bs)
    BY <1>1, <1>3, <1>4, <1>6 DEF Fresh
  <2> QED BY <2>1, <2>2
<1>8. Range(fleet) \subseteq Range(fleet)' \union removing'
  BY <1>1, <1>3, <1>5, <1>6
<1>9. Range(fleet)' \ adding' \subseteq Range(fleet)
  BY <1>4, <1>6
<1> QED BY <1>1, <1>2, <1>6, <1>7, <1>8, <1>9 DEF ProbersInv, PlanIsSound, Followed

\* Every step keeps the probers in line with the fleet.
LEMMA StepProbers == ASSUME ReloadInv, ProbersInv, [Next]_vars PROVE ProbersInv'
<1> USE DEF ProbersInv, PlanIsSound, Followed, Step
<1>1. CASE StartChecker \/ Serve \/ BeginShutdown \/ \E i \in Instances : StartProber(i)
  BY <1>1 DEF StartChecker, Serve, BeginShutdown, StartProber, RunKeeps, reload, registry
<1>2. CASE LockByLoop \/ LockByAdmin \/ Load \/ Reject
  <2>1. mu = "free" => job = "none"
    BY DEF ReloadInv, Domains
  <2> QED BY <1>2, <2>1
          DEF LockByLoop, LockByAdmin, Load, Reject, Unchanged, ReloadKeeps, registry
<1>3. CASE Apply
  BY <1>3, ApplyProbers
<1>4. CASE SwitchSelector \/ ShowAlgorithm \/ HidePrevious
  BY <1>4 DEF SwitchSelector, ShowAlgorithm, HidePrevious, SelectKeeps, ReloadKeeps
<1>5. CASE StoreConfig
  BY <1>5 DEF StoreConfig, ReloadKeeps
<1>6. ASSUME NEW i \in Instances, RemoveProber(i) PROVE ProbersInv'
  BY <1>6 DEF RemoveProber, ReloadKeeps, registry
<1>7. ASSUME NEW i \in Instances, AddProber(i) PROVE ProbersInv'
  BY <1>7 DEF AddProber, ReloadKeeps, registry
<1>8. CASE Record
  BY <1>8 DEF Record, Unlock, registry
<1>9. CASE UNCHANGED <<run, toStart, reload, registry, probers, raced>>
  BY <1>9 DEF reload, registry
<1>10. CASE \/ Stop \/ Hup \/ TakeSignal \/ LoopExits \/ DrainSignals \/ PostReload
            \/ \E i \in Instances : FirstProbe(i)
  BY <1>9, <1>10 DEF Stop, Hup, TakeSignal, LoopExits, DrainSignals, SignalKeeps, PostReload,
     FirstProbe
<1> QED BY <1>1, <1>2, <1>3, <1>4, <1>5, <1>6, <1>7, <1>8, <1>9, <1>10
        DEF Next, Run, Reload, vars

\* Between reloads exactly the fleet is probed, unless a reload removed a backend
\* that Checker.Start had loaded and not yet registered.
THEOREM FleetIsProbed == Spec => []ProbersMatchUnlessRaced
<1>1. Init => ProbersInv
  BY DEF Init, ProbersInv, PlanIsSound, Followed
<1>2. ASSUME ReloadInv, ProbersInv PROVE ProbersMatchUnlessRaced
  BY <1>2 DEF ReloadInv, Domains, ProbersInv, PlanIsSound, Followed, ProbersMatchUnlessRaced
<1> QED BY <1>1, <1>2, ReloadsAreServed, StepProbers, PTL DEF Spec

----------------------------------------------------------------------------
(* Type correctness.                                                       *)

\* What Load has compared the bound with, Apply finds.
WithinBound ==
  job = "apply" => \A b \in DiffBackends(loaded, cfg).added : made[b] < MaxInstances

TypeInv == TypeOK /\ IsFiniteSet(counted) /\ WithinBound

\* A config names an algorithm the code knows.
LEMMA ConfigsNameAlgorithms ==
  ASSUME NEW c \in Configs
  PROVE  c.algorithm \in Algorithms
BY DEF Configs, Accepted, Valid

\* The process starts well typed, with one instance of each backend.
LEMMA InitType == Init => TypeInv
<1> SUFFICES ASSUME Init PROVE TypeInv
  OBVIOUS
<1>1. /\ Start \in Configs /\ Start.backends \in Seq(Identities)
      /\ Start.algorithm \in Algorithms
  BY StartIsConfig, ConfigsAreValid, ConfigsNameAlgorithms
<1>2. 0 \in 0..MaxInstances /\ 1 \in 1..MaxInstances /\ 1 \in 0..MaxInstances
  BY MaxInstancesAssumption
<1>3. Range(fleet) \subseteq Instances
  <2>1. \A k \in DOMAIN Start.backends : Start.backends[k] \in Identities
    BY <1>1
  <2>2. fleet = [k \in DOMAIN Start.backends |-> <<Start.backends[k], 1>>]
    BY DEF Init, FirstOf
  <2> QED BY <1>2, <2>1, <2>2 DEF Range, Instances
<1>4. made \in [Identities -> 0..MaxInstances]
  BY <1>2 DEF Init
<1>5. probed = Cardinality(counted) /\ IsFiniteSet(counted)
  BY FS_EmptySet DEF Init
<1> QED BY <1>1, <1>3, <1>4, <1>5 DEF Init, TypeInv, TypeOK, WithinBound

\* The instances of a reload are within the bound, the old ones are the fleet's.
LEMMA ApplyType == ASSUME ReloadInv, TypeInv, Apply PROVE TypeInv'
<1> DEFINE bs == cfg.backends
           Fresh(b)  == <<b, made[b] + 1>>
           ByName(b) == CHOOSE i \in Range(fleet) : i[1].name = b.name
           diff == DiffBackends(loaded, cfg)
<1>1. /\ fleet' = [k \in DOMAIN bs |->
                     IF bs[k] \in diff.added THEN Fresh(bs[k]) ELSE ByName(bs[k])]
      /\ made' = [b \in Identities |-> made[b] + (IF b \in diff.added THEN 1 ELSE 0)]
      /\ adding' = {Fresh(b) : b \in diff.added}
      /\ removing' = {ByName(b) : b \in diff.removed}
      /\ job = "apply" /\ job' \in {"store", "select"}
      /\ UNCHANGED <<stopping, hup, unseen, raced, run, toStart, loop, admin, mu, cfg, loaded,
                     selector, algo, probers, counted, probed, complete>>
  BY DEF Apply, Step, ReloadKeeps, round
<1>2. /\ made \in [Identities -> 0..MaxInstances] /\ MaxInstances \in Nat
      /\ Range(fleet) \subseteq Instances
      /\ \A b \in diff.added : made[b] < MaxInstances
  BY <1>1, MaxInstancesAssumption DEF TypeInv, TypeOK, WithinBound
<1>3. \A b \in Range(bs) : b \in Identities
  BY ConfigsAreValid DEF ReloadInv, Domains, Range
<1>4. /\ diff.added = Range(bs) \ Range(loaded.backends)
      /\ diff.removed = Range(loaded.backends) \ Range(bs)
  BY DEF DiffBackends
<1>5. \A b \in Range(loaded.backends) : ByName(b) \in Instances
  BY <1>1, <1>2, UnchangedIsFound
<1>6. \A b \in diff.added : Fresh(b) \in Instances
  <2> SUFFICES ASSUME NEW b \in diff.added PROVE Fresh(b) \in Instances
    OBVIOUS
  <2>1. b \in Identities
    BY <1>3, <1>4
  <2>2. made[b] + 1 \in 1..MaxInstances
    BY <1>2, <2>1
  <2> QED BY <2>1, <2>2 DEF Instances
<1>7. made' \in [Identities -> 0..MaxInstances]
  <2>1. ASSUME NEW b \in Identities
        PROVE  made[b] + (IF b \in diff.added THEN 1 ELSE 0) \in 0..MaxInstances
    BY <1>2
  <2> QED BY <1>1, <2>1
<1> HIDE DEF bs, Fresh, ByName, diff
<1>8. Range(fleet)' \subseteq Instances
  <2>1. Range(fleet)' = {IF b \in diff.added THEN Fresh(b) ELSE ByName(b) : b \in Range(bs)}
    BY <1>1 DEF Range
  <2> QED BY <1>4, <1>5, <1>6, <2>1
<1>9. adding' \subseteq Instances /\ removing' \subseteq Instances
  BY <1>1, <1>4, <1>5, <1>6
<1> QED BY <1>1, <1>7, <1>8, <1>9 DEF TypeInv, TypeOK, WithinBound

\* A first probe is counted once.
LEMMA ProbeType == ASSUME TypeInv, NEW i \in Instances, FirstProbe(i) PROVE TypeInv'
<1>1. /\ counted' = counted \union {i} /\ i \notin counted /\ probed' = probed + 1
      /\ complete' = (complete \/ probed' = Len(Start.backends))
      /\ UNCHANGED <<stopping, hup, unseen, raced, run, toStart, loop, admin, mu, job, cfg,
                     loaded, removing, adding, fleet, made, selector, algo, probers>>
  BY DEF FirstProbe, signals, reload, registry
<1>2. IsFiniteSet(counted') /\ Cardinality(counted') = Cardinality(counted) + 1
  BY <1>1, FS_AddElement DEF TypeInv
<1> QED BY <1>1, <1>2 DEF TypeInv, TypeOK, WithinBound

\* Every step keeps the types.
LEMMA StepType == ASSUME ReloadInv, TypeInv, [Next]_vars PROVE TypeInv'
<1> USE DEF TypeInv, TypeOK, WithinBound, Step
<1>1. CASE UNCHANGED vars
  BY <1>1 DEF vars, signals, reload, registry, round
<1>2. CASE Run
  BY <1>2 DEF Run, StartChecker, StartProber, Serve, BeginShutdown, RunKeeps, signals, reload,
     registry, round
<1>3. CASE Stop \/ PostReload
  <2>1. /\ stopping' \in BOOLEAN /\ admin' \in {"idle", "lock", "reload"}
        /\ UNCHANGED <<run, toStart, hup, loop, unseen, mu, job, cfg, removing, adding, fleet,
                       made, selector, algo, loaded, probers, counted, probed, complete, raced>>
    BY <1>3 DEF Stop, PostReload, signals, reload, registry, round
  <2> QED BY <2>1
<1>4. CASE Hup \/ TakeSignal \/ LoopExits \/ DrainSignals
  <2>1. /\ hup' \in BOOLEAN /\ unseen' \in BOOLEAN
        /\ loop' \in {"wait", "drain", "lock", "reload", "exited"}
    BY <1>4 DEF Hup, TakeSignal, LoopExits, DrainSignals
  <2>2. UNCHANGED <<stopping, run, toStart, admin, mu, job, cfg, removing, adding, fleet,
                    made, selector, algo, loaded, probers, counted, probed, complete, raced>>
    BY <1>4 DEF Hup, TakeSignal, LoopExits, DrainSignals, SignalKeeps, reload, registry, round
  <2> QED BY <2>1, <2>2
<1>5. CASE LockByLoop \/ LockByAdmin
  BY <1>5 DEF LockByLoop, LockByAdmin, ReloadKeeps, signals, registry, round
<1>6. CASE Load
  <2>1. PICK f \in Files : Accepted(f) /\ cfg' = Resolved(f)
    BY <1>6 DEF Load
  <2>2. cfg' \in Configs
    BY <2>1 DEF Configs
  <2>3. \A b \in DiffBackends(loaded, cfg').added : made[b] < MaxInstances
    BY <1>6 DEF Load
  <2> QED BY <1>6, <2>2, <2>3 DEF Load, Seen, ReloadKeeps, registry, round
<1>7. CASE Reject
  BY <1>7 DEF Reject, Seen, Unchanged, ReloadKeeps, registry, round
<1>8. CASE Apply
  BY <1>8, ApplyType
<1>9. CASE SwitchSelector \/ ShowAlgorithm \/ HidePrevious
  BY <1>9, ConfigsNameAlgorithms
  DEF SwitchSelector, ShowAlgorithm, HidePrevious, SelectKeeps, ReloadKeeps, round
<1>10. CASE StoreConfig
  BY <1>10 DEF StoreConfig, ReloadKeeps, round
<1>11. ASSUME NEW i \in Instances, RemoveProber(i) \/ AddProber(i) PROVE TypeInv'
  <2>1. /\ UNCHANGED <<stopping, run, toStart, hup, admin, loop, unseen, mu, cfg, fleet, made,
                       selector, algo, loaded, counted, probed, complete>>
        /\ job' = "remove"
    BY <1>11 DEF RemoveProber, AddProber, ReloadKeeps, registry, round
  <2>2. removing' \subseteq Instances /\ adding' \subseteq Instances /\ probers' \subseteq Instances
    BY <1>11 DEF RemoveProber, AddProber
  <2>3. raced' \in BOOLEAN
    BY <1>11 DEF RemoveProber, AddProber
  <2> QED BY <2>1, <2>2, <2>3
<1>12. CASE Record
  BY <1>12 DEF Record, Unlock, registry, round
<1>13. CASE \E i \in Instances : FirstProbe(i)
  BY <1>13, ProbeType
<1> QED BY <1>1, <1>2, <1>3, <1>4, <1>5, <1>6, <1>7, <1>8, <1>9, <1>10, <1>11, <1>12, <1>13
        DEF Next, Reload

\* The process keeps its types: the configs recorded and applied are accepted
\* ones, what is probed, removed and added are instances within the bound, and
\* the counter of first probes is the number of probers that have probed.
THEOREM TypeCorrect == Spec => []TypeOK
<1>1. TypeInv => TypeOK
  BY DEF TypeInv
<1> QED BY <1>1, InitType, StepType, ReloadsAreServed, PTL DEF Spec

----------------------------------------------------------------------------
(* The reloads are rollouts.                                               *)

\* Outside the steps that bring a config into force none is on its way.
Underway  == Applied \union {"apply"}
CfgSettles == job \notin Underway => cfg = loaded

\* What has been reloaded agrees with the startup config.
RolloutInv ==
  CfgSettles /\ cfg \in Rollable /\ loaded \in Rollable

\* A config agrees with itself.
LEMMA StartIsRollable == Start \in Rollable
<1>1. NonBackendChanges(Start, Start) = {} <=> Agree(Start, Start)
  BY ChangesAreDisagreements
<1> QED BY <1>1, StartIsConfig DEF Rollable, Agree

\* What agrees with a config that may be reloaded may be reloaded.
LEMMA RollableIsKept ==
  ASSUME NEW c \in Rollable, NEW d \in Configs, NonBackendChanges(c, d) = {}
  PROVE  d \in Rollable
<1>1. Agree(Start, c) /\ Agree(c, d)
  BY ChangesAreDisagreements DEF Rollable
<1>2. NonBackendChanges(Start, d) = {}
  BY <1>1, ChangesAreDisagreements DEF Agree
<1> QED BY <1>2 DEF Rollable

\* The config that Load accepts may follow the recorded one, and none but those
\* does.
LEMMA LoadRollout ==
  ASSUME RolloutInv, Load
  PROVE  RolloutInv' /\ Service!Accept(cfg') /\ cfg' \in Rollable
<1>1. /\ job = "load" /\ job' = "apply"
      /\ UNCHANGED <<loaded, fleet, selector>>
  BY DEF Load, Step, registry
<1>2. cfg' \in Configs /\ NonBackendChanges(loaded, cfg') = {}
  <2>1. PICK f \in Files : /\ Accepted(f) /\ cfg' = Resolved(f)
                           /\ NonBackendChanges(loaded, Resolved(f)) = {}
    BY DEF Load
  <2> QED BY <2>1 DEF Configs
<1>3. cfg' \in Rollable
  BY <1>2, RollableIsKept DEF RolloutInv
<1>4. cfg = loaded
  BY <1>1 DEF RolloutInv, CfgSettles, Underway, Applied
<1> QED BY <1>1, <1>3, <1>4 DEF RolloutInv, CfgSettles, Underway, Service!Accept

\* Registry.Apply brings the backends of the config into force.
LEMMA ApplyRollout ==
  ASSUME ReloadInv, RolloutInv, Apply
  PROVE  RolloutInv' /\ Service!SwitchFleet
<1>1. job' \in {"store", "select"} /\ UNCHANGED <<cfg, loaded, selector>>
  BY DEF Apply, Step
<1>2. ReloadInv' /\ Applying' = cfg'
  BY <1>1, ApplyReload DEF Applying, Applied
<1>3. Serves(cfg)'
  BY <1>2 DEF ReloadInv, Serves
<1>4. cfg'.backends \in Seq(Identities)
  BY <1>2, ConfigsAreValid DEF ReloadInv, Domains
<1>5. [k \in DOMAIN fleet |-> fleet[k][1]]' = cfg.backends
  BY <1>1, <1>3, <1>4 DEF Serves
<1> QED BY <1>1, <1>5 DEF RolloutInv, CfgSettles, Underway, Applied, Service!SwitchFleet

\* Each step of a reload is a step of its rollout or none.
LEMMA StepRollout ==
  ASSUME ReloadInv, RolloutInv, [Next]_vars
  PROVE  RolloutInv' /\ [Service!Next]_(Service!vars)
<1> DEFINE Backends == [k \in DOMAIN fleet |-> fleet[k][1]]
<1>1. ASSUME UNCHANGED <<job, cfg, fleet, selector, loaded>>
      PROVE  RolloutInv' /\ UNCHANGED Service!vars
  BY <1>1 DEF RolloutInv, CfgSettles, Service!vars
<1>2. ASSUME UNCHANGED <<cfg, fleet, selector, loaded>>, job \notin Underway \/ job' \in Underway
      PROVE  RolloutInv' /\ UNCHANGED Service!vars
  BY <1>2 DEF RolloutInv, CfgSettles, Service!vars
<1>3. CASE Load
  BY <1>3, LoadRollout DEF Service!Next
<1>4. CASE Apply
  BY <1>4, ApplyRollout DEF Service!Next
<1>5. CASE SwitchSelector
  <2>1. /\ job = "select" /\ job' = "show" /\ selector' = cfg.algorithm
        /\ UNCHANGED <<cfg, fleet, loaded>>
    BY <1>5 DEF SwitchSelector, SelectKeeps, Step
  <2>2. Serves(cfg) /\ cfg.backends \in Seq(Identities)
    BY <2>1, ConfigsAreValid DEF ReloadInv, Domains, Applying, Applied
  <2>3. Backends = cfg.backends
    BY <2>2 DEF Serves
  <2>4. Service!SwitchSelector
    BY <2>1, <2>3 DEF Service!SwitchSelector
  <2>5. RolloutInv'
    BY <2>1 DEF RolloutInv, CfgSettles, Underway, Applied
  <2> QED BY <2>4, <2>5 DEF Service!Next
<1>6. CASE StoreConfig
  <2>1. /\ job = "store" /\ job' = "remove" /\ loaded' = cfg
        /\ UNCHANGED <<cfg, fleet, selector>>
    BY <1>6 DEF StoreConfig, Step
  <2>2. Serves(cfg) /\ cfg.backends \in Seq(Identities) /\ selector = cfg.algorithm
    BY <2>1, ConfigsAreValid
    DEF ReloadInv, Domains, Applying, Applied, Selecting, Switched
  <2>3. Backends = cfg.backends
    BY <2>2 DEF Serves
  <2>4. Service!Record
    BY <2>1, <2>2, <2>3 DEF Service!Record
  <2>5. RolloutInv'
    BY <2>1 DEF RolloutInv, CfgSettles
  <2> QED BY <2>4, <2>5 DEF Service!Next
<1>7. CASE Record
  <2>1. job \in {"record", "remove"} /\ cfg' = loaded /\ UNCHANGED <<fleet, selector, loaded>>
    BY <1>7 DEF Record, Unlock, registry
  <2>2. cfg = loaded
    BY <2>1 DEF RolloutInv, CfgSettles, Underway, Applied
  <2>3. RolloutInv'
    BY <2>1 DEF RolloutInv, CfgSettles
  <2> QED BY <2>1, <2>2, <2>3 DEF Service!vars
<1>8. CASE LockByLoop \/ LockByAdmin
  <2>1. job = "none"
    BY <1>8 DEF LockByLoop, LockByAdmin, ReloadInv, Domains
  <2>2. UNCHANGED <<cfg, fleet, selector, loaded>>
    BY <1>8 DEF LockByLoop, LockByAdmin, registry
  <2>3. job \notin Underway
    BY <2>1 DEF Underway, Applied
  <2> QED BY <1>2, <2>2, <2>3
<1>9. CASE Reject
  BY <1>2, <1>9 DEF Reject, Step, Unchanged, registry, Underway, Applied
<1>10. CASE ShowAlgorithm \/ HidePrevious
  BY <1>2, <1>10 DEF ShowAlgorithm, HidePrevious, SelectKeeps, Step, Underway, Applied
<1>11. CASE \E i \in Instances : RemoveProber(i) \/ AddProber(i)
  BY <1>2, <1>11 DEF RemoveProber, AddProber, Step, registry, Underway, Applied
<1>12. CASE \/ Run \/ Stop \/ Hup \/ TakeSignal \/ LoopExits \/ DrainSignals \/ PostReload
            \/ (\E i \in Instances : FirstProbe(i)) \/ UNCHANGED vars
  BY <1>1, <1>12 DEF Run, StartChecker, StartProber, Serve, BeginShutdown, RunKeeps, Stop, Hup,
     TakeSignal, LoopExits, DrainSignals, SignalKeeps, PostReload, FirstProbe, vars, reload,
     registry
<1> QED BY <1>3, <1>4, <1>5, <1>6, <1>7, <1>8, <1>9, <1>10, <1>11, <1>12 DEF Next, Reload

\* The reloads of both triggers are a sequence of rollouts: the registry, the
\* selector and the record follow the config one after the other, and the next
\* config is taken when the record names the last.
THEOREM ReloadsImplementRollout == Spec => ImplementsRollout
<1>1. Init => RolloutInv /\ Service!Init
  <2> SUFFICES ASSUME Init PROVE RolloutInv /\ Service!Init
    OBVIOUS
  <2>1. Start.backends \in Seq(Identities)
    BY StartIsConfig, ConfigsAreValid
  <2>2. Serves(Start)
    BY InitReload DEF ReloadInv, Init, Applying, Applied
  <2>3. [k \in DOMAIN fleet |-> fleet[k][1]] = Start.backends
    BY <2>1, <2>2 DEF Serves
  <2>4. loaded = Start /\ cfg = Start /\ selector = Start.algorithm
    BY DEF Init
  <2>5. RolloutInv
    BY <2>4, StartIsRollable DEF RolloutInv, CfgSettles
  <2> QED BY <2>3, <2>4, <2>5 DEF Service!Init
<1> QED BY <1>1, StepRollout, ReloadsAreServed, PTL DEF Spec, ImplementsRollout, Service!Spec
=============================================================================
