----------------------------- MODULE DemoProofs -----------------------------
(***************************************************************************)
(* Theorems about Demo, for every set of peers and of handlers, every set  *)
(* of profiles and every number of requests.                               *)
(***************************************************************************)
EXTENDS Demo, FiniteSetTheorems, TLAPS

HasLoaded(h, p) == call[h][p].step = "loaded"

\* The variables that are functions have their domains.
Domains ==
  /\ settings = [p \in Peers |-> settings[p]]
  /\ named = [p \in Peers |-> named[p]]
  /\ call = [h \in Handlers |-> [p \in Peers |-> call[h][p]]]
  /\ up \subseteq Backends

\* An update that has loaded holds the current settings until another one stores,
\* and a container that does not run serves none.
LoadedIsCurrent ==
  /\ \A h \in Handlers, p \in Peers :
       HasLoaded(h, p) /\ <<h, p>> \notin stale => call[h][p].old = settings[p]
  /\ \A h \in Handlers, b \in Backends \ up : ~HasLoaded(h, b)

KeepInv == Domains /\ LoadedIsCurrent /\ UpdatesKept

\* The peers a step of the control service or of the arrival loop leaves alone.
PeersRest == UNCHANGED <<settings, up, named, stale, clobbered>>

\* At the start nothing is loaded.
LEMMA KeepInit == Init => KeepInv
<1> SUFFICES ASSUME Init PROVE KeepInv
  OBVIOUS
<1>1. settings = [p \in Peers |-> settings[p]] /\ named = settings
  BY DEF Init
<1>2. call = [h \in Handlers |-> [p \in Peers |-> NoCall]]
  BY DEF Init, ForEach
<1>3. Domains
  BY <1>1, <1>2 DEF Init, Domains
<1>4. LoadedIsCurrent
  BY <1>2 DEF Init, LoadedIsCurrent, HasLoaded, NoCall, Peers
<1> QED
  BY <1>1, <1>3, <1>4 DEF KeepInv, UpdatesKept

\* Nothing that leaves the peers' settings and calls alone matters.
LEMMA KeepRest ==
  ASSUME KeepInv, PeersRest, call' = call
  PROVE  KeepInv'
  BY DEF KeepInv, PeersRest, Domains, LoadedIsCurrent, HasLoaded, UpdatesKept

\* A new update at a peer has not loaded.
LEMMA KeepSend ==
  ASSUME KeepInv, PeersRest, NEW h \in Handlers, NEW set, NEW values,
         call' = [call EXCEPT ![h] = ForEach(set, Called(values), NoCall)]
  PROVE  KeepInv'
<1>1. \A k \in Handlers, p \in Peers :
        HasLoaded(k, p)' => HasLoaded(k, p) /\ call'[k][p] = call[k][p]
  BY DEF KeepInv, Domains, HasLoaded, ForEach, Called, NoCall
<1>2. Domains'
  BY DEF KeepInv, PeersRest, Domains, ForEach
<1> QED
  BY <1>1, <1>2 DEF KeepInv, PeersRest, LoadedIsCurrent, UpdatesKept, Peers

\* The control service touches no peer but by the calls it sends.
LEMMA ControlKeeps ==
  ASSUME KeepInv, NEW h \in Handlers,
         \/ SetRate(h) \/ SetLB(h) \/ SetProfile(h) \/ Gather(h) \/ Poll(h)
         \/ PostInvalid(h) \/ Report(h) \/ \E g \in Generators : ReadGenerator(h, g)
  PROVE  KeepInv'
<1>1. CASE SetRate(h)
  <2>1. PICK rate \in {0, 1} : Send(h, "rate", Generators, [total_rate |-> rate])
    BY <1>1 DEF SetRate
  <2> QED
    BY <1>1, <2>1, KeepSend DEF SetRate, Send, PeersRest
<1>2. CASE SetLB(h)
  <2>1. PICK lb \in LBs : Send(h, "lb", Generators, [target |-> lb])
    BY <1>2 DEF SetLB
  <2> QED
    BY <1>2, <2>1, KeepSend DEF SetLB, Send, PeersRest
<1>3. CASE SetProfile(h)
  <2>1. PICK b \in Backends, fields \in Profiles : Send(h, "profile", {b}, [f \in fields |-> 1])
    BY <1>3 DEF SetProfile
  <2> QED
    BY <1>3, <2>1, KeepSend DEF SetProfile, Send, PeersRest
<1>4. CASE Poll(h)
  BY <1>4, KeepSend DEF Poll, Send, PeersRest
<1>5. CASE Gather(h) \/ PostInvalid(h) \/ Report(h) \/ \E g \in Generators : ReadGenerator(h, g)
  BY <1>5, KeepRest DEF Gather, PostInvalid, Report, ReadGenerator, PeersRest, history
<1> QED
  BY <1>1, <1>2, <1>3, <1>4, <1>5

\* A call that fails changes no peer.
LEMMA CallFailsKeeps ==
  ASSUME KeepInv, NEW h \in Handlers, NEW p \in Peers, CallFails(h, p)
  PROVE  KeepInv'
<1>1. PeersRest
  BY DEF CallFails, PeersRest, history
<1>2. CASE call' = call
  BY <1>1, <1>2, KeepRest
<1>3. CASE call' = [call EXCEPT ![h][p] = NoCall]
  <2>1. \A k \in Handlers, q \in Peers :
          HasLoaded(k, q)' => HasLoaded(k, q) /\ call'[k][q] = call[k][q]
    BY <1>3 DEF KeepInv, Domains, HasLoaded, NoCall
  <2>2. Domains'
    BY <1>1, <1>3 DEF KeepInv, PeersRest, Domains
  <2> QED
    BY <1>1, <2>1, <2>2 DEF KeepInv, PeersRest, LoadedIsCurrent, UpdatesKept, Peers
<1> QED
  BY <1>2, <1>3 DEF CallFails

\* A peer that loads holds the current settings.
LEMMA LoadKeeps ==
  ASSUME KeepInv, NEW h \in Handlers, NEW p \in Peers, Load(h, p)
  PROVE  KeepInv'
<1>1. PeersRest
  BY DEF Load, PeersRest, history
<1>2. call' = [call EXCEPT ![h][p] = Loaded(call[h][p].with, settings[p])]
  BY DEF Load
<1>3. \A k \in Handlers, q \in Peers :
        HasLoaded(k, q)' =>
          \/ HasLoaded(k, q) /\ call'[k][q] = call[k][q]
          \/ k = h /\ q = p /\ call'[k][q].old = settings[p]
  BY <1>2 DEF KeepInv, Domains, HasLoaded, Loaded
<1>4. Domains'
  BY <1>1, <1>2 DEF KeepInv, PeersRest, Domains
<1>5. p \in Backends => p \in up
  BY PeersAssumption DEF Load
<1> QED
  BY <1>1, <1>3, <1>4, <1>5 DEF KeepInv, PeersRest, LoadedIsCurrent, UpdatesKept, Peers

\* A store that nothing preceded since its load changes what was named for it,
\* and makes stale every other update of the peer that has loaded.
LEMMA StoreKeeps ==
  ASSUME KeepInv, NEW h \in Handlers, NEW p \in Peers, Store(h, p)
  PROVE  KeepInv'
<1> DEFINE c == call[h][p]
           lost == <<h, p>> \in stale
           next == Overwrite(c.old, c.with)
<1>1. /\ HasLoaded(h, p)
      /\ settings' = [settings EXCEPT ![p] = next]
      /\ call' = [call EXCEPT ![h][p] = NoCall]
      /\ named' = [named EXCEPT ![p] =
                     [f \in DOMAIN @ |-> IF f \in DOMAIN c.with THEN c.with[f] ELSE @[f]]]
      /\ stale' = (stale \ {<<h, p>>})
                    \union {<<k, p>> : k \in {k \in Handlers \ {h} : call[k][p].step = "loaded"}}
      /\ clobbered' = clobbered \union {q \in {p} : lost}
      /\ up' = up
  BY DEF Store, HasLoaded
<1>2. \A k \in Handlers, q \in Peers :
        HasLoaded(k, q)' => HasLoaded(k, q) /\ call'[k][q] = call[k][q] /\ <<k, q>> # <<h, p>>
  BY <1>1 DEF KeepInv, Domains, HasLoaded, NoCall
<1>3. Domains'
  BY <1>1 DEF KeepInv, Domains
<1>4. LoadedIsCurrent'
  <2>1. ASSUME NEW k \in Handlers, NEW q \in Peers, HasLoaded(k, q)', <<k, q>> \notin stale'
        PROVE  call'[k][q].old = settings'[q]
    <3>1. q # p
      <4>1. SUFFICES ASSUME q = p PROVE FALSE
        OBVIOUS
      <4>2. k \in Handlers \ {h} /\ call[k][p].step = "loaded"
        BY <1>2, <2>1, <4>1 DEF HasLoaded
      <4>3. <<k, p>> \in stale'
        BY <1>1, <4>2
      <4> QED
        BY <2>1, <4>1, <4>3
    <3>2. settings'[q] = settings[q]
      BY <1>1, <3>1 DEF KeepInv, Domains
    <3>3. <<k, q>> \notin stale
      BY <1>1, <1>2, <2>1
    <3> QED
      BY <1>2, <2>1, <3>2, <3>3 DEF KeepInv, LoadedIsCurrent
  <2> QED
    BY <1>1, <1>2, <2>1 DEF KeepInv, LoadedIsCurrent, Peers
<1>5. UpdatesKept'
  <2> SUFFICES ASSUME NEW q \in Peers \ clobbered' PROVE settings'[q] = named'[q]
    BY DEF UpdatesKept
  <2>1. CASE q # p
    BY <2>1, <1>1 DEF KeepInv, UpdatesKept, Domains
  <2>2. CASE q = p
    <3>1. ~lost /\ p \notin clobbered
      BY <2>2, <1>1
    <3>2. c.old = settings[p] /\ settings[p] = named[p]
      BY <1>1, <3>1 DEF KeepInv, LoadedIsCurrent, UpdatesKept
    <3>3. settings'[p] = next /\ p \in DOMAIN named
      BY <1>1 DEF KeepInv, Domains
    <3>4. named'[p] = [f \in DOMAIN named[p] |->
                         IF f \in DOMAIN c.with THEN c.with[f] ELSE named[p][f]]
      BY <1>1, <3>3
    <3> QED
      BY <2>2, <3>2, <3>3, <3>4 DEF Overwrite
  <2> QED
    BY <2>1, <2>2
<1> QED
  BY <1>3, <1>4, <1>5 DEF KeepInv

\* A container killed takes its updates with it, and comes back with the profile
\* of its environment.
LEMMA PowerKeeps ==
  ASSUME KeepInv, NEW b \in Backends, Kill(b) \/ Revive(b)
  PROVE  KeepInv'
<1>1. CASE Kill(b)
  <2>1. /\ UNCHANGED <<settings, named, clobbered>> /\ up' = up \ {b}
        /\ call' = [k \in Handlers |-> [call[k] EXCEPT ![b] = NoCall]]
        /\ stale' = {c \in stale : c[2] # b}
    BY <1>1 DEF Kill
  <2>2. \A k \in Handlers, q \in Peers :
          HasLoaded(k, q)' => HasLoaded(k, q) /\ call'[k][q] = call[k][q] /\ q # b
    BY <2>1 DEF KeepInv, Domains, HasLoaded, NoCall, Peers
  <2>3. Domains'
    BY <2>1 DEF KeepInv, Domains
  <2>4. ASSUME NEW k \in Handlers, NEW q \in Peers, HasLoaded(k, q)', <<k, q>> \notin stale'
        PROVE  call'[k][q].old = settings'[q]
    <3>1. <<k, q>> \notin stale
      BY <2>1, <2>2, <2>4
    <3> QED
      BY <2>1, <2>2, <2>4, <3>1 DEF KeepInv, LoadedIsCurrent
  <2>5. \A k \in Handlers, d \in Backends \ up' : ~HasLoaded(k, d)'
    BY <2>1, <2>2 DEF KeepInv, LoadedIsCurrent, Peers
  <2> QED
    BY <2>1, <2>3, <2>4, <2>5 DEF KeepInv, LoadedIsCurrent, UpdatesKept
<1>2. CASE Revive(b)
  <2>1. /\ b \in Backends \ up /\ up' = up \union {b} /\ UNCHANGED <<call, stale>>
        /\ settings' = [settings EXCEPT ![b] = InitialProfile]
        /\ named' = [named EXCEPT ![b] = InitialProfile]
        /\ clobbered' = clobbered \ {b}
    BY <1>2 DEF Revive
  <2>2. Domains' /\ UpdatesKept'
    BY <2>1 DEF KeepInv, Domains, UpdatesKept
  <2>3. LoadedIsCurrent'
    <3>1. \A q \in Peers : q # b => settings'[q] = settings[q]
      BY <2>1 DEF KeepInv, Domains
    <3>2. \A k \in Handlers, q \in Peers : HasLoaded(k, q)' <=> HasLoaded(k, q) /\ q # b
      BY <2>1 DEF KeepInv, LoadedIsCurrent, HasLoaded
    <3> QED
      BY <2>1, <3>1, <3>2 DEF KeepInv, LoadedIsCurrent, Peers
  <2> QED
    BY <2>2, <2>3 DEF KeepInv
<1> QED
  BY <1>1, <1>2

\* Arrivals change no settings.
LEMMA TrafficKeepsPeers ==
  ASSUME KeepInv, NEW g \in Generators, Schedule(g) \/ Arrive(g) \/ Deliver(g)
  PROVE  KeepInv'
  BY KeepRest DEF Schedule, Arrive, Deliver, TrafficKeeps, PeersRest, history

\* Loads stay current until another update stores.
LEMMA KeepAlways == Spec => []KeepInv
<1>1. KeepInv /\ [Next]_vars => KeepInv'
  <2> SUFFICES ASSUME KeepInv, [Next]_vars PROVE KeepInv'
    OBVIOUS
  <2>1. CASE UNCHANGED vars
    BY <2>1, KeepRest DEF vars, PeersRest, history
  <2> QED
    BY <2>1, ControlKeeps, CallFailsKeeps, LoadKeeps, StoreKeeps, PowerKeeps,
       TrafficKeepsPeers DEF Next
<1> QED
  BY <1>1, KeepInit, PTL DEF Spec

\* A peer holds for each field what was last named for it, unless two updates of
\* it raced (handleUpdate, adminHandler).
THEOREM UpdatesAreKept == Spec => []UpdatesKept
<1>1. KeepInv => UpdatesKept
  BY DEF KeepInv
<1> QED
  BY <1>1, KeepAlways, PTL

----------------------------------------------------------------------------
(* The rate.                                                               *)

IsRate(x) == x \in {0, 1}

\* An update carries a rate or none.
CarriesRate(values) == "total_rate" \in DOMAIN values => IsRate(values.total_rate)

HoldsRate(s) == "total_rate" \in DOMAIN s /\ IsRate(s.total_rate)

Rates ==
  /\ \A g \in Generators : HoldsRate(settings[g])
  /\ \A h \in Handlers, g \in Generators :
       /\ call[h][g].step # "none" => CarriesRate(call[h][g].with)
       /\ HasLoaded(h, g) => HoldsRate(call[h][g].old)

\* At rate 0 the one arrival that may be pending is the last.
LateCounted ==
  /\ late = [g \in Generators |-> late[g]]
  /\ \A g \in Generators :
       /\ late[g] \in {0, 1}
       /\ settings[g].total_rate # 0 \/ g \in due => late[g] = 0

RateInv == Domains /\ Rates /\ LateCounted

\* At the start nothing is late.
LEMMA RateInit == Init => RateInv
<1> SUFFICES ASSUME Init PROVE RateInv
  OBVIOUS
<1>1. Domains
  BY KeepInit DEF KeepInv
<1>2. PICK lb \in LBs : \A g \in Generators : settings[g] = [total_rate |-> 1, target |-> lb]
  BY DEF Init, Peers
<1>3. \A h \in Handlers, p \in Peers : call[h][p] = NoCall
  BY DEF Init, ForEach
<1>4. Rates
  BY <1>2, <1>3 DEF Rates, HoldsRate, IsRate, HasLoaded, NoCall, Peers
<1>5. LateCounted
  BY DEF Init, LateCounted
<1> QED
  BY <1>1, <1>4, <1>5 DEF RateInv

\* A step that leaves the settings and the arrivals alone, and whose calls are
\* older ones or carry rates.
LEMMA RateRest ==
  ASSUME RateInv, Domains', UNCHANGED <<settings, late, due>>,
         \A h \in Handlers, g \in Generators :
           \/ call'[h][g] = call[h][g] \/ call'[h][g] = NoCall
           \/ \E values : call'[h][g] = Called(values) /\ CarriesRate(values)
  PROVE  RateInv'
<1>1. ASSUME NEW h \in Handlers, NEW g \in Generators
      PROVE  /\ call'[h][g].step # "none" => CarriesRate(call'[h][g].with)
             /\ call'[h][g].step = "loaded" => HoldsRate(call'[h][g].old)
  <2>1. CASE call'[h][g] = call[h][g]
    BY <2>1 DEF RateInv, Rates, HasLoaded
  <2>2. CASE call'[h][g] = NoCall
    BY <2>2 DEF NoCall
  <2>3. ASSUME NEW values, call'[h][g] = Called(values), CarriesRate(values)
        PROVE  call'[h][g].with = values /\ call'[h][g].step = "called"
    BY <2>3 DEF Called
  <2> QED
    BY <2>1, <2>2, <2>3
<1>2. Rates'
  BY <1>1 DEF RateInv, Rates, HasLoaded
<1> QED
  BY <1>2 DEF RateInv, LateCounted

\* Calls are sent to the peers, each with a rate or without one.
LEMMA RateSend ==
  ASSUME RateInv, Domains', NEW h \in Handlers, NEW kind, NEW set, NEW values, CarriesRate(values),
         Send(h, kind, set, values)
  PROVE  RateInv'
<1>1. \A k \in Handlers, g \in Generators :
        \/ call'[k][g] = call[k][g] \/ call'[k][g] = NoCall
        \/ call'[k][g] = Called(values)
  BY DEF Send, RateInv, Domains, ForEach, Peers
<1>2. UNCHANGED <<settings, late, due>>
  BY DEF Send, traffic
<1> QED
  BY <1>1, <1>2, RateRest

\* The control service schedules no arrival.
LEMMA ControlRate ==
  ASSUME RateInv, Domains', NEW h \in Handlers,
         \/ SetRate(h) \/ SetLB(h) \/ SetProfile(h) \/ Gather(h) \/ Poll(h)
         \/ PostInvalid(h) \/ Report(h) \/ \E g \in Generators : ReadGenerator(h, g)
  PROVE  RateInv'
<1>1. CASE SetRate(h)
  <2>1. PICK rate \in {0, 1} : Send(h, "rate", Generators, [total_rate |-> rate])
    BY <1>1 DEF SetRate
  <2> QED
    BY <2>1, RateSend DEF CarriesRate, IsRate
<1>2. CASE SetLB(h)
  <2>1. PICK lb \in LBs : Send(h, "lb", Generators, [target |-> lb])
    BY <1>2 DEF SetLB
  <2> QED
    BY <2>1, RateSend DEF CarriesRate
<1>3. CASE SetProfile(h)
  <2>1. PICK b \in Backends, fields \in Profiles : Send(h, "profile", {b}, [f \in fields |-> 1])
    BY <1>3 DEF SetProfile
  <2>2. CarriesRate([f \in fields |-> 1])
    BY DEF CarriesRate, IsRate
  <2> QED
    BY <2>1, <2>2, RateSend
<1>4. CASE Poll(h)
  BY <1>4, RateSend DEF Poll, CarriesRate
<1>5. CASE Gather(h) \/ PostInvalid(h) \/ Report(h) \/ \E g \in Generators : ReadGenerator(h, g)
  BY <1>5, RateRest DEF Gather, PostInvalid, Report, ReadGenerator, traffic
<1> QED
  BY <1>1, <1>2, <1>3, <1>4, <1>5

\* A call that sets the rate to 0 leaves one arrival due at most.
LEMMA CallRate ==
  ASSUME RateInv, Domains', NEW h \in Handlers, NEW p \in Peers, CallFails(h, p) \/ Load(h, p)
  PROVE  RateInv'
<1>1. UNCHANGED <<settings, late, due>>
  BY DEF CallFails, Load, traffic
<1>2. CASE CallFails(h, p)
  <2>1. \A k \in Handlers, q \in Peers : call'[k][q] = call[k][q] \/ call'[k][q] = NoCall
    BY <1>2 DEF CallFails, RateInv, Domains
  <2> QED
    BY <1>1, <2>1, RateRest DEF Peers
<1>3. CASE Load(h, p)
  <2>1. call' = [call EXCEPT ![h][p] = Loaded(call[h][p].with, settings[p])]
        /\ call[h][p].step = "called"
    BY <1>3 DEF Load
  <2>2. ASSUME NEW k \in Handlers, NEW g \in Generators, k # h \/ g # p
        PROVE  call'[k][g] = call[k][g]
    BY <2>1, <2>2 DEF RateInv, Domains, Peers
  <2>3. call'[h][p] = Loaded(call[h][p].with, settings[p])
    BY <2>1 DEF RateInv, Domains
  <2>4. Rates'
    BY <1>1, <2>1, <2>2, <2>3 DEF RateInv, Rates, HasLoaded, Loaded
  <2> QED
    BY <1>1, <2>4 DEF RateInv, LateCounted
<1> QED
  BY <1>2, <1>3

\* An update of a generator stores a rate, and starts the count of late arrivals
\* anew unless the rate was 0 and stays 0.
LEMMA StoreRate ==
  ASSUME RateInv, Domains', NEW h \in Handlers, NEW p \in Peers, Store(h, p)
  PROVE  RateInv'
<1> DEFINE c == call[h][p]
           next == Overwrite(c.old, c.with)
<1>1. /\ c.step = "loaded" /\ due' = due
      /\ settings' = [settings EXCEPT ![p] = next]
      /\ call' = [call EXCEPT ![h][p] = NoCall]
  BY DEF Store
<1>2. p \in Generators =>
        late' = [late EXCEPT ![p] = IF settings[p].total_rate = 0 /\ next.total_rate = 0
                                      THEN @ ELSE 0]
  BY DEF Store
<1>3. p \notin Generators => late' = late
  BY DEF Store
<1>4. \A k \in Handlers, q \in Peers : call'[k][q] = call[k][q] \/ call'[k][q] = NoCall
  BY <1>1 DEF RateInv, Domains
<1>5. p \in Generators => HoldsRate(next)
  BY <1>1 DEF RateInv, Rates, HasLoaded, HoldsRate, CarriesRate, Overwrite
<1>6. settings'[p] = next /\ \A q \in Peers \ {p} : settings'[q] = settings[q]
  BY <1>1 DEF RateInv, Domains
<1>7. Rates'
  BY <1>4, <1>5, <1>6 DEF RateInv, Rates, HasLoaded, NoCall, Peers
<1>8. LateCounted'
  BY <1>1, <1>2, <1>3, <1>6 DEF RateInv, LateCounted, Peers
<1> QED
  BY <1>7, <1>8 DEF RateInv

\* A container that stops or starts changes no generator.
LEMMA PowerRate ==
  ASSUME RateInv, Domains', NEW b \in Backends, Kill(b) \/ Revive(b)
  PROVE  RateInv'
<1>1. CASE Kill(b)
  <2>1. \A k \in Handlers, q \in Peers : call'[k][q] = call[k][q] \/ call'[k][q] = NoCall
    BY <1>1 DEF Kill, RateInv, Domains
  <2> QED
    BY <1>1, <2>1, RateRest DEF Kill, traffic, Peers
<1>2. CASE Revive(b)
  <2>1. \A g \in Generators : settings'[g] = settings[g]
    BY <1>2, PeersAssumption DEF Revive, RateInv, Domains, Peers
  <2> QED
    BY <1>2, <2>1 DEF Revive, traffic, RateInv, Rates, LateCounted, HasLoaded
<1> QED
  BY <1>1, <1>2

\* The arrival loop schedules nothing at rate 0.
LEMMA TrafficRate ==
  ASSUME RateInv, Domains', NEW g \in Generators, Schedule(g) \/ Arrive(g) \/ Deliver(g)
  PROVE  RateInv'
<1>1. UNCHANGED <<settings, call>>
  BY DEF Schedule, Arrive, Deliver, TrafficKeeps
<1>2. Rates'
  BY <1>1 DEF RateInv, Rates, HasLoaded
<1>3. CASE Schedule(g)
  BY <1>1, <1>2, <1>3 DEF Schedule, RateInv, Rates, HoldsRate, IsRate, LateCounted
<1>4. CASE Arrive(g)
  BY <1>1, <1>2, <1>4 DEF Arrive, RateInv, LateCounted
<1>5. CASE Deliver(g)
  BY <1>1, <1>2, <1>5 DEF Deliver, RateInv, LateCounted
<1> QED
  BY <1>3, <1>4, <1>5

\* At rate 0 at most one arrival still comes (run, traffic-generator).
THEOREM RateZeroStops == Spec => []ZeroRateStops
<1>1. KeepInv /\ KeepInv' /\ RateInv /\ [Next]_vars => RateInv'
  <2> SUFFICES ASSUME Domains', RateInv, [Next]_vars PROVE RateInv'
    BY DEF KeepInv
  <2>1. CASE UNCHANGED vars
    BY <2>1, RateRest DEF vars, traffic
  <2> QED
    BY <2>1, ControlRate, CallRate, StoreRate, PowerRate, TrafficRate DEF Next
<1>2. RateInv => ZeroRateStops
  BY DEF RateInv, LateCounted, ZeroRateStops
<1> QED
  BY <1>1, <1>2, KeepInit, RateInit, KeepAlways, PTL DEF Spec

----------------------------------------------------------------------------
(* The active LB.                                                          *)

Gathering == {"state", "reload", "reloading"}

\* What a gather has read is what the generator sends to, unless one moved since;
\* and it is for this handler's request.
AnswersAreCurrent ==
  \A h \in Handlers \ moved, g \in Generators :
    job[h] \in Gathering => target[h][g] \in {None, settings[g].target}

GatherInv ==
  /\ DOMAIN job = Handlers /\ DOMAIN target = Handlers
  /\ \A h \in Handlers : DOMAIN target[h] = Generators
  /\ \A h \in Handlers, g \in Generators : job[h] = "idle" => target[h][g] = None
  /\ AnswersAreCurrent
  /\ \A h \in Handlers :
       job[h] = "reloading" => \E lb : lb # None /\ \A g \in Generators : target[h][g] = lb

\* One LB answered by all is the answer of each.
LEMMA ActiveIsAnswered ==
  ASSUME NEW h \in Handlers, ActiveLB(h) # None
  PROVE  \A g \in Generators : target[h][g] = ActiveLB(h)
<1> DEFINE answers == {target[h][g] : g \in Generators}
           f == [g \in Generators |-> target[h][g]]
<1>1. Cardinality(answers) = 1
  BY DEF ActiveLB
<1>2. IsFiniteSet(answers)
  <2>1. f \in Surjection(Generators, answers)
    BY DEF Surjection
  <2> QED BY <2>1, PeersAssumption, FS_Surjection
<1>3. PICK x : answers = {x}
  BY <1>1, <1>2, FS_Singleton
<1>4. ActiveLB(h) = CHOOSE lb \in answers : TRUE
  BY <1>1 DEF ActiveLB
<1>5. \A g \in Generators : target[h][g] \in answers
  OBVIOUS
<1> HIDE DEF answers
<1> QED BY <1>3, <1>4, <1>5

LEMMA AnsweredIsActive ==
  ASSUME NEW h \in Handlers, NEW lb, \A g \in Generators : target[h][g] = lb
  PROVE  ActiveLB(h) = lb
<1>1. {target[h][g] : g \in Generators} = {lb}
  BY PeersAssumption
<1>2. Cardinality({lb}) = 1
  BY FS_Singleton
<1> QED BY <1>1, <1>2 DEF ActiveLB

\* A step that leaves the gathers alone.
LEMMA GatherRest ==
  ASSUME GatherInv, UNCHANGED <<job, target, moved>>,
         \A g \in Generators : settings'[g].target = settings[g].target
  PROVE  GatherInv'
  BY DEF GatherInv, AnswersAreCurrent

\* h does something other than a gather.
LEMMA GatherOther ==
  ASSUME GatherInv, NEW h \in Handlers, NEW kind, kind \notin Gathering \union {"idle"},
         job' = [job EXCEPT ![h] = kind], UNCHANGED <<settings, target, moved>>
  PROVE  GatherInv'
<1>1. job'[h] = kind /\ \A k \in Handlers \ {h} : job'[k] = job[k]
  BY DEF GatherInv
<1>2. DOMAIN job' = Handlers
  BY DEF GatherInv
<1>3. kind \notin {"state", "reload", "reloading", "idle"}
  BY DEF Gathering
<1>4. AnswersAreCurrent'
  BY <1>1, <1>3 DEF GatherInv, AnswersAreCurrent, Gathering
<1> QED BY <1>1, <1>2, <1>3, <1>4 DEF GatherInv

\* The steps of the control service.
LEMMA ControlGather ==
  ASSUME GatherInv, NEW h \in Handlers,
         \/ SetRate(h) \/ SetLB(h) \/ SetProfile(h) \/ Gather(h) \/ Poll(h)
         \/ PostInvalid(h) \/ Report(h) \/ \E g \in Generators : ReadGenerator(h, g)
  PROVE  GatherInv'
<1>1. CASE SetRate(h) \/ SetLB(h) \/ SetProfile(h) \/ Poll(h)
  <2>1. PICK kind \in {"rate", "lb", "profile", "poll"} : job' = [job EXCEPT ![h] = kind]
    BY <1>1 DEF SetRate, SetLB, SetProfile, Poll, Send
  <2>2. UNCHANGED <<settings, target, moved>>
    BY <1>1 DEF SetRate, SetLB, SetProfile, Poll, Send
  <2> QED BY <2>1, <2>2, GatherOther DEF Gathering
<1>2. CASE Gather(h)
  <2>1. PICK kind \in {"state", "reload"} : job' = [job EXCEPT ![h] = kind]
    BY <1>2 DEF Gather
  <2>2. job[h] = "idle" /\ moved' = moved \ {h} /\ UNCHANGED <<settings, target>>
    BY <1>2 DEF Gather, Begin
  <2>3. \A g \in Generators : target[h][g] = None
    BY <2>2 DEF GatherInv, NoTargets
  <2> QED BY <2>1, <2>2, <2>3 DEF GatherInv, AnswersAreCurrent, Gathering
<1>3. CASE PostInvalid(h)
  <2>1. /\ job[h] = "reload" /\ UNCHANGED <<settings, target, moved>>
        /\ job' = [job EXCEPT ![h] = IF ActiveLB(h) = None THEN "refused" ELSE "reloading"]
    BY <1>3 DEF PostInvalid, history
  <2>2. ActiveLB(h) # None => \E lb : lb # None /\ \A g \in Generators : target[h][g] = lb
    BY ActiveIsAnswered
  <2> QED BY <2>1, <2>2 DEF GatherInv, AnswersAreCurrent, Gathering
<1>4. CASE Report(h)
  <2>1. /\ job' = [job EXCEPT ![h] = "idle"] /\ target' = [target EXCEPT ![h] = NoTargets]
        /\ moved' = moved \ {h} /\ UNCHANGED settings
    BY <1>4 DEF Report
  <2>2. DOMAIN NoTargets = Generators /\ \A g \in Generators : NoTargets[g] = None
    BY DEF NoTargets
  <2>3. /\ job'[h] = "idle" /\ target'[h] = NoTargets
        /\ \A k \in Handlers \ {h} : job'[k] = job[k] /\ target'[k] = target[k]
    BY <2>1 DEF GatherInv
  <2> QED BY <2>1, <2>2, <2>3 DEF GatherInv, AnswersAreCurrent, Gathering
<1>5. ASSUME NEW g \in Generators, ReadGenerator(h, g) PROVE GatherInv'
  <2>1. /\ job[h] \in {"state", "reload"} /\ UNCHANGED <<job, settings, moved>>
        /\ target' = [target EXCEPT ![h][g] = settings[g].target]
    BY <1>5 DEF ReadGenerator, history
  <2> QED BY <2>1 DEF GatherInv, AnswersAreCurrent, Gathering
<1> QED BY <1>1, <1>2, <1>3, <1>4, <1>5

\* The store of an update that moves a generator spoils the gathers under way.
LEMMA StoreGather ==
  ASSUME GatherInv, Domains, NEW h \in Handlers, NEW p \in Peers, Store(h, p)
  PROVE  GatherInv'
<1> DEFINE next == Overwrite(call[h][p].old, call[h][p].with)
<1>1. settings' = [settings EXCEPT ![p] = next] /\ UNCHANGED <<job, target>>
  BY DEF Store
<1>2. \A q \in Peers \ {p} : settings'[q] = settings[q]
  BY <1>1 DEF Domains
<1>3. settings'[p] = next
  BY <1>1 DEF Domains
<1> HIDE DEF next
<1>4. CASE p \notin Generators
  BY <1>1, <1>2, <1>4, GatherRest DEF Store, Peers
<1>5. CASE p \in Generators /\ next.target = settings[p].target
  BY <1>1, <1>2, <1>3, <1>5, GatherRest DEF Store, Peers, next
<1>6. CASE p \in Generators /\ next.target # settings[p].target
  <2>1. moved' = {k \in Handlers : job[k] \in Gathering}
    BY <1>6 DEF Store, Gathering, next
  <2> QED BY <1>1, <2>1 DEF GatherInv, AnswersAreCurrent
<1> QED BY <1>4, <1>5, <1>6

\* The invalid reload goes to the LB that all generators send to, unless one of
\* them moved after it was asked (handleReloadInvalid).
THEOREM InvalidReachesActive == Spec => []InvalidGoesToActive
<1>1. Init => GatherInv
  <2> SUFFICES ASSUME Init PROVE GatherInv
    OBVIOUS
  <2>1. job = [h \in Handlers |-> "idle"] /\ target = [h \in Handlers |-> NoTargets]
    BY DEF Init
  <2> QED BY <2>1 DEF GatherInv, AnswersAreCurrent, Gathering, NoTargets
<1>2. KeepInv /\ GatherInv /\ [Next]_vars => GatherInv'
  <2> SUFFICES ASSUME Domains, GatherInv, [Next]_vars PROVE GatherInv'
    BY DEF KeepInv
  <2>1. CASE UNCHANGED vars
    BY <2>1, GatherRest DEF vars, control, history
  <2>2. ASSUME NEW h \in Handlers, NEW p \in Peers, CallFails(h, p) \/ Load(h, p)
        PROVE  GatherInv'
    BY <2>2, GatherRest DEF CallFails, Load, control, history
  <2>3. ASSUME NEW b \in Backends, Kill(b) PROVE GatherInv'
    BY <2>3, GatherRest DEF Kill
  <2>4. ASSUME NEW b \in Backends, Revive(b) PROVE GatherInv'
    <3>1. \A g \in Generators : settings'[g] = settings[g]
      BY <2>4, PeersAssumption DEF Revive, Domains, Peers
    <3> QED BY <2>4, <3>1, GatherRest DEF Revive, control
  <2>5. ASSUME NEW g \in Generators, Schedule(g) \/ Arrive(g) \/ Deliver(g) PROVE GatherInv'
    BY <2>5, GatherRest DEF Schedule, Arrive, Deliver, TrafficKeeps, control, history
  <2> QED BY <2>1, <2>2, <2>3, <2>4, <2>5, ControlGather, StoreGather DEF Next
<1>3. GatherInv => InvalidGoesToActive
  <2> SUFFICES ASSUME GatherInv, NEW h \in Handlers \ moved, job[h] = "reloading",
                      NEW g \in Generators
               PROVE  settings[g].target = ActiveLB(h)
    BY DEF InvalidGoesToActive
  <2>1. PICK lb : lb # None /\ \A k \in Generators : target[h][k] = lb
    BY DEF GatherInv, AnswersAreCurrent
  <2>2. target[h][g] \in {None, settings[g].target}
    BY DEF GatherInv, AnswersAreCurrent, Gathering
  <2> QED BY <2>1, <2>2, AnsweredIsActive
<1> QED BY <1>1, <1>2, <1>3, KeepAlways, PTL DEF Spec

----------------------------------------------------------------------------
(* The fan-outs.                                                           *)

Fields  == {"total_rate", "target"}
FanOuts == {"rate", "lb"}

\* The field a fan-out sets.
Field(kind) == IF kind = "rate" THEN "total_rate" ELSE "target"

IsSetting(s) == s = [x \in Fields |-> s[x]]

\* The call that sets field f of g to v is under way, or has stored, or has failed
\* or been given up, which h will report.
Reaches(h, g, f, v) ==
  \/ /\ call[h][g].step \in {"called", "loaded"} /\ answer[h][g] \in {"waiting", "failed"}
     /\ DOMAIN call[h][g].with = {f} /\ call[h][g].with[f] = v
  \/ /\ call[h][g] = NoCall
     /\ answer[h][g] = "failed" \/ (answer[h][g] = "ok" /\ settings[g][f] = v)

\* No two fan-outs of one field, and no calls that nobody reports.
Apart ==
  /\ \A h, k \in Handlers : job[h] \in FanOuts /\ job[h] = job[k] => h = k
  /\ \A h \in Handlers, g \in Generators : job[h] \notin FanOuts => call[h][g] = NoCall

UnderWay ==
  \A h \in Handlers : job[h] \in FanOuts =>
    \E v : \A g \in Generators : Reaches(h, g, Field(job[h]), v)

\* The generators agree on a field that no fan-out is setting.
Agreed ==
  \A kind \in FanOuts :
    (\A h \in Handlers : job[h] # kind) =>
      \A g, k \in Generators : settings[g][Field(kind)] = settings[k][Field(kind)]

SplitInv ==
  /\ DOMAIN job = Handlers /\ DOMAIN answer = Handlers
  /\ \A h \in Handlers : DOMAIN answer[h] = Peers
  /\ split \in BOOLEAN
  /\ ~split => /\ \A g \in Generators : IsSetting(settings[g])
               /\ Apart /\ UnderWay /\ Agreed

Answers == DOMAIN answer = Handlers /\ \A h \in Handlers : DOMAIN answer[h] = Peers

\* A step that changes nothing of the generators' calls.
LEMMA SplitRest ==
  ASSUME SplitInv, UNCHANGED <<job, split>>, Answers',
         \A g \in Generators : settings'[g] = settings[g],
         \A h \in Handlers, g \in Generators :
           call'[h][g] = call[h][g] /\ (answer'[h][g] = answer[h][g] \/ job[h] \notin FanOuts)
  PROVE  SplitInv'
<1> USE DEF SplitInv, Answers
<1>1. \A h \in Handlers, g \in Generators, f \in Fields :
        \A v : job[h] \in FanOuts /\ Reaches(h, g, f, v) => Reaches(h, g, f, v)'
  BY DEF Reaches, NoCall
<1>2. \A kind \in FanOuts : Field(kind) \in Fields
  BY DEF Field, Fields
<1>3. UnderWay => UnderWay'
  BY <1>1, <1>2 DEF UnderWay
<1>4. Apart => Apart'
  BY DEF Apart, NoCall
<1>5. Agreed => Agreed'
  BY DEF Agreed
<1> QED BY <1>3, <1>4, <1>5 DEF IsSetting

\* h does something that is no fan-out, before and after.
LEMMA SplitOther ==
  ASSUME SplitInv, Answers', NEW h \in Handlers, NEW kind, kind \notin FanOuts,
         job[h] \notin FanOuts, job' = [job EXCEPT ![h] = kind], UNCHANGED <<settings, split>>,
         \A k \in Handlers \ {h} : answer'[k] = answer[k],
         \A k \in Handlers, g \in Generators :
           call'[k][g] = call[k][g] \/ (k = h /\ call'[k][g] = NoCall)
  PROVE  SplitInv'
<1> USE DEF SplitInv, Answers
<1>1. job'[h] = kind /\ \A k \in Handlers \ {h} : job'[k] = job[k]
  OBVIOUS
<1>2. \A k \in Handlers \ {h}, g \in Generators, f \in Fields :
        \A v : Reaches(k, g, f, v) => Reaches(k, g, f, v)'
  BY DEF Reaches, NoCall
<1>3. \A x \in FanOuts : Field(x) \in Fields
  BY DEF Field, Fields
<1>4. UnderWay => UnderWay'
  BY <1>1, <1>2, <1>3 DEF UnderWay
<1>5. Apart => Apart'
  BY <1>1 DEF Apart, NoCall
<1>6. Agreed => Agreed'
  BY <1>1 DEF Agreed
<1> QED BY <1>1, <1>4, <1>5, <1>6 DEF IsSetting

\* h calls backends.
LEMMA SplitSend ==
  ASSUME SplitInv, Domains, NEW h \in Handlers, NEW kind, kind \notin FanOuts,
         NEW set \in SUBSET Backends, NEW values,
         job[h] \notin FanOuts, Send(h, kind, set, values), UNCHANGED split
  PROVE  SplitInv'
<1>1. /\ job' = [job EXCEPT ![h] = kind] /\ UNCHANGED settings
      /\ answer' = [answer EXCEPT ![h] = ForEach(set, "waiting", "none")]
      /\ call' = [call EXCEPT ![h] = ForEach(set, Called(values), NoCall)]
  BY DEF Send
<1>2. \A k \in Handlers \ {h} : answer'[k] = answer[k] /\ call'[k] = call[k]
  BY <1>1 DEF Domains
<1>3. Answers'
  BY <1>1 DEF SplitInv, Answers, ForEach
<1>4. \A g \in Generators : call'[h][g] = NoCall
  BY <1>1, PeersAssumption DEF Domains, ForEach, Peers
<1> QED BY <1>1, <1>2, <1>3, <1>4, SplitOther

\* A fan-out begins, alone of its kind unless it is a split.
LEMMA SplitBegins ==
  ASSUME SplitInv, Domains, NEW h \in Handlers, NEW kind \in FanOuts, NEW values, NEW v,
         DOMAIN values = {Field(kind)}, values[Field(kind)] = v,
         Begin(h), Send(h, kind, Generators, values), split' = (split \/ Overlaps(h, kind))
  PROVE  SplitInv'
<1> USE DEF SplitInv
<1>1. /\ job' = [job EXCEPT ![h] = kind] /\ UNCHANGED settings
      /\ answer' = [answer EXCEPT ![h] = ForEach(Generators, "waiting", "none")]
      /\ call' = [call EXCEPT ![h] = ForEach(Generators, Called(values), NoCall)]
      /\ job[h] = "idle"
  BY DEF Send, Begin
<1>2. job'[h] = kind /\ \A k \in Handlers \ {h} : job'[k] = job[k]
  BY <1>1
<1>3. /\ DOMAIN answer' = Handlers /\ \A k \in Handlers : DOMAIN answer'[k] = Peers
      /\ \A g \in Generators : answer'[h][g] = "waiting"
      /\ \A k \in Handlers \ {h} : answer'[k] = answer[k]
  BY <1>1 DEF ForEach, Peers
<1>4. /\ \A g \in Generators : call'[h][g] = Called(values)
      /\ \A k \in Handlers \ {h} : call'[k] = call[k]
  BY <1>1 DEF ForEach, Peers, Domains
<1>5. SUFFICES ASSUME ~split'
               PROVE  /\ \A g \in Generators : IsSetting(settings[g])'
                      /\ Apart' /\ UnderWay' /\ Agreed'
  BY <1>1, <1>2, <1>3
<1>6. ~split /\ \A k \in Handlers \ {h} : job[k] # kind
  BY <1>5 DEF Overlaps
<1>7. Apart'
  BY <1>1, <1>2, <1>4, <1>6 DEF Apart
<1>8. UnderWay'
  <2>1. \A g \in Generators : Reaches(h, g, Field(kind), v)'
    BY <1>3, <1>4 DEF Reaches, Called
  <2>2. \A k \in Handlers \ {h}, g \in Generators, f \in Fields :
          \A w : Reaches(k, g, f, w) => Reaches(k, g, f, w)'
    BY <1>1, <1>3, <1>4 DEF Reaches
  <2>3. \A x \in FanOuts : Field(x) \in Fields
    BY DEF Field, Fields
  <2> QED BY <1>2, <1>6, <2>1, <2>2, <2>3 DEF UnderWay
<1>9. Agreed'
  BY <1>1, <1>2, <1>6 DEF Agreed, FanOuts
<1> QED BY <1>1, <1>6, <1>7, <1>8, <1>9 DEF IsSetting

\* A fan-out reported ok has set its field at every generator.
LEMMA SplitReport ==
  ASSUME SplitInv, NEW h \in Handlers, Report(h), job[h] \in FanOuts
  PROVE  SplitInv'
<1> USE DEF SplitInv
<1>1. /\ job' = [job EXCEPT ![h] = "idle"] /\ UNCHANGED <<settings, call>>
      /\ answer' = [answer EXCEPT ![h] = NoAnswers]
      /\ split' = (split \/ ~AllOk(h)) /\ Answered(h)
  BY DEF Report, FanOuts
<1>2. job'[h] = "idle" /\ \A k \in Handlers \ {h} : job'[k] = job[k]
  BY <1>1
<1>3. /\ DOMAIN answer' = Handlers /\ \A k \in Handlers : DOMAIN answer'[k] = Peers
      /\ \A k \in Handlers \ {h} : answer'[k] = answer[k]
  BY <1>1 DEF NoAnswers, ForEach
<1>4. split' \in BOOLEAN
  BY <1>1
<1>5. SUFFICES ASSUME ~split'
               PROVE  /\ \A g \in Generators : IsSetting(settings[g])'
                      /\ Apart' /\ UnderWay' /\ Agreed'
  BY <1>1, <1>2, <1>3, <1>4
<1>6. ~split /\ \A g \in Generators : answer[h][g] \notin {"waiting", "failed"}
  BY <1>1, <1>5 DEF AllOk, Answered, Peers
<1>7. PICK v : \A g \in Generators : Reaches(h, g, Field(job[h]), v)
  BY <1>6 DEF UnderWay
<1>8. \A g \in Generators : call[h][g] = NoCall /\ settings[g][Field(job[h])] = v
  BY <1>6, <1>7 DEF Reaches
<1>9. Apart'
  BY <1>1, <1>2, <1>6, <1>8 DEF Apart, FanOuts
<1>10. UnderWay'
  <2>1. \A k \in Handlers \ {h}, g \in Generators, f \in Fields :
          \A w : Reaches(k, g, f, w) => Reaches(k, g, f, w)'
    BY <1>1, <1>3 DEF Reaches
  <2>2. \A x \in FanOuts : Field(x) \in Fields
    BY DEF Field, Fields
  <2> QED BY <1>2, <1>6, <2>1, <2>2 DEF UnderWay, FanOuts
<1>11. Agreed'
  BY <1>1, <1>2, <1>6, <1>8 DEF Agreed
<1> QED BY <1>1, <1>6, <1>9, <1>10, <1>11 DEF IsSetting

\* A call to a generator fails, or is given up: h will report it.
LEMMA SplitFails ==
  ASSUME SplitInv, Domains, NEW h \in Handlers, NEW p \in Peers, CallFails(h, p)
  PROVE  SplitInv'
<1> USE DEF SplitInv
<1>1. /\ UNCHANGED <<settings, job, split>> /\ answer[h][p] = "waiting"
      /\ answer' = [answer EXCEPT ![h][p] = "failed"]
  BY DEF CallFails, history
<1>2. /\ Answers' /\ answer'[h][p] = "failed"
      /\ \A k \in Handlers, q \in Peers : k # h \/ q # p => answer'[k][q] = answer[k][q]
  BY <1>1 DEF Answers
<1>3. /\ call'[h][p] = call[h][p] \/ (call[h][p].step = "called" /\ call'[h][p] = NoCall)
      /\ \A k \in Handlers, q \in Peers : k # h \/ q # p => call'[k][q] = call[k][q]
  <2>1. CASE UNCHANGED call
    BY <2>1
  <2>2. CASE call[h][p].step = "called" /\ call' = [call EXCEPT ![h][p] = NoCall]
    BY <2>2 DEF Domains
  <2> QED BY <2>1, <2>2 DEF CallFails
<1>4. \A k \in Handlers, g \in Generators, f \in Fields :
        \A v : Reaches(k, g, f, v) => Reaches(k, g, f, v)'
  BY <1>1, <1>2, <1>3 DEF Reaches, Peers
<1>5. \A x \in FanOuts : Field(x) \in Fields
  BY DEF Field, Fields
<1>6. UnderWay => UnderWay'
  BY <1>1, <1>4, <1>5 DEF UnderWay
<1>7. Apart => Apart'
  BY <1>1, <1>3 DEF Apart, Peers
<1>8. Agreed => Agreed'
  BY <1>1 DEF Agreed
<1> QED BY <1>1, <1>2, <1>6, <1>7, <1>8 DEF IsSetting, Answers

\* A generator loads.
LEMMA SplitLoad ==
  ASSUME SplitInv, Domains, NEW h \in Handlers, NEW p \in Peers, Load(h, p)
  PROVE  SplitInv'
<1> USE DEF SplitInv
<1>1. /\ UNCHANGED <<settings, job, answer, split>> /\ call[h][p].step = "called"
      /\ call' = [call EXCEPT ![h][p] = Loaded(call[h][p].with, settings[p])]
  BY DEF Load, control, history
<1>2. /\ call'[h][p] = Loaded(call[h][p].with, settings[p])
      /\ \A k \in Handlers, q \in Peers : k # h \/ q # p => call'[k][q] = call[k][q]
  BY <1>1 DEF Domains
<1>3. \A k \in Handlers, g \in Generators, f \in Fields :
        \A v : Reaches(k, g, f, v) => Reaches(k, g, f, v)'
  BY <1>1, <1>2 DEF Reaches, Loaded, NoCall, Peers
<1>4. \A x \in FanOuts : Field(x) \in Fields
  BY DEF Field, Fields
<1>5. UnderWay => UnderWay'
  BY <1>1, <1>3, <1>4 DEF UnderWay
<1>6. Apart => Apart'
  BY <1>1, <1>2 DEF Apart, NoCall, Peers
<1>7. Agreed => Agreed'
  BY <1>1 DEF Agreed
<1> QED BY <1>1, <1>5, <1>6, <1>7 DEF IsSetting

\* A store by a fan-out sets its field, and leaves the other as it is unless it
\* had loaded before another update stored.
LEMMA SplitStore ==
  ASSUME SplitInv, KeepInv, NEW h \in Handlers, NEW p \in Peers, Store(h, p)
  PROVE  SplitInv'
<1> DEFINE c    == call[h][p]
           next == Overwrite(c.old, c.with)
<1> USE DEF SplitInv
<1>1. /\ c.step = "loaded" /\ job' = job
      /\ settings' = [settings EXCEPT ![p] = next]
      /\ call' = [call EXCEPT ![h][p] = NoCall]
      /\ answer' = [answer EXCEPT ![h][p] = IF @ = "waiting" THEN "ok" ELSE @]
      /\ split' = (split \/ (<<h, p>> \in stale /\ p \in Generators))
  BY DEF Store
<1>2. settings'[p] = next /\ \A q \in Peers \ {p} : settings'[q] = settings[q]
  BY <1>1 DEF KeepInv, Domains
<1>3. /\ call'[h][p] = NoCall
      /\ \A k \in Handlers, q \in Peers : k # h \/ q # p => call'[k][q] = call[k][q]
  BY <1>1 DEF KeepInv, Domains
<1>4. /\ Answers' /\ answer'[h][p] = IF answer[h][p] = "waiting" THEN "ok" ELSE answer[h][p]
      /\ \A k \in Handlers, q \in Peers : k # h \/ q # p => answer'[k][q] = answer[k][q]
  BY <1>1 DEF Answers
<1> HIDE DEF next
<1>5. CASE p \notin Generators
  <2>1. \A g \in Generators : g \in Peers \ {p}
    BY <1>5 DEF Peers
  <2> QED BY <1>1, <1>2, <1>3, <1>4, <1>5, <2>1, SplitRest
<1>6. CASE p \in Generators
  <2>1. SUFFICES ASSUME ~split'
                 PROVE  /\ \A g \in Generators : IsSetting(settings[g])'
                        /\ Apart' /\ UnderWay' /\ Agreed'
    BY <1>1, <1>4 DEF Answers
  <2>2. ~split /\ c.old = settings[p] /\ IsSetting(settings[p])
    BY <1>1, <1>6, <2>1 DEF KeepInv, LoadedIsCurrent, HasLoaded
  <2>3. job[h] \in FanOuts
    BY <1>1, <1>6, <2>2 DEF Apart, NoCall
  <2>4. PICK f \in Fields : f = Field(job[h])
    BY DEF Field, Fields
  <2>5. PICK v : \A g \in Generators : Reaches(h, g, f, v)
    BY <2>2, <2>3, <2>4 DEF UnderWay
  <2>6. /\ DOMAIN c.with = {f} /\ c.with[f] = v /\ answer[h][p] \in {"waiting", "failed"}
    BY <1>1, <1>6, <2>5 DEF Reaches, NoCall
  <2> HIDE DEF c
  <2>7. next = [x \in Fields |-> IF x = f THEN v ELSE settings[p][x]]
    <3>1. DOMAIN c.old = Fields
      BY <2>2 DEF IsSetting
    <3> QED BY <2>2, <2>6, <3>1 DEF next, Overwrite
  <2>8. next[f] = v /\ \A x \in Fields \ {f} : next[x] = settings[p][x]
    BY <2>7
  <2>9. IsSetting(next)
    BY <2>7 DEF IsSetting
  <2>10. \A g \in Generators : IsSetting(settings[g])'
    BY <1>2, <2>2, <2>9 DEF IsSetting, Peers
  <2>11. Apart'
    BY <1>1, <1>3, <2>2 DEF Apart, Peers
  <2>12. \A g \in Generators : Reaches(h, g, f, v)'
    <3>1. Reaches(h, p, f, v)'
      BY <1>2, <1>3, <1>4, <2>6, <2>8 DEF Reaches
    <3>2. ASSUME NEW g \in Generators, g # p PROVE Reaches(h, g, f, v)'
      BY <1>2, <1>3, <1>4, <2>5, <3>2 DEF Reaches, Peers
    <3> QED BY <3>1, <3>2
  <2>13. ASSUME NEW k \in Handlers \ {h}, job[k] \in FanOuts,
                NEW x \in Fields, x = Field(job[k]), NEW w, NEW g \in Generators,
                Reaches(k, g, x, w)
         PROVE  Reaches(k, g, x, w)'
    <3>1. x # f
      BY <2>2, <2>3, <2>13, <2>4 DEF Apart, Field, Fields, FanOuts
    <3>2. settings'[g][x] = settings[g][x]
      BY <1>2, <2>8, <3>1 DEF Peers
    <3> QED BY <1>3, <1>4, <2>13, <3>2 DEF Reaches, Peers
  <2>14. UnderWay'
    <3>1. \A x \in FanOuts : Field(x) \in Fields
      BY DEF Field, Fields
    <3> QED BY <1>1, <2>2, <2>12, <2>13, <2>4, <3>1 DEF UnderWay
  <2>15. Agreed'
    <3> SUFFICES ASSUME NEW kind \in FanOuts, \A k \in Handlers : job[k] # kind,
                        NEW g \in Generators, NEW k \in Generators
                 PROVE  settings'[g][Field(kind)] = settings'[k][Field(kind)]
      BY <1>1 DEF Agreed
    <3>1. Field(kind) \in Fields \ {f}
      BY <2>3, <2>4 DEF Field, Fields, FanOuts
    <3>2. \A q \in Generators : settings'[q][Field(kind)] = settings[q][Field(kind)]
      BY <1>2, <2>8, <3>1 DEF Peers
    <3> QED BY <2>2, <3>2 DEF Agreed
  <2> QED BY <2>10, <2>11, <2>14, <2>15
<1> QED BY <1>5, <1>6

\* The steps of the control service.
LEMMA ControlSplit ==
  ASSUME SplitInv, Domains, NEW h \in Handlers,
         \/ SetRate(h) \/ SetLB(h) \/ SetProfile(h) \/ Gather(h) \/ Poll(h)
         \/ PostInvalid(h) \/ Report(h) \/ \E g \in Generators : ReadGenerator(h, g)
  PROVE  SplitInv'
<1>1. CASE SetRate(h)
  <2>1. PICK rate \in {0, 1} : Send(h, "rate", Generators, [total_rate |-> rate])
    BY <1>1 DEF SetRate
  <2>2. DOMAIN [total_rate |-> rate] = {"total_rate"} /\ [total_rate |-> rate].total_rate = rate
    OBVIOUS
  <2>3. Field("rate") = "total_rate" /\ "rate" \in FanOuts
    BY DEF Field, FanOuts
  <2> QED BY <1>1, <2>1, <2>2, <2>3, SplitBegins DEF SetRate
<1>2. CASE SetLB(h)
  <2>1. PICK lb \in LBs : Send(h, "lb", Generators, [target |-> lb])
    BY <1>2 DEF SetLB
  <2>2. DOMAIN [target |-> lb] = {"target"} /\ [target |-> lb].target = lb
    OBVIOUS
  <2>3. Field("lb") = "target" /\ "lb" \in FanOuts
    BY DEF Field, FanOuts
  <2> QED BY <1>2, <2>1, <2>2, <2>3, SplitBegins DEF SetLB
<1>3. CASE SetProfile(h)
  <2>1. PICK b \in Backends, fields \in Profiles : Send(h, "profile", {b}, [f \in fields |-> 1])
    BY <1>3 DEF SetProfile
  <2> QED BY <1>3, <2>1, SplitSend DEF SetProfile, Begin, FanOuts
<1>4. CASE Poll(h)
  BY <1>4, SplitSend DEF Poll, FanOuts
<1>5. CASE Gather(h) \/ PostInvalid(h) \/ (Report(h) /\ job[h] \notin FanOuts)
  <2>1. PICK kind \in {"idle", "state", "reload", "refused", "reloading"} :
          job' = [job EXCEPT ![h] = kind]
    BY <1>5 DEF Gather, PostInvalid, Report
  <2>2. /\ job[h] \in {"idle", "reload", "profile", "poll", "refused", "reloading"}
        /\ UNCHANGED <<settings, call, split>>
    BY <1>5 DEF SplitInv, Gather, Begin, PostInvalid, Report, FanOuts, history
  <2>3. Answers' /\ \A k \in Handlers \ {h} : answer'[k] = answer[k]
    BY <1>5 DEF Gather, PostInvalid, Report, SplitInv, Answers, NoAnswers, ForEach
  <2> QED BY <2>1, <2>2, <2>3, SplitOther DEF FanOuts
<1>6. ASSUME NEW g \in Generators, ReadGenerator(h, g) PROVE SplitInv'
  <2>1. /\ UNCHANGED <<settings, job, call, split>> /\ job[h] \notin FanOuts
        /\ answer' = [answer EXCEPT ![h][g] = "ok"]
    BY <1>6 DEF ReadGenerator, FanOuts, history
  <2>2. Answers' /\ \A k \in Handlers \ {h} : answer'[k] = answer[k]
    BY <2>1 DEF SplitInv, Answers
  <2> QED BY <2>1, <2>2, SplitRest
<1> QED BY <1>1, <1>2, <1>3, <1>5, <1>6, <1>4, SplitReport

\* Generators that disagree are reported, or two fan-outs raced (writeFanOut).
THEOREM SplitsAreReported == Spec => []SplitIsReported
<1>1. Init => SplitInv
  <2> SUFFICES ASSUME Init PROVE SplitInv
    OBVIOUS
  <2>1. PICK lb \in LBs :
          settings = [p \in Peers |-> IF p \in Generators
                                        THEN [total_rate |-> 1, target |-> lb]
                                        ELSE InitialProfile]
    BY DEF Init
  <2>2. \A g \in Generators : settings[g] = [total_rate |-> 1, target |-> lb]
    BY <2>1 DEF Peers
  <2>3. IsSetting([total_rate |-> 1, target |-> lb])
    BY DEF IsSetting, Fields
  <2>4. /\ job = [h \in Handlers |-> "idle"] /\ answer = [h \in Handlers |-> NoAnswers]
        /\ call = [h \in Handlers |-> ForEach({}, NoCall, NoCall)] /\ split = FALSE
    BY DEF Init
  <2>5. Apart /\ UnderWay
    BY <2>4 DEF Apart, UnderWay, FanOuts, ForEach, Peers
  <2>6. Agreed
    BY <2>2 DEF Agreed
  <2> QED BY <2>2, <2>3, <2>4, <2>5, <2>6 DEF SplitInv, NoAnswers, ForEach
<1>2. KeepInv /\ SplitInv /\ [Next]_vars => SplitInv'
  <2> SUFFICES ASSUME KeepInv, SplitInv, [Next]_vars PROVE SplitInv'
    OBVIOUS
  <2>1. Domains
    BY DEF KeepInv
  <2>2. CASE UNCHANGED vars
    BY <2>2, SplitRest DEF vars, control, history, SplitInv, Answers
  <2>3. ASSUME NEW b \in Backends, Kill(b) PROVE SplitInv'
    <3>1. /\ UNCHANGED <<settings, job, split>>
          /\ answer' = [k \in Handlers |->
                          [answer[k] EXCEPT ![b] = IF @ = "waiting" THEN "failed" ELSE @]]
          /\ call' = [k \in Handlers |-> [call[k] EXCEPT ![b] = NoCall]]
      BY <2>3 DEF Kill
    <3>2. \A k \in Handlers, g \in Generators :
            call'[k][g] = call[k][g] /\ answer'[k][g] = answer[k][g]
      BY <2>1, <3>1, PeersAssumption DEF SplitInv, Domains, Peers
    <3>3. Answers'
      BY <3>1 DEF SplitInv, Answers
    <3> QED BY <3>1, <3>2, <3>3, SplitRest
  <2>4. ASSUME NEW b \in Backends, Revive(b) PROVE SplitInv'
    <3>1. \A g \in Generators : settings'[g] = settings[g]
      BY <2>1, <2>4, PeersAssumption DEF Revive, Domains, Peers
    <3> QED BY <2>4, <3>1, SplitRest DEF Revive, control, SplitInv, Answers
  <2>5. ASSUME NEW g \in Generators, Schedule(g) \/ Arrive(g) \/ Deliver(g) PROVE SplitInv'
    BY <2>5, SplitRest
       DEF Schedule, Arrive, Deliver, TrafficKeeps, control, history, SplitInv, Answers
  <2> QED
    BY <2>1, <2>2, <2>3, <2>4, <2>5, ControlSplit, SplitFails, SplitLoad, SplitStore DEF Next
<1>3. SplitInv => SplitIsReported
  <2> SUFFICES ASSUME SplitInv, ~split, \A h \in Handlers : job[h] \notin {"rate", "lb"},
                      NEW g \in Generators, NEW k \in Generators
               PROVE  settings[g] = settings[k]
    BY DEF SplitIsReported
  <2>1. \A x \in Fields : settings[g][x] = settings[k][x]
    BY DEF SplitInv, Agreed, FanOuts, Field, Fields
  <2> QED BY <2>1 DEF SplitInv, IsSetting
<1> QED BY <1>1, <1>2, <1>3, KeepInit, KeepAlways, PTL DEF Spec
=============================================================================
