--------------------------- MODULE CircuitProofs ---------------------------
(***************************************************************************)
(* Theorems about Circuit, for every set of requests and every threshold,  *)
(* and about the export of its transitions (CircuitExport).                *)
(***************************************************************************)
EXTENDS CircuitExport, FiniteSetTheorems, TLAPS

\* The strengthening that makes NoWedge and OneTrialUnlessStray inductive: a
\* trial is only ever outstanding half-open, and while nobody else has freed
\* the slot, the trials in flight are exactly what the flag says.
TrialOnlyHalfOpen == circuit.trial => circuit.state = "HalfOpen"

TrialsMatchFlag ==
  ~stray => trials \subseteq (IF circuit.trial THEN {holder} ELSE {})

IInv == TypeOK /\ TrialOnlyHalfOpen /\ NoWedge /\ TrialsMatchFlag

----------------------------------------------------------------------------
\* What each constructor of a snapshot gives.
LEMMA SnapshotValues ==
  /\ Closed(0) \in Snapshots /\ Closed(0).state = "Closed" /\ ~Closed(0).trial
  /\ Open \in Snapshots /\ Open.state = "Open" /\ ~Open.trial
  /\ HalfOpen \in Snapshots /\ HalfOpen.state = "HalfOpen" /\ ~HalfOpen.trial
  BY ThresholdAssumption DEF Closed, Open, HalfOpen, Snapshot, Snapshots, States

\* What CircuitFailure computes is a snapshot without a trial: the count never
\* reaches the threshold (CircuitFailure, backend.go:438).
LEMMA AfterFailureType ==
  ASSUME NEW c \in Snapshots
  PROVE  AfterFailure(c) \in Snapshots /\ ~AfterFailure(c).trial
  BY ThresholdAssumption DEF AfterFailure, Closed, Open, Snapshot, Snapshots, States

\* Setting or clearing the trial flag leaves the state alone.
LEMMA SetTrial ==
  ASSUME NEW c \in Snapshots, NEW b \in BOOLEAN
  PROVE  /\ [c EXCEPT !.trial = b] \in Snapshots
         /\ [c EXCEPT !.trial = b].trial = b
         /\ [c EXCEPT !.trial = b].state = c.state
  BY DEF Snapshots

\* Every value of the circuit and of the history has its type, in every
\* reachable state (circuitSnapshot, backend.go:47).
THEOREM TypeCorrect == Spec => []TypeOK
<1>1. Init => TypeOK
  BY SnapshotValues DEF Init, TypeOK
<1>2. TypeOK /\ [Next]_vars => TypeOK'
  <2> SUFFICES ASSUME TypeOK, [Next]_vars PROVE TypeOK'
    OBVIOUS
  <2> USE DEF TypeOK
  <2>1. CASE Cooldown
    BY <2>1 DEF Cooldown, history
  <2>2. CASE Remove
    BY <2>2 DEF Remove, snapshot, history
  <2>3. CASE Promote
    BY <2>3, SnapshotValues DEF Promote, EndEpisode
  <2>4. ASSUME NEW r \in Requests, AdmitClosed(r) PROVE TypeOK'
    BY <2>4 DEF AdmitClosed, snapshot, history
  <2>5. ASSUME NEW r \in Requests, AdmitTrial(r) PROVE TypeOK'
    BY <2>5, SetTrial DEF AdmitTrial
  <2>6. ASSUME NEW r \in Requests, Leave(r) PROVE TypeOK'
    BY <2>6 DEF Leave, snapshot
  <2>7. ASSUME NEW r \in Requests, Succeed(r) PROVE TypeOK'
    BY <2>6, <2>7, SnapshotValues DEF Succeed, EndEpisode
  <2>8. ASSUME NEW r \in Requests, Fail(r) PROVE TypeOK'
    BY <2>6, <2>8, AfterFailureType DEF Fail, EndEpisode
  <2>9. ASSUME NEW r \in Requests, Suppressed(r) PROVE TypeOK'
    BY <2>6, <2>9 DEF Suppressed
  <2>10. ASSUME NEW r \in Requests, Abandon(r) PROVE TypeOK'
    BY <2>6, <2>10, SetTrial DEF Abandon
  <2>11. CASE UNCHANGED vars
    BY <2>11 DEF vars
  <2>. QED
    BY <2>1, <2>2, <2>3, <2>4, <2>5, <2>7, <2>8, <2>9, <2>10, <2>11
       DEF Next, Finish
<1>. QED BY <1>1, <1>2, PTL DEF Spec

\* The strengthened invariant is inductive.
THEOREM Inductive == Spec => []IInv
<1>1. Init => IInv
  BY SnapshotValues
     DEF Init, IInv, TypeOK, TrialOnlyHalfOpen, NoWedge, TrialsMatchFlag
<1>2. IInv /\ TypeOK' /\ [Next]_vars => IInv'
  <2> SUFFICES ASSUME IInv, TypeOK', [Next]_vars PROVE IInv'
    OBVIOUS
  <2> USE DEF IInv, TypeOK, TrialOnlyHalfOpen, NoWedge, TrialsMatchFlag
  <2>1. CASE Cooldown
    BY <2>1 DEF Cooldown, history
  <2>2. CASE Remove
    BY <2>2 DEF Remove, snapshot, history
  <2>3. CASE Promote
    BY <2>3, SnapshotValues DEF Promote, EndEpisode
  <2>4. ASSUME NEW r \in Requests, AdmitClosed(r) PROVE IInv'
    BY <2>4 DEF AdmitClosed, snapshot, history
  <2>5. ASSUME NEW r \in Requests, AdmitTrial(r) PROVE IInv'
    <3>1. circuit'.trial /\ circuit'.state = "HalfOpen"
      BY <2>5, SetTrial DEF AdmitTrial
    <3>. QED BY <2>5, <3>1 DEF AdmitTrial
  \* Only a request that frees the slot, or of a removed backend, may end
  \* without changing the circuit while a trial is outstanding.
  <2>6. ASSUME NEW r \in Requests, Leave(r), ~circuit.trial \/ removed
        PROVE  IInv'
    BY <2>6 DEF Leave, snapshot
  <2>7. ASSUME NEW r \in Requests, Succeed(r) PROVE IInv'
    BY <2>6, <2>7, SnapshotValues DEF Succeed, EndEpisode
  <2>8. ASSUME NEW r \in Requests, Fail(r) PROVE IInv'
    BY <2>6, <2>8, AfterFailureType DEF Fail, EndEpisode
  <2>9. ASSUME NEW r \in Requests, Suppressed(r) PROVE IInv'
    BY <2>6, <2>9 DEF Suppressed
  <2>10. ASSUME NEW r \in Requests, Abandon(r) PROVE IInv'
    <3>1. CASE ~circuit.trial
      BY <3>1, <2>6, <2>10 DEF Abandon
    <3>2. CASE circuit.trial
      BY <3>2, <2>10, SetTrial DEF Abandon
    <3>. QED BY <3>1, <3>2
  <2>11. CASE UNCHANGED vars
    BY <2>11 DEF vars
  <2>. QED
    BY <2>1, <2>2, <2>3, <2>4, <2>5, <2>7, <2>8, <2>9, <2>10, <2>11
       DEF Next, Finish
<1>. QED BY <1>1, <1>2, TypeCorrect, PTL DEF Spec

\* A taken trial always has a request in flight that will give it back, on
\* every backend still in the fleet (RearmTrial, backend.go:365).
THEOREM NeverWedged == Spec => []NoWedge
<1>1. IInv => NoWedge
  BY DEF IInv
<1>. QED BY <1>1, Inductive, PTL

\* Until a request that is not the trial frees the trial's slot, at most one
\* trial is in flight (CircuitAllow, backend.go:318).
THEOREM TrialExclusive == Spec => []OneTrialUnlessStray
<1>1. ASSUME IInv PROVE OneTrialUnlessStray
  <2> SUFFICES ASSUME ~stray PROVE Cardinality(trials) <= 1
    BY DEF OneTrialUnlessStray
  <2>1. trials \subseteq {holder}
    BY <1>1 DEF IInv, TrialsMatchFlag
  <2>2. IsFiniteSet({holder}) /\ Cardinality({holder}) = 1
    BY FS_Singleton
  <2>. QED BY <2>1, <2>2, FS_Subset
<1>. QED BY <1>1, Inductive, PTL

\* No step takes the circuit out of Open, or starts its cooldown again, before
\* the cooldown has passed (CircuitSuccess, CircuitFailure, currentCircuit).
THEOREM CooldownHolds == Spec => OpenOutlastsCooldown
<1> DEFINE Step == circuit.state = "Open" =>
                     \/ UNCHANGED circuit /\ (cooled => cooled')
                     \/ cooled /\ circuit' = HalfOpen
<1>1. ASSUME IInv, [Next]_vars, circuit.state = "Open" PROVE Step
  <2> USE <1>1 DEF IInv, TypeOK, TrialOnlyHalfOpen
  <2>1. ASSUME NEW r \in Requests, Leave(r) PROVE Step
    BY <2>1 DEF Leave, snapshot
  <2>2. ASSUME NEW r \in Requests, Finish(r) PROVE Step
    BY <2>1, <2>2 DEF Finish, Succeed, Fail, Suppressed, Abandon
  <2>3. ASSUME NEW r \in Requests, AdmitClosed(r) \/ AdmitTrial(r) PROVE Step
    BY <2>3 DEF AdmitClosed, AdmitTrial
  <2>4. CASE Cooldown \/ Remove \/ Promote
    BY <2>4 DEF Cooldown, Remove, Promote, snapshot
  <2>5. CASE UNCHANGED vars
    BY <2>5 DEF vars
  <2>. QED BY <1>1, <2>2, <2>3, <2>4, <2>5 DEF Next
<1>2. IInv /\ [Next]_vars => [Step]_vars
  BY <1>1
<1>. QED BY <1>2, Inductive, PTL DEF Spec, OpenOutlastsCooldown

----------------------------------------------------------------------------
(* The export.                                                             *)

\* The state the series may say: the circuit's, or Open where a scan has promoted
\* it, which nobody exports.
Sayable(s) == s = circuit.state \/ (s = "Open" /\ circuit.state = "HalfOpen")

OneHot(s) == [x \in States |-> IF x = s THEN 1 ELSE 0]

\* Without an overlap one export at most is pending. It exports a state that may
\* be said, and what it has written says so already.
ExportIsFaithful ==
  ~overlapped =>
    /\ Exporting = {} => \E s \in States : Sayable(s) /\ series = OneHot(s)
    /\ \A r \in Exporting :
         /\ Exporting = {r} /\ Sayable(target[r])
         /\ \A i \in 1..written[r] : series[Order[i]] = OneHot(target[r])[Order[i]]

ExportInv ==
  /\ series \in [States -> {0, 1}]
  /\ target \in [Requests -> States \union {""}] /\ written \in [Requests -> 0..2]
  /\ \A r \in Requests \ Exporting : written[r] = 0
  /\ overlapped \in BOOLEAN
  /\ ExportIsFaithful

\* Exporting changes nothing of the circuit.
LEMMA ExportsAreSteps == [ExportNext]_allvars => [Next]_vars
BY DEF ExportNext, allvars, Next, Finish, ScanPromotes, AllowPromotes, Admitted, Denied, Observed,
       Unobserved, SetCircuitState

\* The circuit with its export is the circuit: the writes of the series, and what
\* comes between a promotion and its admission, are stutters, and each outcome is
\* exported after it, not with it (ObserveRoundTrip, circuit.go).
THEOREM ExportImplementsCircuit == ExportSpec => Spec
<1>1. ExportInit => Init
  BY DEF ExportInit
<1> QED BY <1>1, ExportsAreSteps, PTL DEF ExportSpec, Spec

\* The circuit under the export is well typed.
LEMMA ExportCircuit == ExportSpec => []TypeOK
BY ExportImplementsCircuit, TypeCorrect, PTL

\* A transition begins an export that says it, alone unless it overlaps another.
LEMMA TransitionExport ==
  ASSUME ExportInv, NEW r \in Requests \ Exporting, NEW s \in States, Transition(r, s),
         circuit'.state = s
  PROVE  ExportInv'
<1>1. /\ target' \in [Requests -> States \union {""}] /\ target'[r] = s /\ s # ""
      /\ \A q \in Requests \ {r} : target'[q] = target[q]
  BY DEF States, ExportInv, Transition
<1>2. /\ Exporting' = Exporting \union {r} /\ written'[r] = 0
      /\ overlapped' = (Exporting # {}) /\ UNCHANGED <<series, written>>
  BY <1>1 DEF Exporting, ExportInv, Transition
<1>3. ExportIsFaithful'
  <2> SUFFICES ASSUME ~overlapped' PROVE ExportIsFaithful'
    BY DEF ExportIsFaithful
  <2>1. Exporting' = {r}
    BY <1>2
  <2>2. \A i \in 1..written'[r] : FALSE
    <3> SUFFICES ASSUME NEW i \in 1..written'[r] PROVE FALSE
      OBVIOUS
    <3> QED BY <1>2
  <2>3. Sayable(target[r])'
    BY <1>1 DEF Sayable
  <2> QED BY <2>1, <2>2, <2>3 DEF ExportIsFaithful
<1> QED BY <1>1, <1>2, <1>3 DEF ExportInv

\* Steps without a transition, that of a scan excepted.
LEMMA QuietExport ==
  ASSUME ExportInv, UNCHANGED export,
         circuit'.state = circuit.state \/ (circuit.state = "Open" /\ circuit'.state = "HalfOpen")
  PROVE  ExportInv'
<1>1. \A s \in States : Sayable(s) => Sayable(s)'
  BY DEF Sayable, States
<1>2. ASSUME NEW r \in Exporting PROVE target[r] \in States
  BY DEF ExportInv, Exporting
<1> QED BY <1>1, <1>2 DEF ExportInv, ExportIsFaithful, Exporting, export

\* One more series is written.
LEMMA WriteExport ==
  ASSUME ExportInv, TypeOK, NEW r \in Requests, SetCircuitState(r)
  PROVE  ExportInv'
<1>1. PICK w \in 0..2, t \in States : w = written[r] /\ t = target[r] /\ r \in Exporting
  BY DEF ExportInv, SetCircuitState, Exporting
<1>2. /\ target \in [Requests -> States \union {""}] /\ written \in [Requests -> 0..2]
      /\ \A q \in Requests \ Exporting : written[q] = 0
      /\ overlapped \in BOOLEAN
  BY DEF ExportInv
<1> DEFINE s == Order[w + 1]
<1>3. /\ Order[1] = "Closed" /\ Order[2] = "Open" /\ Order[3] = "HalfOpen"
      /\ s \in States /\ (s = "HalfOpen" <=> w = 2)
  BY <1>1 DEF Order, States
<1>4. /\ series' = [series EXCEPT ![s] = IF s = t THEN 1 ELSE 0]
      /\ UNCHANGED <<circuit, overlapped>>
  BY <1>1 DEF SetCircuitState, vars
<1>5. /\ series' \in [States -> {0, 1}] /\ series'[s] = OneHot(t)[s]
      /\ \A x \in States \ {s} : series'[x] = series[x]
  BY <1>3, <1>4 DEF ExportInv, OneHot
<1>6. CASE w = 2
  <2>1. /\ target' = [target EXCEPT ![r] = ""] /\ written' = [written EXCEPT ![r] = 0]
    BY <1>1, <1>3, <1>6 DEF SetCircuitState
  <2>2. Exporting' = Exporting \ {r}
    BY <1>1, <2>1 DEF ExportInv, Exporting
  <2>3. ASSUME ~overlapped
        PROVE  Exporting' = {} /\ Sayable(t)' /\ series' = OneHot(t)
    <3>1. /\ Exporting = {r} /\ Sayable(t)
          /\ \A i \in 1..2 : series[Order[i]] = OneHot(t)[Order[i]]
      BY <1>1, <1>6, <2>3 DEF ExportInv, ExportIsFaithful
    <3>2. \A x \in States : series'[x] = OneHot(t)[x]
      BY <1>3, <1>5, <1>6, <3>1 DEF States
    <3>3. series' = OneHot(t)
      BY <1>5, <3>2 DEF OneHot
    <3> QED BY <1>4, <2>2, <3>1, <3>3 DEF Sayable
  <2>4. ExportIsFaithful'
    <3>1. ~overlapped' => Exporting' = {} /\ Sayable(t)' /\ series' = OneHot(t)
      BY <1>4, <2>3
    <3> QED BY <3>1 DEF ExportIsFaithful, Sayable, OneHot
  <2>5. target' \in [Requests -> States \union {""}]
    BY <1>2, <2>1
  <2>6. written' \in [Requests -> 0..2]
    <3>1. 0 \in 0..2
      OBVIOUS
    <3> QED BY <1>2, <2>1, <3>1
  <2>7. \A q \in Requests \ Exporting' : written'[q] = 0
    BY <1>2, <2>1, <2>2
  <2> QED BY <1>2, <1>4, <1>5, <2>4, <2>5, <2>6, <2>7 DEF ExportInv
<1>7. CASE w # 2
  <2>1. target' = target /\ written' = [written EXCEPT ![r] = w + 1]
    BY <1>1, <1>3, <1>7 DEF SetCircuitState
  <2>2. Exporting' = Exporting
    BY <2>1 DEF Exporting
  <2>3. written' \in [Requests -> 0..2] /\ written'[r] = w + 1
    <3>1. w + 1 \in 0..2
      BY <1>7
    <3> QED BY <1>2, <2>1, <3>1
  <2>4. ASSUME ~overlapped
        PROVE  /\ Exporting' = {r} /\ Sayable(t)'
               /\ \A i \in 1..(w + 1) : series'[Order[i]] = OneHot(t)[Order[i]]
    <3>1. /\ Exporting = {r} /\ Sayable(t)
          /\ \A i \in 1..w : series[Order[i]] = OneHot(t)[Order[i]]
      BY <1>1, <2>4 DEF ExportInv, ExportIsFaithful
    <3>2. \A i \in 1..w : Order[i] \in States \ {s}
      BY <1>1, <1>3, <1>7 DEF States
    <3>3. \A i \in 1..(w + 1) : i \in 1..w \/ i = w + 1
      OBVIOUS
    <3>4. \A i \in 1..w : series'[Order[i]] = OneHot(t)[Order[i]]
      BY <1>5, <3>1, <3>2
    <3>5. Sayable(t)'
      BY <1>4, <3>1 DEF Sayable
    <3> QED BY <1>5, <2>2, <3>1, <3>3, <3>4, <3>5
  <2>5. ExportIsFaithful'
    <3> SUFFICES ASSUME ~overlapped' PROVE ExportIsFaithful'
      BY DEF ExportIsFaithful
    <3>1. /\ Exporting' = {r} /\ Sayable(target[r])' /\ target'[r] = t
          /\ \A i \in 1..written'[r] : series'[Order[i]] = OneHot(t)[Order[i]]
      BY <1>1, <1>4, <2>1, <2>3, <2>4 DEF Sayable
    <3> QED BY <3>1 DEF ExportIsFaithful, Sayable, OneHot
  <2>6. \A q \in Requests \ Exporting' : written'[q] = 0
    BY <1>1, <1>2, <2>1, <2>2
  <2> QED BY <1>2, <1>4, <1>5, <2>1, <2>3, <2>5, <2>6 DEF ExportInv
<1> QED BY <1>6, <1>7

\* With no export pending the series say the state of the circuit, unless the last
\* two transitions were exported at once (metrics.go:171).
THEOREM SeriesAreFaithful == ExportSpec => []SeriesFaithfulUnlessOverlap
<1>1. ExportInit => ExportInv
  <2> SUFFICES ASSUME ExportInit PROVE ExportInv
    OBVIOUS
  <2>1. Exporting = {} /\ circuit.state = "Closed" /\ series = OneHot("Closed")
    BY SnapshotValues DEF ExportInit, Init, Exporting, OneHot
  <2>2. "Closed" \in States /\ Sayable("Closed")
    BY <2>1 DEF States, Sayable
  <2>3. ExportIsFaithful
    BY <2>1, <2>2 DEF ExportIsFaithful
  <2>4. series \in [States -> {0, 1}]
    BY DEF ExportInit
  <2>5. target \in [Requests -> States \union {""}] /\ overlapped \in BOOLEAN
    BY DEF ExportInit
  <2>6. written \in [Requests -> 0..2] /\ \A r \in Requests : written[r] = 0
    <3>1. 0 \in 0..2
      OBVIOUS
    <3>2. written = [r \in Requests |-> 0]
      BY DEF ExportInit
    <3> QED BY <3>1, <3>2
  <2> QED BY <2>3, <2>4, <2>5, <2>6 DEF ExportInv
<1>2. ASSUME TypeOK, ExportInv, [ExportNext]_allvars PROVE ExportInv'
  <2> USE <1>2
  <2>1. CASE UNCHANGED allvars
    BY <2>1, QuietExport DEF allvars, vars
  <2>2. CASE (Cooldown \/ Remove) /\ UNCHANGED <<export, asking>>
    BY <2>2, QuietExport DEF Cooldown, Remove, snapshot
  <2>3. CASE ScanPromotes
    BY <2>3, QuietExport, SnapshotValues DEF ScanPromotes, Promote
  <2>4. ASSUME NEW r \in Requests, AllowPromotes(r) PROVE ExportInv'
    BY <2>4, TransitionExport, SnapshotValues DEF AllowPromotes, Promote, States
  <2>5. ASSUME NEW r \in Requests, Admitted(r) \/ Denied(r) \/ Unobserved(r) PROVE ExportInv'
    <3>1. circuit'.state = circuit.state /\ UNCHANGED export
      BY <2>5, SetTrial DEF Admitted, AdmitClosed, AdmitTrial, Denied, Unobserved, Suppressed,
         Abandon, Leave, snapshot, vars, TypeOK
    <3> QED BY <3>1, QuietExport
  <2>6. ASSUME NEW r \in Requests, Observed(r) PROVE ExportInv'
    <3>1. ASSUME Succeed(r), circuit.state = "HalfOpen", Transition(r, "Closed")
          PROVE  ExportInv'
      <4>1. circuit' = Closed(0) /\ r \notin Exporting
        BY <2>6, <3>1 DEF Observed, Succeed
      <4> QED BY <3>1, <4>1, TransitionExport, SnapshotValues DEF States
    <3>2. ASSUME Succeed(r), circuit.state # "HalfOpen", UNCHANGED export
          PROVE  ExportInv'
      <4>1. circuit'.state = circuit.state
        BY <3>2, SnapshotValues DEF Succeed, Leave, snapshot, TypeOK, Snapshots, States
      <4> QED BY <3>2, <4>1, QuietExport
    <3>3. ASSUME Fail(r), circuit'.state = "Open", Transition(r, "Open")
          PROVE  ExportInv'
      <4>1. r \notin Exporting
        BY <2>6 DEF Observed
      <4> QED BY <3>3, <4>1, TransitionExport DEF States
    <3>4. ASSUME Fail(r), ~(circuit.state # "Open" /\ circuit'.state = "Open"), UNCHANGED export
          PROVE  ExportInv'
      <4>1. circuit'.state = circuit.state
        BY <3>4, SnapshotValues DEF Fail, Leave, snapshot, AfterFailure, Closed, Open, Snapshot,
           TypeOK, Snapshots, States
      <4> QED BY <3>4, <4>1, QuietExport
    <3> QED BY <2>6, <3>1, <3>2, <3>3, <3>4 DEF Observed
  <2>7. ASSUME NEW r \in Requests, SetCircuitState(r) PROVE ExportInv'
    BY <2>7, WriteExport
  <2>8. CASE ExportNext
    BY ONLY <2>2, <2>3, <2>4, <2>5, <2>6, <2>7, <2>8 DEF ExportNext
  <2>9. ExportNext \/ UNCHANGED allvars
    OBVIOUS
  <2> QED BY <2>1, <2>8, <2>9
<1>3. ExportInv => SeriesFaithfulUnlessOverlap
  <2> SUFFICES ASSUME ExportInv, Exporting = {}, ~overlapped PROVE SeriesFaithfulUnlessOverlap
    BY DEF SeriesFaithfulUnlessOverlap
  <2>1. PICK s \in States : Sayable(s) /\ series = OneHot(s)
    BY DEF ExportInv, ExportIsFaithful
  <2>2. s \in {circuit.state} \union {x \in {"Open"} : circuit.state = "HalfOpen"}
    BY <2>1 DEF Sayable
  <2> QED BY <2>1, <2>2 DEF OneHot, SeriesFaithfulUnlessOverlap
<1> QED BY <1>1, <1>2, <1>3, ExportCircuit, PTL DEF ExportSpec
=============================================================================
