---------------------------- MODULE HealthProofs ----------------------------
(***************************************************************************)
(* Theorems about Health, for all thresholds and every window.             *)
(***************************************************************************)
EXTENDS Health, FiniteSetTheorems, TLAPS

\* Remove returns after its prober has exited, and nothing starts it again.
RemovedIsQuiet == reload \in {"forget", "delete", "done"} => prober = "exited"

\* What the prober has counted when it is where it is. It reads the flag once
\* per probe, and only a success sets it.
StreakAgrees ==
  /\ failures \in 0..(ProbeFailures + 1)
  /\ prober \in {"gaugeUp", "markUp"} => failures = 0
  /\ prober \in {"wait", "probe"} /\ failures >= ProbeFailures => ~healthy

\* Unless the detector is about to write it, the gauge of an unhealthy backend is
\* down before the prober moves on, and before the prober marks it unhealthy.
GaugeFollows ==
  reload = "serving" /\ observer \in {"free", "mark"} =>
    /\ ~healthy /\ prober \in {"wait", "probe"} => gauge = "down"
    /\ prober = "markDown" => gauge = "down"

FlagInv == StreakAgrees /\ GaugeFollows

\* The failures in the window are among those observed since the reinstatement,
\* and an ejected backend is healthy only once reinstated.
BurstIsFresh ==
  /\ window.failures \in Int /\ window.ejected \in BOOLEAN
  /\ evidence \in 0..EjectAfter
  /\ reinstated \in BOOLEAN
  /\ ~window.ejected => reinstated /\ window.failures <= evidence
  /\ window.ejected /\ healthy /\ observer # "mark" => reinstated
  /\ observer # "free" => window.ejected

----------------------------------------------------------------------------
(* Removal.                                                                *)

\* After Remove has returned nothing reinstates the backend or writes the series
\* the reload deletes (checker.go:187).
THEOREM NoProbeAfterRemoveHolds == Spec => NoProbeAfterRemove
<1>1. Init => RemovedIsQuiet
  BY DEF Init, RemovedIsQuiet
<1>2. RemovedIsQuiet /\ [Next]_vars => RemovedIsQuiet'
  <2> SUFFICES ASSUME RemovedIsQuiet, [Next]_vars PROVE RemovedIsQuiet'
    OBVIOUS
  <2> USE DEF RemovedIsQuiet
  <2>1. CASE Prober
    BY <2>1 DEF Prober, ProberKeeps, Tick, Exit, ProbeDropped, ProbeSucceeds, ProbeFails,
       GaugeUp, MarkUp, GaugeDown, MarkDown
  <2>2. CASE Observer
    BY <2>2 DEF Observer, ObserverKeeps, Observe, EjectMark, EjectGauge, probing
  <2>3. CASE Reload
    BY <2>3 DEF Reload, ReloadKeeps, RemoveCancels, RemoveReturns, Forget, DeleteSeries, probing
  <2>4. CASE Flip \/ UNCHANGED vars
    BY <2>4 DEF Flip, vars, probing
  <2> QED
    BY <2>1, <2>2, <2>3, <2>4 DEF Next
<1>3. RemovedIsQuiet /\ [Next]_vars =>
        [(reload \in {"forget", "delete", "done"})
           => /\ healthy' => healthy
              /\ gauge' = "up" => gauge = "up"]_vars
  <2> SUFFICES ASSUME RemovedIsQuiet, [Next]_vars, reload \in {"forget", "delete", "done"}
               PROVE  (healthy' => healthy) /\ (gauge' = "up" => gauge = "up")
    OBVIOUS
  <2> USE DEF RemovedIsQuiet
  <2>1. ~Prober
    BY DEF Prober, Tick, Exit, ProbeDropped, ProbeSucceeds, ProbeFails, GaugeUp, MarkUp,
       GaugeDown, MarkDown
  <2>2. CASE Observer
    BY <2>2 DEF Observer, Observe, EjectMark, EjectGauge
  <2>3. CASE Reload
    BY <2>3 DEF Reload, ReloadKeeps, RemoveCancels, RemoveReturns, Forget, DeleteSeries
  <2>4. CASE Flip \/ UNCHANGED vars
    BY <2>4 DEF Flip, vars
  <2> QED
    BY <2>1, <2>2, <2>3, <2>4 DEF Next
<1> QED
  BY <1>1, <1>2, <1>3, PTL DEF Spec, NoProbeAfterRemove

----------------------------------------------------------------------------
(* The flag and the gauge.                                                 *)

\* An unhealthy backend is down on the gauge once prober and detector are quiet
\* (checker.go:255, outlier.go:130).
THEOREM EjectionShows == Spec => []EjectionIsVisible
<1>1. Init => FlagInv
  <2> SUFFICES ASSUME Init PROVE FlagInv
    OBVIOUS
  <2>1. StreakAgrees
    BY ThresholdsAssumption DEF Init, StreakAgrees
  <2>2. ~healthy => gauge = "down"
    BY Zenon DEF Init
  <2>3. prober # "markDown"
    BY DEF Init
  <2> QED
    BY <2>1, <2>2, <2>3 DEF FlagInv, GaugeFollows
<1>2. FlagInv /\ [Next]_vars => FlagInv'
  <2> SUFFICES ASSUME FlagInv, [Next]_vars PROVE FlagInv'
    OBVIOUS
  <2> USE ThresholdsAssumption DEF FlagInv, StreakAgrees, GaugeFollows
  <2>1. CASE Tick \/ Exit \/ ProbeDropped
    BY <2>1 DEF Tick, Exit, ProbeDropped, ProberKeeps
  <2>2. CASE ProbeSucceeds
    BY <2>2 DEF ProbeSucceeds, ProberKeeps
  <2>3. CASE ProbeFails
    BY <2>3 DEF ProbeFails, ProberKeeps, Least
  <2>4. CASE GaugeUp \/ MarkUp \/ GaugeDown \/ MarkDown
    BY <2>4 DEF GaugeUp, MarkUp, GaugeDown, MarkDown, ProberKeeps
  <2>5. CASE Observer
    BY <2>5 DEF Observer, ObserverKeeps, Observe, EjectMark, EjectGauge, probing
  <2>6. CASE Reload
    BY <2>6 DEF Reload, ReloadKeeps, RemoveCancels, RemoveReturns, Forget, DeleteSeries, probing
  <2>7. CASE Flip \/ UNCHANGED vars
    BY <2>7 DEF Flip, vars, probing
  <2> QED
    BY <2>1, <2>2, <2>3, <2>4, <2>5, <2>6, <2>7 DEF Next, Prober
<1>3. FlagInv => EjectionIsVisible
  BY DEF FlagInv, GaugeFollows, EjectionIsVisible
<1> QED
  BY <1>1, <1>2, <1>3, PTL DEF Spec

----------------------------------------------------------------------------
(* The detector.                                                           *)

\* Folding an outcome counts a failure at most, and changes no episode.
LEMMA FoldCounts ==
  ASSUME NEW w, w = window \/ w = EmptyWindow, window.failures \in Int,
         window.ejected \in BOOLEAN, NEW success \in BOOLEAN
  PROVE  /\ Fold(w, success).failures \in Int
         /\ Fold(w, success).failures <= w.failures + (IF success THEN 0 ELSE 1)
         /\ Fold(w, success).ejected = w.ejected
  BY DEF Fold, EmptyWindow

\* The first burst has no failures.
LEMMA BurstInit == Init => BurstIsFresh
  BY ThresholdsAssumption DEF Init, BurstIsFresh, EmptyWindow

\* The observation that ejects was of a reinstated backend, with failures enough.
LEMMA ObserveBurst ==
  ASSUME BurstIsFresh, NEW success \in BOOLEAN, Observe(success)
  PROVE  /\ BurstIsFresh'
         /\ observer' = "mark" => reinstated /\ evidence + 1 >= EjectAfter
<1> USE DEF BurstIsFresh
<1> DEFINE restart == window.ejected /\ healthy
           base    == IF restart THEN EmptyWindow ELSE window
           folded  == Fold(base, success)
           ejects  == ~success /\ ~folded.ejected /\ folded.failures >= EjectAfter
           new     == IF success THEN 0 ELSE 1
<1>1. /\ observer = "free" /\ healthy' = healthy
      /\ window' = [folded EXCEPT !.ejected = @ \/ ejects]
      /\ observer' = IF ejects THEN "mark" ELSE "free"
      /\ reinstated' = (reinstated /\ ~ejects)
      /\ evidence' = IF ejects \/ ~reinstated THEN 0 ELSE Least(evidence + new, EjectAfter)
  BY DEF Observe
<1>2. /\ folded.failures \in Int /\ folded.failures <= base.failures + new
      /\ folded.ejected = base.ejected
  BY FoldCounts
<1>3. ~base.ejected => reinstated /\ base.failures <= evidence
  BY <1>1 DEF EmptyWindow
<1>4. base.ejected \in BOOLEAN /\ base.failures \in Int
  <2>1. CASE restart
    BY <2>1 DEF EmptyWindow
  <2>2. CASE ~restart
    BY <2>2, Zenon
  <2> QED
    BY <2>1, <2>2
<1>5. ejects => reinstated /\ evidence + 1 >= EjectAfter
  BY <1>2, <1>3, <1>4, ThresholdsAssumption
<1>6. /\ window'.failures = folded.failures
      /\ window'.ejected = (base.ejected \/ ejects)
  BY <1>1, <1>2 DEF Fold, EmptyWindow
<1> HIDE DEF base, folded, ejects
<1>7. evidence' \in 0..EjectAfter /\ reinstated' \in BOOLEAN
  BY <1>1, ThresholdsAssumption DEF Least
<1>8. ~window'.ejected => reinstated' /\ window'.failures <= evidence'
  <2> SUFFICES ASSUME ~base.ejected, ~ejects PROVE reinstated' /\ window'.failures <= evidence'
    BY <1>6
  <2>1. folded.failures <= evidence + new /\ folded.failures <= EjectAfter
    BY <1>2, <1>3, <1>4, ThresholdsAssumption DEF ejects
  <2> QED
    BY <2>1, <1>1, <1>2, <1>3, <1>6, ThresholdsAssumption DEF Least
<1>9. window'.ejected /\ healthy' /\ observer' # "mark" => reinstated'
  BY <1>1, <1>6 DEF base, EmptyWindow
<1> QED
  BY <1>1, <1>2, <1>5, <1>6, <1>7, <1>8, <1>9

\* A burst ejects once (outlier.go:120).
THEOREM NoStaleEjectionHolds == Spec => NoStaleEjection
<1>1. BurstIsFresh /\ [Next]_vars => BurstIsFresh'
  <2> SUFFICES ASSUME BurstIsFresh, [Next]_vars PROVE BurstIsFresh'
    OBVIOUS
  <2> USE DEF BurstIsFresh
  <2>1. CASE Prober
    BY <2>1 DEF Prober, ProberKeeps, Tick, Exit, ProbeDropped, ProbeSucceeds, ProbeFails,
       GaugeUp, MarkUp, GaugeDown, MarkDown, history
  <2>2. CASE EjectMark \/ EjectGauge
    BY <2>2 DEF ObserverKeeps, EjectMark, EjectGauge, history
  <2>3. CASE Reload
    <3>1. CASE Forget
      <4>1. /\ window' = EmptyWindow /\ observer' = "free"
            /\ reinstated' = TRUE /\ evidence' = 0
        BY <3>1 DEF Forget, ReloadKeeps
      <4> QED
        BY <4>1, ThresholdsAssumption DEF EmptyWindow
    <3>2. CASE RemoveCancels \/ RemoveReturns \/ DeleteSeries
      BY <3>2 DEF RemoveCancels, RemoveReturns, DeleteSeries, ReloadKeeps, history
    <3> QED
      BY <2>3, <3>1, <3>2 DEF Reload
  <2>4. CASE Flip \/ UNCHANGED vars
    BY <2>4 DEF Flip, vars, history
  <2> QED
    BY <2>1, <2>2, <2>3, <2>4, ObserveBurst DEF Next, Observer
<1> DEFINE Step == \A success \in BOOLEAN :
                     (Observe(success) /\ observer' = "mark")
                       => reinstated /\ evidence + 1 >= EjectAfter
<1>2. BurstIsFresh /\ [Next]_vars => [Step]_vars
  BY ObserveBurst
<1> QED
  BY <1>1, <1>2, BurstInit, PTL DEF Spec, NoStaleEjection

----------------------------------------------------------------------------
(* The window.                                                             *)

Windows ==
  [outcomes : [Slots -> BOOLEAN], next : Slots, filled : 0..WindowSize, failures : Int,
   ejected : BOOLEAN]

Failed(s) == {k \in 1..Len(s) : ~s[k]}

\* The slot of the k-th of the last n outcomes.
SlotOf(w, n, k) ==
  LET p == w.next - n + k - 1 IN IF p < 0 THEN p + WindowSize ELSE p

\* The ring holds the outcomes s, the latest before next.
Holds(w, s) ==
  /\ w \in Windows /\ s \in Seq(BOOLEAN) /\ Len(s) = w.filled
  /\ \A k \in 1..Len(s) : s[k] = w.outcomes[SlotOf(w, Len(s), k)]

Counts(w, s) == IsFiniteSet(Failed(s)) /\ w.failures = Cardinality(Failed(s))

WindowInv == Holds(window, recent) /\ Counts(window, recent)

\* The empty ring holds no outcomes.
LEMMA EmptyHolds == Holds(EmptyWindow, <<>>) /\ Counts(EmptyWindow, <<>>)
<1>1. EmptyWindow \in Windows
  BY ThresholdsAssumption DEF EmptyWindow, Windows, Slots
<1>2. <<>> \in Seq(BOOLEAN) /\ Len(<<>>) = 0 /\ 1..0 = {}
  OBVIOUS
<1>3. Failed(<<>>) = {}
  BY <1>2 DEF Failed
<1>4. EmptyWindow.filled = 0 /\ EmptyWindow.failures = 0
  BY DEF EmptyWindow
<1> QED BY <1>1, <1>2, <1>3, <1>4, FS_EmptySet DEF Holds, Counts

\* One more outcome.
LEMMA FailedOfAppend ==
  ASSUME NEW s \in Seq(BOOLEAN), NEW x \in BOOLEAN, IsFiniteSet(Failed(s))
  PROVE  /\ IsFiniteSet(Failed(Append(s, x)))
         /\ Cardinality(Failed(Append(s, x)))
              = Cardinality(Failed(s)) + (IF x THEN 0 ELSE 1)
<1> DEFINE n == Len(s)
<1>1. n \in Nat /\ Len(Append(s, x)) = n + 1 /\ Append(s, x)[n + 1] = x
      /\ \A k \in 1..n : Append(s, x)[k] = s[k]
  OBVIOUS
<1>2. n + 1 \notin Failed(s)
  BY <1>1 DEF Failed
<1>3. CASE x
  <2>1. Failed(Append(s, x)) = Failed(s)
    BY <1>1, <1>3 DEF Failed
  <2>2. Cardinality(Failed(s)) \in Nat /\ Cardinality(Failed(s)) + 0 = Cardinality(Failed(s))
    BY FS_CardinalityType
  <2>3. (IF x THEN 0 ELSE 1) = 0
    BY <1>3
  <2> QED BY <2>1, <2>2, <2>3
<1>4. CASE ~x
  <2>1. Failed(Append(s, x)) = Failed(s) \union {n + 1}
    BY <1>1, <1>4 DEF Failed
  <2> QED BY <1>2, <1>4, <2>1, FS_AddElement
<1> QED BY <1>3, <1>4

\* One less at the front.
LEMMA FailedOfTail ==
  ASSUME NEW s \in Seq(BOOLEAN), s # <<>>, IsFiniteSet(Failed(s))
  PROVE  /\ IsFiniteSet(Failed(Tail(s)))
         /\ Cardinality(Failed(Tail(s))) = Cardinality(Failed(s)) - (IF s[1] THEN 0 ELSE 1)
<1> DEFINE n == Len(s)
           A == Failed(s) \ {1}
           B == Failed(Tail(s))
           f == [k \in A |-> k - 1]
<1>1. /\ n \in Nat \ {0} /\ Len(Tail(s)) = n - 1
      /\ \A k \in 1..(n - 1) : Tail(s)[k] = s[k + 1]
  OBVIOUS
<1>2. IsFiniteSet(A) /\ Cardinality(A) = Cardinality(Failed(s)) - (IF s[1] THEN 0 ELSE 1)
  <2>1. 1 \in Failed(s) <=> ~s[1]
    BY <1>1 DEF Failed
  <2> QED BY <2>1, FS_RemoveElement, FS_CardinalityType
<1>3. A = {k \in 2..n : ~s[k]} /\ B = {k \in 1..(n - 1) : ~s[k + 1]}
  BY <1>1 DEF Failed
<1>4. f \in Bijection(A, B)
  <2>1. \A k \in A : k \in 2..n /\ ~s[k]
    BY <1>3
  <2>2. \A k \in 2..n : ~s[k] => k \in A
    BY <1>3
  <2>3. \A k \in B : k \in 1..(n - 1) /\ ~s[k + 1]
    BY <1>3
  <2>4. \A k \in 1..(n - 1) : ~s[k + 1] => k \in B
    BY <1>3
  <2> HIDE DEF A, B
  <2>5. f \in [A -> B]
    BY <1>1, <2>1, <2>4
  <2>6. IsInjective(f)
    BY <1>1, <2>1 DEF IsInjective
  <2>7. \A j \in B : \E k \in A : f[k] = j
    <3> SUFFICES ASSUME NEW j \in B PROVE j + 1 \in A /\ f[j + 1] = j
      OBVIOUS
    <3> QED BY <1>1, <2>2, <2>3
  <2> QED BY <2>5, <2>6, <2>7 DEF Bijection, Injection, Surjection
<1> QED BY <1>2, <1>4, FS_Bijection DEF ExistsBijection

\* The ring forgets the outcome it overwrites (outlierWindow, outlier.go:150).
LEMMA FoldHolds ==
  ASSUME NEW w, NEW s, Holds(w, s), Counts(w, s), NEW success \in BOOLEAN
  PROVE  /\ Holds(Fold(w, success), Latest(Append(s, success)))
         /\ Counts(Fold(w, success), Latest(Append(s, success)))
<1> DEFINE n == Len(s)
           W == WindowSize
           v == Fold(w, success)
           a == Append(s, success)
           t == Latest(a)
           overwritten == w.filled = W /\ ~w.outcomes[w.next]
<1>1. /\ W \in Nat \ {0} /\ Slots = 0..(W - 1)
      /\ w \in Windows /\ w.next \in 0..(W - 1) /\ n = w.filled /\ n \in 0..W
  BY ThresholdsAssumption DEF Holds, Windows, Slots
<1>2. /\ s \in Seq(BOOLEAN) /\ a \in Seq(BOOLEAN) /\ Len(a) = n + 1 /\ a[n + 1] = success
      /\ \A k \in 1..n : a[k] = s[k]
  BY DEF Holds
<1>3. /\ v.outcomes = [w.outcomes EXCEPT ![w.next] = success]
      /\ v.next = (w.next + 1) % W
      /\ v.filled = Least(w.filled + 1, W)
      /\ v.failures = w.failures - (IF overwritten THEN 1 ELSE 0) + (IF success THEN 0 ELSE 1)
      /\ v.ejected = w.ejected
      /\ v \in [outcomes : {v.outcomes}, next : {v.next}, filled : {v.filled},
                failures : {v.failures}, ejected : {v.ejected}]
  BY <1>1 DEF Fold, Windows
<1>4. (w.next + 1) % W = IF w.next + 1 = W THEN 0 ELSE w.next + 1
  BY <1>1
<1>5. v \in Windows
  <2>1. v.outcomes \in [Slots -> BOOLEAN]
    BY <1>1, <1>3 DEF Windows
  <2>2. v.next \in Slots
    BY <1>1, <1>3, <1>4
  <2>3. v.filled \in 0..W
    BY <1>1, <1>3 DEF Least
  <2>4. v.failures \in Int /\ v.ejected \in BOOLEAN
    BY <1>1, <1>3 DEF Windows
  <2> HIDE DEF v
  <2> QED BY <1>3, <2>1, <2>2, <2>3, <2>4 DEF Windows
<1>6. v.filled = IF n = W THEN W ELSE n + 1
  BY <1>1, <1>3 DEF Least
<1> HIDE DEF v
<1>7. ASSUME NEW m \in 1..W, NEW k \in 1..m
      PROVE  SlotOf(v, m, k) = IF k = m THEN w.next
                               ELSE IF w.next - m + k < 0 THEN w.next - m + k + W
                               ELSE w.next - m + k
  <2>1. v.next = IF w.next + 1 = W THEN 0 ELSE w.next + 1
    BY <1>3, <1>4
  <2>2. SlotOf(v, m, k) = IF v.next - m + k - 1 < 0 THEN v.next - m + k - 1 + W
                          ELSE v.next - m + k - 1
    BY DEF SlotOf
  <2>3. m \in Int /\ k \in Int /\ 1 <= k /\ k <= m /\ m <= W
    BY <1>1
  <2>4. w.next \in Int /\ W \in Int /\ 0 <= w.next /\ w.next < W
    BY <1>1
  <2>5. CASE w.next + 1 = W
    BY <2>1, <2>2, <2>3, <2>4, <2>5
  <2>6. CASE w.next + 1 # W
    BY <2>1, <2>2, <2>3, <2>4, <2>6
  <2> QED BY <2>5, <2>6
<1>8. \A k \in 1..n : s[k] = w.outcomes[LET p == w.next - n + k - 1 IN IF p < 0 THEN p + W ELSE p]
  BY DEF Holds, SlotOf
<1>9. IsFiniteSet(Failed(a)) /\ Cardinality(Failed(a)) = w.failures + (IF success THEN 0 ELSE 1)
  BY <1>2, FailedOfAppend DEF Counts
<1>10. ASSUME NEW x \in Slots
       PROVE  v.outcomes[x] = IF x = w.next THEN success ELSE w.outcomes[x]
  BY <1>1, <1>3 DEF Windows
<1>11. CASE n < W
  <2>1. t = a
    BY <1>1, <1>2, <1>11 DEF Latest
  <2>2. Counts(v, t)
    BY <1>1, <1>3, <1>9, <1>11, <2>1 DEF Counts, Windows
  <2>3. ASSUME NEW k \in 1..(n + 1) PROVE a[k] = v.outcomes[SlotOf(v, n + 1, k)]
    <3>1. n + 1 \in 1..W
      BY <1>1, <1>11
    <3>2. CASE k = n + 1
      BY <1>1, <1>2, <1>7, <1>10, <3>1, <3>2
    <3>3. CASE k \in 1..n
      <4> DEFINE p == w.next - n + k - 1
                 x == IF p < 0 THEN p + W ELSE p
      <4>1. x \in Slots /\ x # w.next
        BY <1>1, <1>11, <3>3
      <4>2. SlotOf(v, n + 1, k) = x
        <5>1. k \in 1..(n + 1) /\ k # n + 1 /\ w.next - (n + 1) + k = p
          BY <1>1, <3>3
        <5> QED BY <1>7, <3>1, <5>1
      <4>3. a[k] = w.outcomes[x]
        BY <1>2, <1>8, <3>3
      <4> HIDE DEF x
      <4> QED BY <1>10, <4>1, <4>2, <4>3
    <3> QED BY <1>1, <3>2, <3>3
  <2>4. Holds(v, a)
    <3>1. Len(a) = v.filled
      BY <1>1, <1>2, <1>6, <1>11
    <3> HIDE DEF a
    <3> QED BY <1>2, <1>5, <2>3, <3>1 DEF Holds
  <2> QED BY <2>1, <2>2, <2>4 DEF v
<1>12. CASE n = W
  <2>1. a # <<>> /\ t = Tail(a) /\ Len(t) = W /\ t \in Seq(BOOLEAN)
    <3>1. Len(a) > W /\ Len(a) - 1 = W
      BY <1>1, <1>2, <1>12
    <3>2. a # <<>> /\ Len(Tail(a)) = Len(a) - 1 /\ Tail(a) \in Seq(BOOLEAN)
      <4> HIDE DEF a
      <4> QED BY <1>1, <1>2, <3>1
    <3> QED BY <3>1, <3>2 DEF Latest
  <2>2. \A k \in 1..W : t[k] = a[k + 1]
    BY <1>1, <1>2, <1>12, <2>1
  <2>3. w.outcomes[w.next] = s[1] /\ a[1] = s[1]
    BY <1>1, <1>2, <1>8, <1>12
  <2>4. Counts(v, t)
    <3>1. /\ IsFiniteSet(Failed(t))
          /\ Cardinality(Failed(t)) = Cardinality(Failed(a)) - (IF a[1] THEN 0 ELSE 1)
      <4> HIDE DEF a, t
      <4> QED BY <1>2, <1>9, <2>1, FailedOfTail
    <3> QED BY <1>1, <1>3, <1>9, <1>12, <2>3, <3>1 DEF Counts, Windows
  <2>5. ASSUME NEW k \in 1..W PROVE t[k] = v.outcomes[SlotOf(v, W, k)]
    <3>1. CASE k = W
      BY <1>1, <1>2, <1>7, <1>10, <1>12, <2>2, <3>1
    <3>2. CASE k \in 1..(W - 1)
      <4> DEFINE p == w.next - W + k
                 x == IF p < 0 THEN p + W ELSE p
      <4>1. x \in Slots /\ x # w.next
        BY <1>1, <3>2
      <4>2. SlotOf(v, W, k) = x
        BY <1>1, <1>7, <3>2
      <4>3. k + 1 \in 1..n /\ p = w.next - n + (k + 1) - 1
        BY <1>1, <1>12, <3>2
      <4>4. t[k] = w.outcomes[x]
        BY <1>2, <1>8, <2>2, <4>3
      <4> HIDE DEF x
      <4> QED BY <1>10, <4>1, <4>2, <4>4
    <3> QED BY <1>1, <3>1, <3>2
  <2>6. Holds(v, t)
    <3>1. Len(t) = v.filled
      BY <1>6, <1>12, <2>1
    <3> HIDE DEF t
    <3> QED BY <1>5, <2>1, <2>5, <3>1 DEF Holds
  <2> QED BY <2>4, <2>6 DEF v
<1> QED BY <1>1, <1>11, <1>12

\* The detector's count is that of the failures among the last outcomes.
THEOREM WindowCounts == Spec => []WindowExact
<1>1. Init => WindowInv
  BY EmptyHolds DEF Init, WindowInv
<1>2. WindowInv /\ [Next]_vars => WindowInv'
  <2> SUFFICES ASSUME WindowInv, [Next]_vars PROVE WindowInv'
    OBVIOUS
  <2>1. ASSUME NEW success \in BOOLEAN, Observe(success) PROVE WindowInv'
    <3> DEFINE restart == window.ejected /\ healthy
               base == IF restart THEN EmptyWindow ELSE window
               was == IF restart THEN <<>> ELSE recent
               folded == Fold(base, success)
    <3>1. Holds(base, was) /\ Counts(base, was)
      BY EmptyHolds DEF WindowInv
    <3>2. /\ Holds(folded, Latest(Append(was, success)))
          /\ Counts(folded, Latest(Append(was, success)))
      <4> HIDE DEF base, was
      <4> QED BY <3>1, FoldHolds
    <3>3. PICK e \in BOOLEAN : window' = [folded EXCEPT !.ejected = e]
      <4>1. folded.ejected \in BOOLEAN
        BY <3>2 DEF Holds, Windows
      <4> QED BY <2>1, <4>1 DEF Observe
    <3>4. recent' = Latest(Append(was, success))
      BY <2>1 DEF Observe
    <3> HIDE DEF folded, was
    <3>5. /\ window' \in Windows /\ window'.outcomes = folded.outcomes
          /\ window'.next = folded.next /\ window'.filled = folded.filled
          /\ window'.failures = folded.failures
      BY <3>2, <3>3 DEF Holds, Windows
    <3> QED BY <3>2, <3>4, <3>5 DEF WindowInv, Holds, Counts, SlotOf
  <2>2. CASE Forget
    BY <2>2, EmptyHolds DEF Forget, WindowInv
  <2>3. CASE UNCHANGED <<window, recent>>
    BY <2>3 DEF WindowInv, Holds, Counts, SlotOf
  <2>4. CASE \/ Flip \/ Prober \/ EjectMark \/ EjectGauge \/ RemoveCancels \/ RemoveReturns
             \/ DeleteSeries \/ UNCHANGED vars
    BY <2>3, <2>4 DEF Flip, Prober, ProberKeeps, Tick, Exit, ProbeDropped, ProbeSucceeds,
       ProbeFails, GaugeUp, MarkUp, GaugeDown, MarkDown, ObserverKeeps, EjectMark, EjectGauge,
       RemoveCancels, RemoveReturns, DeleteSeries, history, vars
  <2> QED BY <2>1, <2>2, <2>4 DEF Next, Observer, Reload
<1>3. WindowInv => WindowExact
  BY DEF WindowInv, Holds, Counts, Failed, WindowExact
<1> QED BY <1>1, <1>2, <1>3, PTL DEF Spec
=============================================================================
