-------------------------- MODULE CircuitCASProofs --------------------------
(***************************************************************************)
(* The CompareAndSwap loops of CircuitCAS implement the atomic circuit, for *)
(* every number of request goroutines and every threshold.                 *)
(***************************************************************************)
EXTENDS CircuitCAS, TLAPS

\* What a goroutine about to CompareAndSwap knows while its pointer is still
\* the current one: the snapshot is the one it loaded and looked at.
KnownAt(step, c) ==
  /\ step \in {"scanSwap", "promoteSwap"} => c.state = "Open" /\ cooled
  /\ step = "trialSwap" => c.state = "HalfOpen" /\ ~c.trial
  /\ step \in {"succeedSwap", "failSwap"} => c.state # "Open"
  /\ step = "rearmSwap" => c.state = "HalfOpen" /\ c.trial

PinnedIsCurrent ==
  \A r \in Requests : pc[r] \in Swapping /\ Pinned(r)
                        => seen[r] = circuit /\ KnownAt(pc[r], circuit)

TrialOnlyHalfOpen == circuit.trial => circuit.state = "HalfOpen"

IInv == TypeOK /\ PinnedIsCurrent /\ FailuresCounted /\ TrialOnlyHalfOpen

----------------------------------------------------------------------------
\* A snapshot may have no failures.
LEMMA NoFailures == 0 \in 0..(Threshold - 1)
  BY ThresholdAssumption

\* What each constructor of a snapshot gives.
LEMMA SnapshotValues ==
  /\ Atomic!Closed(0) \in Atomic!Snapshots
  /\ Atomic!Closed(0).state = "Closed"
  /\ Atomic!Closed(0).failures = 0
  /\ ~Atomic!Closed(0).trial
  /\ Atomic!HalfOpen \in Atomic!Snapshots
  /\ Atomic!HalfOpen.state = "HalfOpen"
  /\ ~Atomic!HalfOpen.trial
  BY ThresholdAssumption
     DEF Atomic!Closed, Atomic!HalfOpen, Atomic!Snapshot, Atomic!Snapshots,
         Atomic!States

\* What a failure makes of a snapshot: its count below the threshold, or open.
LEMMA AfterFailureValue ==
  ASSUME NEW c \in Atomic!Snapshots
  PROVE  /\ Atomic!AfterFailure(c) \in Atomic!Snapshots
         /\ ~Atomic!AfterFailure(c).trial
         /\ Atomic!AfterFailure(c).state \in {"Open", "Closed"}
         /\ Atomic!AfterFailure(c).state = "Closed"
              => c.state # "HalfOpen" /\ Atomic!AfterFailure(c).failures = c.failures + 1
  BY ThresholdAssumption
     DEF Atomic!AfterFailure, Atomic!Closed, Atomic!Open, Atomic!Snapshot,
         Atomic!Snapshots, Atomic!States

\* Taking or freeing the trial changes nothing else of the snapshot.
LEMMA SetTrial ==
  ASSUME NEW c \in Atomic!Snapshots, NEW b \in BOOLEAN
  PROVE  /\ [c EXCEPT !.trial = b] \in Atomic!Snapshots
         /\ [c EXCEPT !.trial = b].trial = b
         /\ [c EXCEPT !.trial = b].state = c.state
         /\ [c EXCEPT !.trial = b].failures = c.failures
  BY DEF Atomic!Snapshots

\* The steps between which a request counts as admitted.
LEMMA GotoInFlight ==
  ASSUME TypeOK, NEW r \in Requests, NEW step \in Steps, Goto(r, step)
  PROVE  /\ pc' \in [Requests -> Steps]
         /\ pc'[r] = step
         /\ \A q \in Requests \ {r} : pc'[q] = pc[q]
         /\ step \in Admitted => InFlight' = InFlight \union {r}
         /\ step \notin Admitted => InFlight' = InFlight \ {r}
  BY DEF TypeOK, Goto, InFlight

\* A load keeps the invariant if r now knows what its next step relies on.
LEMMA LoadForKeeps ==
  ASSUME IInv, NEW r \in Requests, NEW step \in Swapping, LoadFor(r, step),
         KnownAt(step, circuit),
         pc[r] \in Admitted => step \in Admitted
  PROVE  IInv'
<1>1. step \in Steps
  BY DEF Steps
<1>2. /\ pc' \in [Requests -> Steps]
      /\ pc'[r] = step
      /\ \A q \in Requests \ {r} : pc'[q] = pc[q]
      /\ InFlight \subseteq InFlight'
  BY <1>1, GotoInFlight DEF LoadFor, IInv, InFlight, TypeOK
<1>3. TypeOK'
  BY <1>2 DEF LoadFor, IInv, TypeOK, history
<1>4. PinnedIsCurrent'
  BY <1>2 DEF LoadFor, IInv, PinnedIsCurrent, Pinned, KnownAt, TypeOK
<1>5. FailuresCounted' /\ TrialOnlyHalfOpen'
  BY DEF LoadFor, IInv, FailuresCounted, TrialOnlyHalfOpen
<1>. QED BY <1>3, <1>4, <1>5 DEF IInv

\* A load that ends a loop keeps it.
LEMMA LoadAndGoKeeps ==
  ASSUME IInv, NEW r \in Requests, NEW step \in Steps \ Swapping,
         LoadAndGo(r, step),
         pc[r] \in Admitted => step \in Admitted \union {"idle"}
  PROVE  IInv'
<1>1. /\ pc' \in [Requests -> Steps]
      /\ pc'[r] = step
      /\ \A q \in Requests \ {r} : pc'[q] = pc[q]
      /\ step \in Admitted => InFlight' = InFlight \union {r}
      /\ step \notin Admitted => InFlight' = InFlight \ {r}
  BY GotoInFlight DEF LoadAndGo, IInv
<1>2. trials' \subseteq InFlight'
  BY <1>1 DEF LoadAndGo, IInv, TypeOK, InFlight
<1>3. TypeOK'
  BY <1>1, <1>2 DEF LoadAndGo, IInv, TypeOK
<1>4. PinnedIsCurrent'
  BY <1>1 DEF LoadAndGo, IInv, PinnedIsCurrent, Pinned, KnownAt
<1>5. FailuresCounted' /\ TrialOnlyHalfOpen'
  BY DEF LoadAndGo, IInv, FailuresCounted, TrialOnlyHalfOpen
<1>. QED BY <1>3, <1>4, <1>5 DEF IInv

\* A CompareAndSwap that fails keeps it.
LEMMA RetryKeeps ==
  ASSUME IInv, NEW r \in Requests, NEW step \in Steps \ Swapping, Retry(r, step),
         pc[r] \in Admitted => step \in Admitted
  PROVE  IInv'
<1>1. /\ pc' \in [Requests -> Steps]
      /\ pc'[r] = step
      /\ \A q \in Requests \ {r} : pc'[q] = pc[q]
      /\ InFlight \subseteq InFlight'
  BY GotoInFlight DEF Retry, IInv, InFlight, TypeOK
<1>2. TypeOK'
  BY <1>1 DEF Retry, IInv, TypeOK, history
<1>3. PinnedIsCurrent'
  BY <1>1 DEF Retry, IInv, PinnedIsCurrent, Pinned, KnownAt
<1>4. FailuresCounted' /\ TrialOnlyHalfOpen'
  BY DEF Retry, IInv, FailuresCounted, TrialOnlyHalfOpen
<1>. QED BY <1>2, <1>3, <1>4 DEF IInv

\* A CompareAndSwap that succeeds leaves nobody else pinned, and everyone else
\* where it was.
LEMMA SwapEffect ==
  ASSUME IInv, NEW r \in Requests, NEW next, NEW step \in Steps \ Swapping,
         Swap(r, next, step), pc[r] \in Swapping
  PROVE  /\ seen[r] = circuit /\ KnownAt(pc[r], circuit)
         /\ pc' \in [Requests -> Steps]
         /\ stale' \subseteq Requests
         /\ PinnedIsCurrent'
         /\ step \in Admitted => InFlight' = InFlight \union {r}
         /\ step \notin Admitted => InFlight' = InFlight \ {r}
<1>1. seen[r] = circuit /\ KnownAt(pc[r], circuit)
  BY DEF IInv, PinnedIsCurrent, Swap
<1>2. /\ pc' \in [Requests -> Steps]
      /\ pc'[r] = step
      /\ \A q \in Requests \ {r} : pc'[q] = pc[q]
      /\ step \in Admitted => InFlight' = InFlight \union {r}
      /\ step \notin Admitted => InFlight' = InFlight \ {r}
  BY GotoInFlight DEF Swap, IInv
<1>3. PinnedIsCurrent' /\ stale' \subseteq Requests
  BY <1>2 DEF Swap, PinnedIsCurrent, Pinned
<1>. QED BY <1>1, <1>2, <1>3

----------------------------------------------------------------------------
\* One lemma per CompareAndSwap: it keeps the invariant and is the step of the
\* atomic circuit it stands for.
LEMMA PromoteSwapStep ==
  ASSUME IInv, NEW r \in Requests, pc[r] \in {"scanSwap", "promoteSwap"},
         NEW step \in {"promote", "idle", "admit"}, PromoteSwap(r, step)
  PROVE  IInv' /\ Atomic!Promote
<1>1. /\ step \in Steps \ Swapping /\ step \notin Admitted
      /\ pc[r] \in Swapping /\ pc[r] \notin Admitted
  BY DEF Steps, Swapping, Admitted
<1>2. Swap(r, Atomic!HalfOpen, step)
  BY DEF PromoteSwap
<1>3. /\ KnownAt(pc[r], circuit) /\ pc' \in [Requests -> Steps]
      /\ stale' \subseteq Requests /\ PinnedIsCurrent' /\ InFlight' = InFlight \ {r}
  BY <1>1, <1>2, SwapEffect
<1>4. r \notin InFlight
  BY <1>1 DEF InFlight
<1>5. circuit' = Atomic!HalfOpen /\ seen' = seen /\ removed' = removed
  BY <1>2 DEF Swap
<1>6. TypeOK'
  BY <1>3, <1>5, SnapshotValues DEF PromoteSwap, EndEpisode, IInv, TypeOK
<1>7. FailuresCounted' /\ TrialOnlyHalfOpen'
  BY <1>5, SnapshotValues DEF FailuresCounted, TrialOnlyHalfOpen
<1>8. Atomic!Promote
  BY <1>3, <1>4, <1>5
     DEF Atomic!Promote, Atomic!EndEpisode, KnownAt, PromoteSwap, EndEpisode
<1>. QED BY <1>3, <1>6, <1>7, <1>8 DEF IInv

\* The swap that takes the trial is an admission.
LEMMA TrialSwapStep ==
  ASSUME IInv, NEW r \in Requests, TrialSwap(r)
  PROVE  IInv' /\ (Atomic!AdmitTrial(r) \/ UNCHANGED Atomic!vars)
<1>1. pc[r] = "trialSwap" /\ pc[r] \in Swapping /\ pc[r] \notin Admitted
  BY DEF TrialSwap, Swapping, Admitted
<1>2. CASE Retry(r, "admit")
  <2>1. IInv'
    BY <1>1, <1>2, RetryKeeps DEF Steps, Swapping, Admitted
  <2>2. InFlight' = InFlight
    BY <1>1, <1>2, GotoInFlight DEF Retry, IInv, InFlight, Steps, Admitted, TypeOK
  <2>. QED BY <1>2, <2>1, <2>2 DEF Retry, Atomic!vars, history
<1>3. CASE ~Retry(r, "admit")
  <2> DEFINE next == [seen[r] EXCEPT !.trial = TRUE]
  <2>1. /\ Swap(r, next, "inflight")
        /\ holder' = r
        /\ trials' = trials \union {r}
        /\ UNCHANGED <<cooled, stray, streak>>
    BY <1>3 DEF TrialSwap
  <2>2. "inflight" \in Steps \ Swapping /\ "inflight" \in Admitted
    BY DEF Steps, Swapping, Admitted
  <2>3. /\ seen[r] = circuit /\ KnownAt(pc[r], circuit)
        /\ pc' \in [Requests -> Steps]
        /\ stale' \subseteq Requests /\ PinnedIsCurrent'
        /\ InFlight' = InFlight \union {r}
    BY <1>1, <2>1, <2>2, SwapEffect
  <2>4. circuit \in Atomic!Snapshots /\ circuit.state = "HalfOpen" /\ ~circuit.trial
    BY <1>1, <2>3 DEF KnownAt, IInv, TypeOK
  <2>5. /\ circuit' = [circuit EXCEPT !.trial = TRUE] /\ seen' = seen
        /\ removed' = removed
    BY <2>1, <2>3 DEF Swap
  <2>6. circuit' \in Atomic!Snapshots /\ circuit'.state = "HalfOpen"
    BY <2>4, <2>5, SetTrial
  <2>7. TypeOK'
    BY <2>1, <2>3, <2>5, <2>6 DEF IInv, TypeOK
  <2>8. FailuresCounted' /\ TrialOnlyHalfOpen'
    BY <2>6 DEF FailuresCounted, TrialOnlyHalfOpen
  <2>9. r \notin InFlight
    BY <1>1 DEF InFlight
  <2>10. Atomic!AdmitTrial(r)
    BY <2>1, <2>3, <2>4, <2>5, <2>9 DEF Atomic!AdmitTrial
  <2>. QED BY <2>3, <2>7, <2>8, <2>10 DEF IInv
<1>. QED BY <1>2, <1>3

\* The swap of a success is Succeed.
LEMMA SuccessSwapStep ==
  ASSUME IInv, NEW r \in Requests, SuccessSwap(r)
  PROVE  IInv' /\ (Atomic!Succeed(r) \/ UNCHANGED Atomic!vars)
<1>1. pc[r] = "succeedSwap" /\ pc[r] \in Swapping /\ pc[r] \in Admitted
  BY DEF SuccessSwap, Swapping, Admitted
<1>2. CASE Retry(r, "succeed")
  <2>1. IInv'
    BY <1>1, <1>2, RetryKeeps DEF Steps, Swapping, Admitted
  <2>2. InFlight' = InFlight
    BY <1>1, <1>2, GotoInFlight DEF Retry, IInv, InFlight, Steps, Admitted, TypeOK
  <2>. QED BY <1>2, <2>1, <2>2 DEF Retry, Atomic!vars, history
<1>3. CASE ~Retry(r, "succeed")
  <2>1. /\ Swap(r, Atomic!Closed(0), "idle")
        /\ EndEpisode /\ streak' = 0 /\ cooled' = cooled
    BY <1>3 DEF SuccessSwap
  <2>2. "idle" \in Steps \ Swapping /\ "idle" \notin Admitted
    BY DEF Steps, Swapping, Admitted
  <2>3. /\ KnownAt(pc[r], circuit) /\ pc' \in [Requests -> Steps]
        /\ stale' \subseteq Requests /\ PinnedIsCurrent' /\ InFlight' = InFlight \ {r}
    BY <1>1, <2>1, <2>2, SwapEffect
  <2>4. circuit' = Atomic!Closed(0) /\ seen' = seen /\ removed' = removed
    BY <2>1 DEF Swap
  <2>5. TypeOK'
    BY <2>1, <2>3, <2>4, SnapshotValues, NoFailures DEF EndEpisode, IInv, TypeOK
  <2>6. FailuresCounted' /\ TrialOnlyHalfOpen'
    BY <2>1, <2>4, SnapshotValues DEF FailuresCounted, TrialOnlyHalfOpen
  <2>7. r \in InFlight /\ circuit.state # "Open"
    BY <1>1, <2>3 DEF InFlight, KnownAt
  <2>8. Atomic!Succeed(r)
    BY <2>1, <2>3, <2>4, <2>7 DEF Atomic!Succeed, Atomic!EndEpisode, EndEpisode
  <2>. QED BY <2>3, <2>5, <2>6, <2>8 DEF IInv
<1>. QED BY <1>2, <1>3

\* The swap of a failure is Fail.
LEMMA FailureSwapStep ==
  ASSUME IInv, NEW r \in Requests, FailureSwap(r)
  PROVE  IInv' /\ (Atomic!Fail(r) \/ UNCHANGED Atomic!vars)
<1>1. pc[r] = "failSwap" /\ pc[r] \in Swapping /\ pc[r] \in Admitted
  BY DEF FailureSwap, Swapping, Admitted
<1>2. CASE Retry(r, "fail")
  <2>1. IInv'
    BY <1>1, <1>2, RetryKeeps DEF Steps, Swapping, Admitted
  <2>2. InFlight' = InFlight
    BY <1>1, <1>2, GotoInFlight DEF Retry, IInv, InFlight, Steps, Admitted, TypeOK
  <2>. QED BY <1>2, <2>1, <2>2 DEF Retry, Atomic!vars, history
<1>3. CASE ~Retry(r, "fail")
  <2>1. /\ Swap(r, Atomic!AfterFailure(seen[r]), "idle")
        /\ cooled' = FALSE /\ EndEpisode
        /\ streak' = IF circuit'.state = "Open" THEN 0 ELSE streak + 1
    BY <1>3 DEF FailureSwap
  <2>2. "idle" \in Steps \ Swapping /\ "idle" \notin Admitted
    BY DEF Steps, Swapping, Admitted
  <2>3. /\ seen[r] = circuit /\ KnownAt(pc[r], circuit)
        /\ pc' \in [Requests -> Steps]
        /\ stale' \subseteq Requests /\ PinnedIsCurrent' /\ InFlight' = InFlight \ {r}
    BY <1>1, <2>1, <2>2, SwapEffect
  <2>4. circuit' = Atomic!AfterFailure(circuit) /\ seen' = seen /\ removed' = removed
    BY <2>1, <2>3 DEF Swap
  <2>5. circuit \in Atomic!Snapshots
    BY DEF IInv, TypeOK
  <2>6. r \in InFlight /\ circuit.state # "Open"
    BY <1>1, <2>3 DEF InFlight, KnownAt
  <2>7. /\ circuit' \in Atomic!Snapshots /\ ~circuit'.trial
        /\ circuit'.state \in {"Open", "Closed"}
        /\ circuit'.state = "Closed"
             => circuit.state # "HalfOpen" /\ circuit'.failures = circuit.failures + 1
    BY <2>4, <2>5, AfterFailureValue
  \* Only a closed circuit counts, and there the count is the streak.
  <2>8. streak' \in 0..(Threshold - 1) /\ FailuresCounted'
    <3>1. CASE circuit'.state = "Open"
      BY <2>1, <3>1, NoFailures DEF FailuresCounted
    <3>2. CASE circuit'.state = "Closed"
      <4>1. circuit.state = "Closed"
        BY <2>5, <2>6, <2>7, <3>2 DEF Atomic!Snapshots, Atomic!States
      <4>2. circuit.failures = streak
        BY <4>1 DEF IInv, FailuresCounted
      <4>3. streak' = streak + 1
        BY <2>1, <3>2
      <4>4. circuit'.failures = streak' /\ circuit'.failures \in 0..(Threshold - 1)
        BY <2>7, <3>2, <4>2, <4>3 DEF Atomic!Snapshots
      <4>. QED BY <4>4 DEF FailuresCounted
    <3>. QED BY <2>7, <3>1, <3>2
  <2>9. TypeOK' /\ TrialOnlyHalfOpen'
    BY <2>1, <2>3, <2>4, <2>7, <2>8 DEF EndEpisode, IInv, TypeOK, TrialOnlyHalfOpen
  <2>10. Atomic!Fail(r)
    BY <2>1, <2>3, <2>4, <2>6 DEF Atomic!Fail, Atomic!EndEpisode, EndEpisode
  <2>. QED BY <2>3, <2>8, <2>9, <2>10 DEF IInv
<1>. QED BY <1>2, <1>3

\* The swap that frees the trial is Abandon.
LEMMA RearmSwapStep ==
  ASSUME IInv, NEW r \in Requests, RearmSwap(r)
  PROVE  IInv' /\ (Atomic!Abandon(r) \/ UNCHANGED Atomic!vars)
<1>1. pc[r] = "rearmSwap" /\ pc[r] \in Swapping /\ pc[r] \in Admitted
  BY DEF RearmSwap, Swapping, Admitted
<1>2. CASE Retry(r, "rearm")
  <2>1. IInv'
    BY <1>1, <1>2, RetryKeeps DEF Steps, Swapping, Admitted
  <2>2. InFlight' = InFlight
    BY <1>1, <1>2, GotoInFlight DEF Retry, IInv, InFlight, Steps, Admitted, TypeOK
  <2>. QED BY <1>2, <2>1, <2>2 DEF Retry, Atomic!vars, history
<1>3. CASE ~Retry(r, "rearm")
  <2> DEFINE next == [seen[r] EXCEPT !.trial = FALSE]
  <2>1. /\ Swap(r, next, "idle")
        /\ trials' = trials \ {r}
        /\ stray' = (stray \/ holder # r)
        /\ holder' = NoRequest
        /\ UNCHANGED <<cooled, streak>>
    BY <1>3 DEF RearmSwap
  <2>2. "idle" \in Steps \ Swapping /\ "idle" \notin Admitted
    BY DEF Steps, Swapping, Admitted
  <2>3. /\ seen[r] = circuit /\ KnownAt(pc[r], circuit)
        /\ pc' \in [Requests -> Steps]
        /\ stale' \subseteq Requests /\ PinnedIsCurrent' /\ InFlight' = InFlight \ {r}
    BY <1>1, <2>1, <2>2, SwapEffect
  <2>4. circuit \in Atomic!Snapshots /\ circuit.state = "HalfOpen" /\ circuit.trial
    BY <1>1, <2>3 DEF KnownAt, IInv, TypeOK
  <2>5. /\ circuit' = [circuit EXCEPT !.trial = FALSE] /\ seen' = seen
        /\ removed' = removed
    BY <2>1, <2>3 DEF Swap
  <2>6. circuit' \in Atomic!Snapshots /\ circuit'.state = "HalfOpen"
    BY <2>4, <2>5, SetTrial
  <2>7. TypeOK'
    BY <2>1, <2>3, <2>5, <2>6 DEF IInv, TypeOK
  <2>8. FailuresCounted' /\ TrialOnlyHalfOpen'
    BY <2>6 DEF FailuresCounted, TrialOnlyHalfOpen
  <2>9. r \in InFlight
    BY <1>1 DEF InFlight
  <2>10. Atomic!Abandon(r)
    BY <2>1, <2>3, <2>4, <2>5, <2>9 DEF Atomic!Abandon
  <2>. QED BY <2>3, <2>7, <2>8, <2>10 DEF IInv
<1>. QED BY <1>2, <1>3

----------------------------------------------------------------------------
\* The steps that change no snapshot are steps of the atomic circuit too: an
\* admission while closed, an outcome that is ignored, or nothing.
LEMMA LoadForIsStutter ==
  ASSUME IInv, NEW r \in Requests, NEW step \in Swapping, LoadFor(r, step),
         pc[r] \in Admitted <=> step \in Admitted
  PROVE  UNCHANGED Atomic!vars
<1>1. step \in Steps
  BY DEF Steps
<1>2. InFlight' = InFlight
  BY <1>1, GotoInFlight DEF LoadFor, IInv, InFlight, TypeOK
<1>. QED BY <1>2 DEF LoadFor, Atomic!vars, history

\* A load that goes on to a swap changes nothing of the atomic circuit.
LEMMA LoadAndGoIsStutter ==
  ASSUME IInv, NEW r \in Requests, NEW step \in Steps, LoadAndGo(r, step),
         pc[r] \in Admitted <=> step \in Admitted
  PROVE  UNCHANGED Atomic!vars
<1>1. InFlight' = InFlight
  BY GotoInFlight DEF LoadAndGo, IInv, InFlight, TypeOK
<1>2. trials' = trials
  <2>1. CASE step = "idle"
    BY <2>1 DEF LoadAndGo, IInv, TypeOK, InFlight, Admitted
  <2>2. CASE step # "idle"
    BY <2>2 DEF LoadAndGo
  <2>. QED BY <2>1, <2>2
<1>. QED BY <1>1, <1>2 DEF LoadAndGo, Atomic!vars

\* A load that ends the loop is the end of the request.
LEMMA LoadAndGoIsLeave ==
  ASSUME IInv, NEW r \in Requests, LoadAndGo(r, "idle")
  PROVE  Atomic!Leave(r)
<1>1. "idle" \in Steps /\ "idle" \notin Admitted
  BY DEF Steps, Admitted
<1>2. InFlight' = InFlight \ {r}
  BY <1>1, GotoInFlight DEF LoadAndGo, IInv
<1>. QED BY <1>2 DEF LoadAndGo, Atomic!Leave, Atomic!snapshot

\* Every step of a request maps to a step or a stutter.
LEMMA RequestStep ==
  ASSUME IInv, NEW r \in Requests, Request(r)
  PROVE  IInv' /\ [Atomic!Next]_(Atomic!vars)
<1> USE DEF Admitted, Swapping, Steps
<1>1. CASE Arrive(r)
  <2>1. /\ pc[r] = "idle" /\ Goto(r, "scan")
        /\ UNCHANGED <<circuit, cooled, removed, history, seen, stale, streak>>
    BY <1>1 DEF Arrive
  <2>2. /\ pc' \in [Requests -> Steps] /\ pc'[r] = "scan"
        /\ \A q \in Requests \ {r} : pc'[q] = pc[q]
        /\ InFlight' = InFlight
    BY <2>1, GotoInFlight DEF IInv, InFlight
  <2>3. TypeOK'
    BY <2>1, <2>2 DEF IInv, TypeOK, history
  <2>4. PinnedIsCurrent'
    BY <2>1, <2>2 DEF IInv, PinnedIsCurrent, Pinned, KnownAt
  <2>5. FailuresCounted' /\ TrialOnlyHalfOpen'
    BY <2>1 DEF IInv, FailuresCounted, TrialOnlyHalfOpen
  <2>. QED BY <2>1, <2>2, <2>3, <2>4, <2>5 DEF IInv, Atomic!vars, history
<1>2. CASE Scan(r)
  <2>1. CASE NeedsPromotion /\ LoadFor(r, "scanSwap")
    BY <1>2, <2>1, LoadForKeeps, LoadForIsStutter
       DEF Scan, NeedsPromotion, KnownAt
  <2>2. ASSUME NEW step \in {"promote", "idle"}, LoadAndGo(r, step)
        PROVE  IInv' /\ UNCHANGED Atomic!vars
    BY <1>2, <2>2, LoadAndGoKeeps, LoadAndGoIsStutter DEF Scan
  <2>. QED BY <1>2, <2>1, <2>2 DEF Scan
<1>3. CASE ScanSwap(r)
  <2>1. ASSUME NEW step \in {"promote", "idle"}, PromoteSwap(r, step)
        PROVE  IInv' /\ Atomic!Promote
    BY <1>3, <2>1, PromoteSwapStep DEF ScanSwap
  <2>2. CASE Retry(r, "scan")
    <3>1. IInv'
      BY <1>3, <2>2, RetryKeeps DEF ScanSwap
    <3>2. InFlight' = InFlight
      BY <1>3, <2>2, GotoInFlight DEF ScanSwap, Retry, IInv, InFlight
    <3>. QED BY <2>2, <3>1, <3>2 DEF Retry, Atomic!vars, history
  <2>. QED BY <1>3, <2>1, <2>2 DEF ScanSwap, Atomic!Next
<1>4. CASE AllowPromote(r)
  <2>1. CASE NeedsPromotion /\ LoadFor(r, "promoteSwap")
    BY <1>4, <2>1, LoadForKeeps, LoadForIsStutter
       DEF AllowPromote, NeedsPromotion, KnownAt
  <2>2. CASE LoadAndGo(r, "admit")
    BY <1>4, <2>2, LoadAndGoKeeps, LoadAndGoIsStutter DEF AllowPromote
  <2>. QED BY <1>4, <2>1, <2>2 DEF AllowPromote
<1>5. CASE AllowPromoteSwap(r)
  <2>1. CASE PromoteSwap(r, "admit")
    BY <1>5, <2>1, PromoteSwapStep DEF AllowPromoteSwap, Atomic!Next
  <2>2. CASE Retry(r, "promote")
    <3>1. IInv'
      BY <1>5, <2>2, RetryKeeps DEF AllowPromoteSwap
    <3>2. InFlight' = InFlight
      BY <1>5, <2>2, GotoInFlight DEF AllowPromoteSwap, Retry, IInv, InFlight
    <3>. QED BY <2>2, <3>1, <3>2 DEF Retry, Atomic!vars, history
  <2>. QED BY <1>5, <2>1, <2>2 DEF AllowPromoteSwap
<1>6. CASE AllowAdmit(r)
  <2>1. CASE circuit.state = "Closed" /\ LoadAndGo(r, "inflight")
    <3>1. IInv'
      BY <1>6, <2>1, LoadAndGoKeeps DEF AllowAdmit
    <3>2. r \notin InFlight /\ InFlight' = InFlight \union {r}
      BY <1>6, <2>1, GotoInFlight DEF AllowAdmit, LoadAndGo, InFlight, IInv
    <3>3. Atomic!AdmitClosed(r)
      BY <2>1, <3>2 DEF LoadAndGo, Atomic!AdmitClosed, Atomic!snapshot, Atomic!history
    <3>. QED BY <3>1, <3>3 DEF Atomic!Next
  <2>2. CASE LoadAndGo(r, "idle")
    BY <1>6, <2>2, LoadAndGoKeeps, LoadAndGoIsStutter DEF AllowAdmit
  <2>3. CASE circuit.state = "HalfOpen" /\ ~circuit.trial /\ LoadFor(r, "trialSwap")
    BY <1>6, <2>3, LoadForKeeps, LoadForIsStutter DEF AllowAdmit, KnownAt
  <2>. QED BY <1>6, <2>1, <2>2, <2>3 DEF AllowAdmit
<1>7. CASE TrialSwap(r)
  BY <1>7, TrialSwapStep DEF Atomic!Next
<1>8. CASE RoundTrip(r)
  <2>1. ASSUME NEW step \in {"succeed", "fail", "rearm"}, LoadAndGo(r, step)
        PROVE  IInv' /\ UNCHANGED Atomic!vars
    BY <1>8, <2>1, LoadAndGoKeeps, LoadAndGoIsStutter DEF RoundTrip
  <2>2. CASE removed /\ LoadAndGo(r, "idle")
    <3>1. IInv'
      BY <1>8, <2>2, LoadAndGoKeeps DEF RoundTrip
    <3>2. Atomic!Suppressed(r)
      BY <1>8, <2>2, LoadAndGoIsLeave DEF RoundTrip, InFlight, Atomic!Suppressed
    <3>. QED BY <3>1, <3>2 DEF Atomic!Next, Atomic!Finish
  <2>. QED BY <1>8, <2>1, <2>2 DEF RoundTrip
<1>9. CASE Success(r)
  <2>1. CASE circuit.state = "Open" /\ LoadAndGo(r, "idle")
    <3>1. IInv'
      BY <1>9, <2>1, LoadAndGoKeeps DEF Success
    <3>2. Atomic!Succeed(r)
      BY <1>9, <2>1, LoadAndGoIsLeave DEF Success, InFlight, Atomic!Succeed
    <3>. QED BY <3>1, <3>2 DEF Atomic!Next, Atomic!Finish
  <2>2. CASE circuit.state # "Open" /\ LoadFor(r, "succeedSwap")
    BY <1>9, <2>2, LoadForKeeps, LoadForIsStutter DEF Success, KnownAt
  <2>. QED BY <1>9, <2>1, <2>2 DEF Success
<1>10. CASE SuccessSwap(r)
  BY <1>10, SuccessSwapStep DEF Atomic!Next, Atomic!Finish
<1>11. CASE Failure(r)
  <2>1. CASE circuit.state = "Open" /\ LoadAndGo(r, "idle")
    <3>1. IInv'
      BY <1>11, <2>1, LoadAndGoKeeps DEF Failure
    <3>2. Atomic!Fail(r)
      BY <1>11, <2>1, LoadAndGoIsLeave DEF Failure, InFlight, Atomic!Fail
    <3>. QED BY <3>1, <3>2 DEF Atomic!Next, Atomic!Finish
  <2>2. CASE circuit.state # "Open" /\ LoadFor(r, "failSwap")
    BY <1>11, <2>2, LoadForKeeps, LoadForIsStutter DEF Failure, KnownAt
  <2>. QED BY <1>11, <2>1, <2>2 DEF Failure
<1>12. CASE FailureSwap(r)
  BY <1>12, FailureSwapStep DEF Atomic!Next, Atomic!Finish
<1>13. CASE Rearm(r)
  <2>1. CASE ~(circuit.state = "HalfOpen" /\ circuit.trial) /\ LoadAndGo(r, "idle")
    <3>1. IInv'
      BY <1>13, <2>1, LoadAndGoKeeps DEF Rearm
    <3>2. ~circuit.trial
      BY <2>1 DEF IInv, TrialOnlyHalfOpen
    <3>3. Atomic!Abandon(r)
      BY <1>13, <2>1, <3>2, LoadAndGoIsLeave DEF Rearm, InFlight, Atomic!Abandon
    <3>. QED BY <3>1, <3>3 DEF Atomic!Next, Atomic!Finish
  <2>2. CASE circuit.state = "HalfOpen" /\ circuit.trial /\ LoadFor(r, "rearmSwap")
    BY <1>13, <2>2, LoadForKeeps, LoadForIsStutter DEF Rearm, KnownAt
  <2>. QED BY <1>13, <2>1, <2>2 DEF Rearm
<1>14. CASE RearmSwap(r)
  BY <1>14, RearmSwapStep DEF Atomic!Next, Atomic!Finish
<1>15. CASE Upload(r)
  BY <1>15, LoadAndGoKeeps, LoadAndGoIsStutter DEF Upload
<1>. QED
  BY <1>1, <1>2, <1>3, <1>4, <1>5, <1>6, <1>7, <1>8, <1>9, <1>10, <1>11,
     <1>12, <1>13, <1>14, <1>15 DEF Request, Outcome

\* So does every step.
LEMMA NextStep ==
  ASSUME IInv, [Next]_vars
  PROVE  IInv' /\ [Atomic!Next]_(Atomic!vars)
<1>1. CASE Cooldown
  <2>1. IInv'
    BY <1>1 DEF Cooldown, IInv, TypeOK, PinnedIsCurrent, Pinned, KnownAt,
                FailuresCounted, TrialOnlyHalfOpen, InFlight, history
  <2>2. Atomic!Cooldown
    BY <1>1 DEF Cooldown, Atomic!Cooldown, Atomic!history, InFlight, history
  <2>. QED BY <2>1, <2>2 DEF Atomic!Next
<1>2. CASE Remove
  <2>1. IInv'
    BY <1>2 DEF Remove, IInv, TypeOK, PinnedIsCurrent, Pinned, KnownAt,
                FailuresCounted, TrialOnlyHalfOpen, InFlight, history
  <2>2. Atomic!Remove
    BY <1>2 DEF Remove, Atomic!Remove, Atomic!history, Atomic!snapshot, InFlight,
                history
  <2>. QED BY <2>1, <2>2 DEF Atomic!Next
<1>3. ASSUME NEW r \in Requests, Request(r)
      PROVE  IInv' /\ [Atomic!Next]_(Atomic!vars)
  BY <1>3, RequestStep
<1>4. CASE UNCHANGED vars
  BY <1>4 DEF vars, IInv, TypeOK, PinnedIsCurrent, Pinned, KnownAt,
              FailuresCounted, TrialOnlyHalfOpen, InFlight, Atomic!vars
<1>. QED BY <1>1, <1>2, <1>3, <1>4 DEF Next

\* Initial states map to initial states.
LEMMA InitStep == Init => IInv /\ Atomic!Init
<1> SUFFICES ASSUME Init PROVE IInv /\ Atomic!Init
  OBVIOUS
<1>1. InFlight = {}
  BY DEF Init, InFlight, Admitted
<1>2. TypeOK
  BY <1>1, SnapshotValues, NoFailures DEF Init, TypeOK, Steps
<1>3. PinnedIsCurrent
  BY DEF Init, PinnedIsCurrent, Swapping
<1>4. FailuresCounted /\ TrialOnlyHalfOpen
  BY SnapshotValues DEF Init, FailuresCounted, TrialOnlyHalfOpen
<1>5. Atomic!Init
  BY <1>1 DEF Init, Atomic!Init
<1>. QED BY <1>2, <1>3, <1>4, <1>5 DEF IInv

----------------------------------------------------------------------------
\* The invariant the loops keep: among its parts, a goroutine whose pointer is
\* still current holds the current snapshot (every CompareAndSwap in backend.go).
THEOREM Inductive == Spec => []IInv
  BY InitStep, NextStep, PTL DEF Spec

\* No failure is lost or counted twice (CircuitFailure's loop, backend.go:422).
THEOREM CountsExact == Spec => []FailuresCounted
<1>1. IInv => FailuresCounted
  BY DEF IInv
<1>. QED BY <1>1, Inductive, PTL

\* Every behaviour of the loops is a behaviour of the atomic circuit: each
\* method of the circuit takes effect at one instant (ADR-0011 decision 6).
THEOREM LoopsImplementCircuit == Spec => ImplementsCircuit
<1>1. Init => Atomic!Init
  BY InitStep
<1>2. IInv /\ [Next]_vars => [Atomic!Next]_(Atomic!vars)
  BY NextStep
<1>. QED BY <1>1, <1>2, Inductive, PTL DEF Spec, ImplementsCircuit, Atomic!Spec
============================================================================
