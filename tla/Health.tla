------------------------------- MODULE Health -------------------------------
(***************************************************************************)
(* The health of one backend: its prober (internal/health/checker.go), the *)
(* outlier detector that judges its live traffic (internal/health/         *)
(* outlier.go), the reload that removes it, and the two things they write, *)
(* the health flag the selectors read and the lb_backend_healthy gauge.    *)
(*                                                                         *)
(* The detector holds its mutex for a whole observation, the prober holds  *)
(* nothing: its reading of the flag, its write of the gauge and its write  *)
(* of the flag are steps of their own.                                     *)
(***************************************************************************)
EXTENDS Integers, Sequences, FiniteSets

CONSTANTS ProbeFailures,    \* probeFailuresBeforeUnhealthy
          ProbeSuccesses,   \* probeSuccessesBeforeHealthy
          WindowSize,       \* outlierWindowSize
          EjectAfter        \* outlierFailuresBeforeEject

ASSUME ThresholdsAssumption ==
  /\ ProbeFailures \in Nat \ {0} /\ ProbeSuccesses \in Nat \ {0}
  /\ WindowSize \in Nat \ {0} /\ EjectAfter \in 1..WindowSize

VARIABLES
  up,          \* the backend answers its probes with a 2xx
  healthy,     \* Backend.healthy
  gauge,       \* lb_backend_healthy: "up", "down", or "none" when deleted
  prober,      \* the step of the prober goroutine
  successes, failures,  \* its consecutive outcomes, counted as far as compared
  added,       \* it probes a backend a reload added and has not admitted yet
  cancelled,   \* its context is cancelled
  window,      \* the outlier window
  observer,    \* the step of the request holding the detector's mutex
  reload       \* how far a reload has removed the backend

\* History.
VARIABLES
  recent,      \* the last WindowSize outcomes since the window was emptied
  reinstated,  \* a probe has reinstated it since the detector last ejected it
  evidence     \* failures observed since then

probing == <<prober, successes, failures, added>>
history == <<recent, reinstated, evidence>>
vars == <<up, healthy, gauge, probing, cancelled, window, observer, reload, history>>

Least(m, n) == IF m < n THEN m ELSE n

Slots == 0..(WindowSize - 1)

EmptyWindow == [outcomes |-> [s \in Slots |-> FALSE], next |-> 0, filled |-> 0,
                failures |-> 0, ejected |-> FALSE]

\* A backend of the startup config starts healthy, an added one does not.
Init ==
  /\ up \in BOOLEAN
  /\ added \in BOOLEAN
  /\ healthy = ~added
  /\ gauge = IF added THEN "down" ELSE "up"
  /\ prober = IF added THEN "probe" ELSE "wait"
  /\ successes = 0 /\ failures = 0
  /\ cancelled = FALSE
  /\ window = EmptyWindow
  /\ observer = "free"
  /\ reload = "serving"
  /\ recent = <<>>
  /\ reinstated = TRUE
  /\ evidence = 0

\* The backend fails or recovers.
Flip ==
  /\ up' = ~up
  /\ UNCHANGED <<healthy, gauge, probing, cancelled, window, observer, reload, history>>

----------------------------------------------------------------------------
(* The prober.                                                             *)

ProberKeeps == UNCHANGED <<up, cancelled, window, observer, reload>>

\* The select of run(): the ticker, or the cancelled context.
Tick ==
  /\ prober = "wait"
  /\ prober' = "probe"
  /\ ProberKeeps /\ UNCHANGED <<healthy, gauge, successes, failures, added, history>>

Exit ==
  /\ prober = "wait" /\ cancelled
  /\ prober' = "exited"
  /\ ProberKeeps /\ UNCHANGED <<healthy, gauge, successes, failures, added, history>>

\* The probe of a prober that is being removed is not counted.
ProbeDropped ==
  /\ prober = "probe" /\ cancelled
  /\ prober' = "wait"
  /\ ProberKeeps /\ UNCHANGED <<healthy, gauge, successes, failures, added, history>>

Needed == IF added THEN 1 ELSE ProbeSuccesses

\* Mutation: the success gate is an equality, true on one probe of a streak.
ProbeSucceedsOnce ==
  /\ prober = "probe" /\ ~cancelled /\ up
  /\ failures' = 0
  /\ successes' = Least(successes + 1, ProbeSuccesses)
  /\ prober' = IF successes' < Needed \/ successes >= Needed THEN "wait"
               ELSE IF healthy THEN "markUp" ELSE "gaugeUp"
  /\ ProberKeeps /\ UNCHANGED <<healthy, gauge, added, history>>

\* probeOnce up to its reading of the health flag.
ProbeSucceeds ==
  /\ prober = "probe" /\ ~cancelled /\ up
  /\ failures' = 0
  /\ successes' = Least(successes + 1, ProbeSuccesses)
  /\ prober' = IF successes' < Needed THEN "wait" ELSE IF healthy THEN "markUp" ELSE "gaugeUp"
  /\ ProberKeeps /\ UNCHANGED <<healthy, gauge, added, history>>

\* Mutation: a failed probe is not counted.
ProbeFailsUncounted ==
  /\ prober = "probe" /\ ~cancelled /\ ~up
  /\ successes' = 0
  /\ prober' = IF failures < ProbeFailures THEN "wait" ELSE "markDown"
  /\ ProberKeeps /\ UNCHANGED <<healthy, gauge, failures, added, history>>

\* Mutation: the gauge is written one probe after the flag.
ProbeFailsGaugeLate ==
  /\ prober = "probe" /\ ~cancelled /\ ~up
  /\ successes' = 0
  /\ failures' = Least(failures + 1, ProbeFailures + 1)
  /\ prober' = IF failures' < ProbeFailures THEN "wait"
               ELSE IF failures' > ProbeFailures /\ healthy THEN "gaugeDown" ELSE "markDown"
  /\ ProberKeeps /\ UNCHANGED <<healthy, gauge, added, history>>

ProbeFails ==
  /\ prober = "probe" /\ ~cancelled /\ ~up
  /\ successes' = 0
  /\ failures' = Least(failures + 1, ProbeFailures + 1)
  /\ prober' = IF failures' < ProbeFailures THEN "wait"
               ELSE IF failures' = ProbeFailures /\ healthy THEN "gaugeDown" ELSE "markDown"
  /\ ProberKeeps /\ UNCHANGED <<healthy, gauge, added, history>>

GaugeUp ==
  /\ prober = "gaugeUp"
  /\ gauge' = "up"
  /\ prober' = "markUp"
  /\ ProberKeeps /\ UNCHANGED <<healthy, successes, failures, added, history>>

\* MarkHealthy. Admission is consumed by the first success.
MarkUp ==
  /\ prober = "markUp"
  /\ healthy' = TRUE
  /\ added' = FALSE
  /\ successes' = IF added THEN 0 ELSE successes
  /\ prober' = "wait"
  /\ reinstated' = (reinstated \/ ~healthy)
  /\ ProberKeeps /\ UNCHANGED <<gauge, failures, recent, evidence>>

GaugeDown ==
  /\ prober = "gaugeDown"
  /\ gauge' = "down"
  /\ prober' = "markDown"
  /\ ProberKeeps /\ UNCHANGED <<healthy, successes, failures, added, history>>

MarkDown ==
  /\ prober = "markDown"
  /\ healthy' = FALSE
  /\ prober' = "wait"
  /\ ProberKeeps /\ UNCHANGED <<gauge, successes, failures, added, history>>

Prober ==
  \/ Tick \/ Exit \/ ProbeDropped \/ ProbeSucceeds \/ ProbeFails
  \/ GaugeUp \/ MarkUp \/ GaugeDown \/ MarkDown

----------------------------------------------------------------------------
(* The outlier detector. A request that looked at IsRemoved in time may    *)
(* still observe after the reload is done, so no step is guarded by it.    *)

ObserverKeeps == UNCHANGED <<up, probing, cancelled, reload>>

\* Mutation: an overwritten failure stays counted.
FoldKeepsCount(w, success) ==
  [w EXCEPT !.outcomes[w.next] = success,
            !.next = (w.next + 1) % WindowSize,
            !.filled = Least(w.filled + 1, WindowSize),
            !.failures = Least(@ + (IF success THEN 0 ELSE 1), WindowSize)]

\* outlierWindow.observe: the ring forgets the outcome it overwrites.
Fold(w, success) ==
  LET overwritten == w.filled = WindowSize /\ ~w.outcomes[w.next]
  IN [w EXCEPT !.outcomes[w.next] = success,
               !.next = (w.next + 1) % WindowSize,
               !.filled = Least(w.filled + 1, WindowSize),
               !.failures = @ - (IF overwritten THEN 1 ELSE 0) + (IF success THEN 0 ELSE 1)]

Latest(s) == IF Len(s) > WindowSize THEN Tail(s) ELSE s

\* Mutation: a reinstatement clears the episode and not the window.
ObserveKeepsBurst(success) ==
  /\ observer = "free" /\ ~added
  /\ LET restart == window.ejected /\ healthy
         folded  == Fold([window EXCEPT !.ejected = @ /\ ~restart], success)
         ejects  == ~success /\ ~folded.ejected /\ folded.failures >= EjectAfter
     IN /\ window' = [folded EXCEPT !.ejected = @ \/ ejects]
        /\ observer' = IF ejects THEN "mark" ELSE "free"
        /\ recent' = Latest(Append(recent, success))
        /\ reinstated' = (reinstated /\ ~ejects)
        /\ evidence' = IF ejects \/ ~reinstated THEN 0
                       ELSE Least(evidence + (IF success THEN 0 ELSE 1), EjectAfter)
  /\ ObserverKeeps /\ UNCHANGED <<healthy, gauge>>

\* ObserveRoundTrip up to the ejection: an ejected backend that reads healthy
\* was reinstated by a probe and starts a fresh window. A backend that has never
\* been admitted has had no request.
Observe(success) ==
  /\ observer = "free" /\ ~added
  /\ LET restart == window.ejected /\ healthy
         folded  == Fold(IF restart THEN EmptyWindow ELSE window, success)
         ejects  == ~success /\ ~folded.ejected /\ folded.failures >= EjectAfter
     IN /\ window' = [folded EXCEPT !.ejected = @ \/ ejects]
        /\ observer' = IF ejects THEN "mark" ELSE "free"
        /\ recent' = Latest(Append(IF restart THEN <<>> ELSE recent, success))
        /\ reinstated' = (reinstated /\ ~ejects)
        /\ evidence' = IF ejects \/ ~reinstated THEN 0
                       ELSE Least(evidence + (IF success THEN 0 ELSE 1), EjectAfter)
  /\ ObserverKeeps /\ UNCHANGED <<healthy, gauge>>

EjectMark ==
  /\ observer = "mark"
  /\ healthy' = FALSE
  /\ observer' = "gauge"
  /\ ObserverKeeps /\ UNCHANGED <<gauge, window, history>>

EjectGauge ==
  /\ observer = "gauge"
  /\ gauge' = "down"
  /\ observer' = "free"
  /\ ObserverKeeps /\ UNCHANGED <<healthy, window, history>>

Observer == EjectMark \/ EjectGauge \/ \E success \in BOOLEAN : Observe(success)

----------------------------------------------------------------------------
(* The reload that removes the backend.                                    *)

ReloadKeeps == UNCHANGED <<up, healthy, probing, observer>>

\* Mutation: the prober's context is not cancelled.
RemoveOnlyWaits ==
  /\ reload = "serving"
  /\ reload' = "wait"
  /\ ReloadKeeps /\ UNCHANGED <<gauge, cancelled, window, history>>

\* Checker.Remove: cancel, then wait for the goroutine to exit.
RemoveCancels ==
  /\ reload = "serving"
  /\ cancelled' = TRUE
  /\ reload' = "wait"
  /\ ReloadKeeps /\ UNCHANGED <<gauge, window, history>>

\* Mutation: Remove cancels and does not wait.
RemoveReturnsAtOnce ==
  /\ reload = "wait"
  /\ reload' = "forget"
  /\ ReloadKeeps /\ UNCHANGED <<gauge, cancelled, window, history>>

RemoveReturns ==
  /\ reload = "wait" /\ prober = "exited"
  /\ reload' = "forget"
  /\ ReloadKeeps /\ UNCHANGED <<gauge, cancelled, window, history>>

\* OutlierDetector.Forget, under the mutex. The next observation would find no
\* window and make an empty one.
Forget ==
  /\ reload = "forget" /\ observer = "free"
  /\ window' = EmptyWindow
  /\ recent' = <<>> /\ reinstated' = TRUE /\ evidence' = 0
  /\ reload' = "delete"
  /\ ReloadKeeps /\ UNCHANGED <<gauge, cancelled>>

DeleteSeries ==
  /\ reload = "delete"
  /\ gauge' = "none"
  /\ reload' = "done"
  /\ ReloadKeeps /\ UNCHANGED <<cancelled, window, history>>

Reload == RemoveCancels \/ RemoveReturns \/ Forget \/ DeleteSeries

----------------------------------------------------------------------------
Next == Flip \/ Prober \/ Observer \/ Reload

Spec == Init /\ [][Next]_vars

\* The ticker fires, a probe ends (its client has a timeout), goroutines that
\* can run do, and a select whose two cases are both ready again and again
\* takes each. Nothing is assumed of requests, of the backend or of reloads.
Fairness ==
  /\ WF_vars(Prober) /\ SF_vars(Exit)
  /\ WF_vars(EjectMark) /\ WF_vars(EjectGauge)
  /\ WF_vars(RemoveReturns)

FairSpec == Spec /\ Fairness

----------------------------------------------------------------------------
\* The count the detector keeps as its ring wraps and is cleared is the number
\* of failures among the last WindowSize outcomes (outlierWindow, outlier.go:150).
WindowExact ==
  /\ window.filled = Len(recent)
  /\ window.failures = Cardinality({k \in 1..Len(recent) : ~recent[k]})

\* The prober and the detector write the flag and the gauge without a common
\* lock, yet an unhealthy backend never shows as healthy once both are quiet
\* (checker.go:255, outlier.go:130).
EjectionIsVisible ==
  (~healthy /\ prober \in {"wait", "probe"} /\ observer = "free" /\ reload = "serving")
    => gauge = "down"

\* After the detector has ejected a backend it takes a reinstatement by a probe
\* and then EjectAfter new failures before it ejects it again: the burst that
\* ejected it is never counted twice (outlier.go:120).
NoStaleEjection ==
  [][\A success \in BOOLEAN :
       (Observe(success) /\ observer' = "mark")
         => reinstated /\ evidence + 1 >= EjectAfter]_vars

\* Once Checker.Remove has returned, nothing reinstates the backend and no
\* prober writes the series the reload deletes next (checker.go:187).
NoProbeAfterRemove ==
  [][(reload \in {"forget", "delete", "done"})
       => /\ healthy' => healthy
          /\ gauge' = "up" => gauge = "up"]_vars

\* A backend that stops answering probes is ejected for good, whatever its
\* traffic and the detector do (ADR-0011 decision 2).
DeadIsEjected == <>[](~up /\ ~cancelled) => <>[](~healthy)

\* A backend that answers its probes is reinstated after every ejection, by
\* whichever side ejected it (ADR-0011 decision 3).
AliveRecovers == <>[](up /\ ~cancelled) => []<>healthy

\* Remove never waits for ever for its prober.
RemoveEnds == (reload = "wait") ~> (reload # "wait")

\* The gauge and the flag never stay apart: the amended success gate exists so
\* that no write is skipped "forever, leaving IsHealthy() true while
\* lb_backend_healthy stayed 0" (checker.go:252).
GaugeAgrees ==
  <>[](up /\ ~cancelled /\ healthy /\ observer = "free") => <>[](gauge = "up")
=============================================================================
