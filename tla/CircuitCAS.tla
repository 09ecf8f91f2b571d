----------------------------- MODULE CircuitCAS -----------------------------
(***************************************************************************)
(* The circuit of one backend as the goroutines run it: every method of    *)
(* internal/backend/backend.go loads the snapshot pointer, computes a new  *)
(* snapshot from what it loaded, and retries unless its CompareAndSwap     *)
(* finds the pointer it loaded. A request goroutine                        *)
(*   scans the pool (Selectable, CircuitOpen), asks for admission          *)
(*   (CircuitAllow), and when admitted records one outcome                 *)
(*   (CircuitSuccess, CircuitFailure or RearmTrial).                       *)
(*                                                                         *)
(* A snapshot is never mutated and its address is not reused while a       *)
(* goroutine holds it, so a CompareAndSwap succeeds exactly when none has  *)
(* succeeded since the load: "stale" is the set of goroutines whose loaded *)
(* pointer has been replaced.                                              *)
(***************************************************************************)
EXTENDS Naturals, FiniteSets

CONSTANTS Requests, NoRequest, Threshold,
          RingSelector   \* the selector is consistent_hash, which does not
                         \* look at the circuit of the backend it picks

ASSUME ThresholdAssumption == Threshold \in Nat \ {0}
ASSUME NoRequestAssumption == NoRequest \notin Requests
ASSUME RingSelectorAssumption == RingSelector \in BOOLEAN

VARIABLES circuit, cooled, removed, holder, trials, stray,   \* as in Circuit
          pc,       \* where each request goroutine is
          seen,     \* the snapshot its last load returned
          stale,    \* goroutines whose loaded pointer has been replaced
          streak    \* history: failures recorded since the last success or open

history == <<holder, trials, stray>>
vars == <<circuit, cooled, removed, holder, trials, stray, pc, seen, stale, streak>>

\* Between an admission and the recording of its outcome.
Admitted == {"inflight", "upload", "succeed", "succeedSwap", "fail", "failSwap",
             "rearm", "rearmSwap"}

\* Between a load and the CompareAndSwap that depends on it.
Swapping == {"scanSwap", "promoteSwap", "trialSwap", "succeedSwap", "failSwap",
             "rearmSwap"}

Steps == {"idle", "scan", "promote", "admit"} \union Admitted \union Swapping

InFlight == {r \in Requests : pc[r] \in Admitted}

Atomic == INSTANCE Circuit WITH inflight <- InFlight

Init ==
  /\ circuit = Atomic!Closed(0)
  /\ cooled = FALSE
  /\ removed = FALSE
  /\ holder = NoRequest
  /\ trials = {}
  /\ stray = FALSE
  /\ pc = [r \in Requests |-> "idle"]
  /\ seen = [r \in Requests |-> Atomic!Closed(0)]
  /\ stale = {}
  /\ streak = 0

----------------------------------------------------------------------------
Goto(r, step) == pc' = [pc EXCEPT ![r] = step]

\* An atomic load that leads to a CompareAndSwap at step.
LoadFor(r, step) ==
  /\ seen' = [seen EXCEPT ![r] = circuit]
  /\ stale' = stale \ {r}
  /\ Goto(r, step)
  /\ UNCHANGED <<circuit, cooled, removed, history, streak>>

\* A load after which r is done with this loop and goes to step.
LoadAndGo(r, step) ==
  /\ Goto(r, step)
  /\ trials' = IF step = "idle" THEN trials \ {r} ELSE trials
  /\ UNCHANGED <<circuit, cooled, removed, holder, stray, seen, stale, streak>>

\* Mutation: the new snapshot is stored whatever happened since the load.
PlainStore(r) == r \in Requests

\* Mutation: the swap compares contents, not pointers.
SameContents(r) == seen[r] = circuit

\* The pointer r loaded is still the current one.
Pinned(r) == r \notin stale

\* A CompareAndSwap that succeeds, replacing the snapshot by next.
Swap(r, next, step) ==
  /\ Pinned(r)
  /\ circuit' = next
  /\ stale' = {q \in Requests \ {r} : pc[q] \in Swapping}
  /\ Goto(r, step)
  /\ UNCHANGED <<removed, seen>>

\* A CompareAndSwap that fails sends r back to the load.
Retry(r, step) ==
  /\ ~Pinned(r)
  /\ Goto(r, step)
  /\ UNCHANGED <<circuit, cooled, removed, history, seen, stale, streak>>

EndEpisode == holder' = NoRequest /\ trials' = {} /\ stray' = FALSE

NeedsPromotion == circuit.state = "Open" /\ cooled

----------------------------------------------------------------------------
Cooldown ==
  /\ circuit.state = "Open" /\ ~cooled
  /\ cooled' = TRUE
  /\ UNCHANGED <<circuit, removed, history, pc, seen, stale, streak>>

Remove ==
  /\ ~removed
  /\ removed' = TRUE
  /\ UNCHANGED <<circuit, cooled, history, pc, seen, stale, streak>>

\* A request arrives while the backend is in the snapshot Selectable loads.
Arrive(r) ==
  /\ pc[r] = "idle" /\ ~removed
  /\ Goto(r, "scan")
  /\ UNCHANGED <<circuit, cooled, removed, history, seen, stale, streak>>

\* CircuitOpen, for the scan of Selectable, and the choice of the selector.
Scan(r) ==
  /\ pc[r] = "scan"
  /\ \/ NeedsPromotion /\ LoadFor(r, "scanSwap")
     \/ /\ ~NeedsPromotion
        /\ \/ /\ circuit.state # "Open" \/ RingSelector
              /\ LoadAndGo(r, "promote")
           \/ LoadAndGo(r, "idle")

PromoteSwap(r, step) ==
  /\ Swap(r, Atomic!HalfOpen, step)
  /\ cooled' = FALSE
  /\ EndEpisode
  /\ UNCHANGED streak

ScanSwap(r) ==
  /\ pc[r] = "scanSwap"
  /\ \/ PromoteSwap(r, "promote")
     \/ PromoteSwap(r, "idle")
     \/ Retry(r, "scan")

\* CircuitAllow, first half: promote if the cooldown has passed.
AllowPromote(r) ==
  /\ pc[r] = "promote"
  /\ \/ NeedsPromotion /\ LoadFor(r, "promoteSwap")
     \/ ~NeedsPromotion /\ LoadAndGo(r, "admit")

AllowPromoteSwap(r) ==
  /\ pc[r] = "promoteSwap"
  /\ PromoteSwap(r, "admit") \/ Retry(r, "promote")

\* CircuitAllow, second half: admit, deny, or try to take the trial.
AllowAdmit(r) ==
  /\ pc[r] = "admit"
  /\ \/ /\ circuit.state = "Closed"
        /\ LoadAndGo(r, "inflight")
     \/ /\ circuit.state = "Open" \/ circuit.trial
        /\ LoadAndGo(r, "idle")
     \/ /\ circuit.state = "HalfOpen" /\ ~circuit.trial
        /\ LoadFor(r, "trialSwap")

TrialSwap(r) ==
  /\ pc[r] = "trialSwap"
  /\ \/ /\ Swap(r, [seen[r] EXCEPT !.trial = TRUE], "inflight")
        /\ holder' = r
        /\ trials' = trials \union {r}
        /\ UNCHANGED <<cooled, stray, streak>>
     \/ Retry(r, "admit")

\* The body of the request is relayed: a read from the client, a write to the
\* backend. What the transport bounds is the dial before it and the wait for the
\* response headers after it.
Upload(r) ==
  \/ pc[r] = "inflight" /\ LoadAndGo(r, "upload")
  \/ pc[r] = "upload" /\ LoadAndGo(r, "inflight")

\* Mutation: a request whose client is gone does not call RearmTrial.
RoundTripNoRearm(r) ==
  /\ pc[r] \in {"inflight", "upload"}
  /\ \/ ~removed /\ \E step \in {"succeed", "fail"} : LoadAndGo(r, step)
     \/ LoadAndGo(r, "idle")

\* The round trip ends: modifyResponse or errorHandler. observe() looks at
\* IsRemoved before it calls the breaker, and nothing stops the backend from
\* being removed in between. A client that is gone is not observed at all.
RoundTrip(r) ==
  /\ pc[r] \in {"inflight", "upload"}
  /\ \/ ~removed /\ \E step \in {"succeed", "fail"} : LoadAndGo(r, step)
     \/ removed /\ LoadAndGo(r, "idle")
     \/ LoadAndGo(r, "rearm")

Success(r) ==
  /\ pc[r] = "succeed"
  /\ \/ circuit.state = "Open" /\ LoadAndGo(r, "idle")
     \/ circuit.state # "Open" /\ LoadFor(r, "succeedSwap")

SuccessSwap(r) ==
  /\ pc[r] = "succeedSwap"
  /\ \/ /\ Swap(r, Atomic!Closed(0), "idle")
        /\ EndEpisode
        /\ streak' = 0
        /\ UNCHANGED cooled
     \/ Retry(r, "succeed")

Failure(r) ==
  /\ pc[r] = "fail"
  /\ \/ circuit.state = "Open" /\ LoadAndGo(r, "idle")
     \/ circuit.state # "Open" /\ LoadFor(r, "failSwap")

FailureSwap(r) ==
  /\ pc[r] = "failSwap"
  /\ \/ /\ Swap(r, Atomic!AfterFailure(seen[r]), "idle")
        /\ cooled' = FALSE
        /\ EndEpisode
        /\ streak' = IF circuit'.state = "Open" THEN 0 ELSE streak + 1
     \/ Retry(r, "fail")

Rearm(r) ==
  /\ pc[r] = "rearm"
  /\ \/ ~(circuit.state = "HalfOpen" /\ circuit.trial) /\ LoadAndGo(r, "idle")
     \/ circuit.state = "HalfOpen" /\ circuit.trial /\ LoadFor(r, "rearmSwap")

RearmSwap(r) ==
  /\ pc[r] = "rearmSwap"
  /\ \/ /\ Swap(r, [seen[r] EXCEPT !.trial = FALSE], "idle")
        /\ trials' = trials \ {r}
        /\ stray' = (stray \/ holder # r)
        /\ holder' = NoRequest
        /\ UNCHANGED <<cooled, streak>>
     \/ Retry(r, "rearm")

\* What an admitted request does until its outcome is recorded.
Outcome(r) ==
  \/ RoundTrip(r)
  \/ Success(r) \/ SuccessSwap(r)
  \/ Failure(r) \/ FailureSwap(r)
  \/ Rearm(r) \/ RearmSwap(r)

Request(r) ==
  \/ Arrive(r)
  \/ Scan(r) \/ ScanSwap(r)
  \/ AllowPromote(r) \/ AllowPromoteSwap(r)
  \/ AllowAdmit(r) \/ TrialSwap(r)
  \/ Upload(r) \/ Outcome(r)

Next == Cooldown \/ Remove \/ \E r \in Requests : Request(r)

Spec == Init /\ [][Next]_vars

\* A goroutine that can run does. A request that waits for its backend, or
\* returns to that again and again, ends: dial_timeout and response_header_timeout
\* bound that wait. Nothing is assumed of clients, of a backend that does not take
\* the body of a request, of the clock, or of requests not admitted yet.
Ends(r) == pc[r] # "upload" /\ Outcome(r)

Fairness == \A r \in Requests : SF_vars(Ends(r))

FairSpec == Spec /\ Fairness

----------------------------------------------------------------------------
TypeOK ==
  /\ circuit \in Atomic!Snapshots
  /\ cooled \in BOOLEAN
  /\ removed \in BOOLEAN
  /\ holder \in Requests \union {NoRequest}
  /\ trials \subseteq InFlight
  /\ stray \in BOOLEAN
  /\ pc \in [Requests -> Steps]
  /\ seen \in [Requests -> Atomic!Snapshots]
  /\ stale \subseteq Requests
  /\ streak \in 0..(Threshold - 1)

\* No failure is lost or counted twice when outcomes are recorded at once: the
\* count in the snapshot is the number of failures since the last success
\* (the CompareAndSwap loop of CircuitFailure).
FailuresCounted == circuit.state = "Closed" => circuit.failures = streak

\* The interleaved loops implement the atomic circuit.
ImplementsCircuit == Atomic!Spec

\* A trial on a backend of the fleet eventually decides the circuit or frees
\* its slot (RearmTrial, ADR-0017), however the CompareAndSwaps fall. It lasts for
\* ever only if the body of its request is never relayed to the end, which nothing
\* bounds where ReadTimeout is 0 (app.go:425) or the backend does not take it.
TrialEndsUnlessStalled ==
  (circuit.trial /\ ~removed)
    ~> \/ ~circuit.trial \/ removed
       \/ [](\E r \in Requests : holder = r /\ pc[r] = "upload")
============================================================================
