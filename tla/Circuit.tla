------------------------------ MODULE Circuit ------------------------------
(***************************************************************************)
(* The circuit breaker of one backend (internal/backend/backend.go) and    *)
(* the requests the proxy has admitted to it, at the granularity the rest  *)
(* of the program sees: every method of the circuit is one step.           *)
(* CircuitCAS has the load / CompareAndSwap loops the methods are made of  *)
(* and implements this module.                                             *)
(*                                                                         *)
(* Time is the one bit the code compares: whether the cooldown has passed  *)
(* since the snapshot's openedAt.                                          *)
(***************************************************************************)
EXTENDS Naturals, FiniteSets

CONSTANTS Requests,    \* request goroutines; one serves request after request
          NoRequest,   \* the holder of a trial nobody has taken
          Threshold    \* circuitFailuresBeforeOpen

ASSUME ThresholdAssumption == Threshold \in Nat \ {0}
ASSUME NoRequestAssumption == NoRequest \notin Requests

VARIABLES circuit,     \* the snapshot behind Backend.circuit
          cooled,      \* time.Since(circuit.openedAt) >= cooldown
          removed,     \* Backend.removed
          inflight     \* requests admitted whose outcome is not yet recorded

\* History: no code reads these, the properties do.
VARIABLES holder,      \* the request whose CompareAndSwap set circuit.trial
          trials,      \* admitted as trial in this half-open episode, in flight
          stray        \* a request that did not hold the trial has freed it

snapshot == <<circuit, cooled>>
history  == <<holder, trials, stray>>
vars     == <<circuit, cooled, removed, inflight, holder, trials, stray>>

States == {"Closed", "Open", "HalfOpen"}

\* circuitSnapshot
Snapshots == [state : States, failures : 0..(Threshold - 1), trial : BOOLEAN]

Snapshot(state, failures, trial) ==
  [state |-> state, failures |-> failures, trial |-> trial]

Closed(n) == Snapshot("Closed", n, FALSE)
Open      == Snapshot("Open", 0, FALSE)
HalfOpen  == Snapshot("HalfOpen", 0, FALSE)

\* Mutation: the count is compared before it is incremented.
AfterFailureOneLate(c) ==
  IF c.state = "HalfOpen" \/ c.failures >= Threshold
    THEN Open ELSE Closed(c.failures + 1)

\* What CircuitFailure replaces snapshot c by, when c is not Open.
AfterFailure(c) ==
  IF c.state = "HalfOpen" \/ c.failures + 1 >= Threshold
    THEN Open ELSE Closed(c.failures + 1)

Init ==
  /\ circuit = Closed(0)
  /\ cooled = FALSE
  /\ removed = FALSE
  /\ inflight = {}
  /\ holder = NoRequest
  /\ trials = {}
  /\ stray = FALSE

----------------------------------------------------------------------------
\* The circuit leaves its half-open episode (or a new one begins).
EndEpisode == holder' = NoRequest /\ trials' = {} /\ stray' = FALSE

\* r, in flight, ends without changing the circuit.
Leave(r) ==
  /\ inflight' = inflight \ {r}
  /\ trials' = trials \ {r}
  /\ UNCHANGED <<snapshot, removed, holder, stray>>

\* The clock passes openedAt + cooldown.
Cooldown ==
  /\ circuit.state = "Open" /\ ~cooled
  /\ cooled' = TRUE
  /\ UNCHANGED <<circuit, removed, inflight, history>>

\* Registry.Apply drops the backend from the fleet and marks it.
Remove ==
  /\ ~removed
  /\ removed' = TRUE
  /\ UNCHANGED <<snapshot, inflight, history>>

\* currentCircuit: whoever reads an open circuit that has cooled down promotes
\* it, a Selectable scan (CircuitOpen) as well as an admission (CircuitAllow).
Promote ==
  /\ circuit.state = "Open" /\ cooled
  /\ circuit' = HalfOpen
  /\ cooled' = FALSE
  /\ EndEpisode
  /\ UNCHANGED <<removed, inflight>>

\* CircuitAllow admits r: always when closed, as the trial when half-open.
AdmitClosed(r) ==
  /\ r \notin inflight
  /\ circuit.state = "Closed"
  /\ inflight' = inflight \union {r}
  /\ UNCHANGED <<snapshot, removed, history>>

\* Mutation: a half-open circuit admits without looking at the trial flag.
AdmitTrialAlways(r) ==
  /\ r \notin inflight
  /\ circuit.state = "HalfOpen"
  /\ circuit' = [circuit EXCEPT !.trial = TRUE]
  /\ inflight' = inflight \union {r}
  /\ holder' = r
  /\ trials' = trials \union {r}
  /\ UNCHANGED <<cooled, removed, stray>>

AdmitTrial(r) ==
  /\ r \notin inflight
  /\ circuit.state = "HalfOpen" /\ ~circuit.trial
  /\ circuit' = [circuit EXCEPT !.trial = TRUE]
  /\ inflight' = inflight \union {r}
  /\ holder' = r
  /\ trials' = trials \union {r}
  /\ UNCHANGED <<cooled, removed, stray>>

\* Mutation: a success closes the circuit in every state.
SucceedAlways(r) ==
  /\ r \in inflight
  /\ circuit' = Closed(0)
  /\ cooled' = FALSE
  /\ inflight' = inflight \ {r}
  /\ EndEpisode
  /\ UNCHANGED removed

\* The proxy observes r's round trip: CircuitSuccess and CircuitFailure ignore
\* it while the circuit is Open.
Succeed(r) ==
  /\ r \in inflight
  /\ \/ /\ circuit.state = "Open"
        /\ Leave(r)
     \/ /\ circuit.state # "Open"
        /\ circuit' = Closed(0)
        /\ inflight' = inflight \ {r}
        /\ EndEpisode
        /\ UNCHANGED <<cooled, removed>>

Fail(r) ==
  /\ r \in inflight
  /\ \/ /\ circuit.state = "Open"
        /\ Leave(r)
     \/ /\ circuit.state # "Open"
        /\ circuit' = AfterFailure(circuit)
        /\ cooled' = FALSE
        /\ inflight' = inflight \ {r}
        /\ EndEpisode
        /\ UNCHANGED removed

\* observe() found the backend removed and told nobody.
Suppressed(r) ==
  /\ r \in inflight
  /\ removed
  /\ Leave(r)

\* Mutation: nothing is recorded of a request whose client is gone.
AbandonSilently(r) == r \in inflight /\ Leave(r)

\* The client of r is gone: no outcome, but RearmTrial frees a taken trial,
\* whoever took it.
Abandon(r) ==
  /\ r \in inflight
  /\ \/ /\ ~circuit.trial
        /\ Leave(r)
     \/ /\ circuit.trial
        /\ circuit' = [circuit EXCEPT !.trial = FALSE]
        /\ inflight' = inflight \ {r}
        /\ trials' = trials \ {r}
        /\ stray' = (stray \/ holder # r)
        /\ holder' = NoRequest
        /\ UNCHANGED <<cooled, removed>>

Finish(r) == Succeed(r) \/ Fail(r) \/ Suppressed(r) \/ Abandon(r)

Next ==
  \/ Cooldown \/ Remove \/ Promote
  \/ \E r \in Requests : AdmitClosed(r) \/ AdmitTrial(r) \/ Finish(r)

Spec == Init /\ [][Next]_vars

----------------------------------------------------------------------------
TypeOK ==
  /\ circuit \in Snapshots
  /\ cooled \in BOOLEAN
  /\ removed \in BOOLEAN
  /\ inflight \subseteq Requests
  /\ holder \in Requests \union {NoRequest}
  /\ trials \subseteq inflight
  /\ stray \in BOOLEAN

\* A taken trial always belongs to a request that will still give it back, so
\* the circuit of a backend in the fleet never denies everybody for ever
\* (RearmTrial exists for this, backend.go:352). A removed backend may wedge:
\* its outcomes are suppressed, and nothing is routed to it.
NoWedge == circuit.trial /\ ~removed => holder \in inflight

\* Half-open admits one request at a time, unless a request that was not the
\* trial has freed the trial's slot (CircuitAllow, RearmTrial): the comment at
\* backend.go:305, "Half-Open admits exactly one request", holds no further.
OneTrialUnlessStray == ~stray => Cardinality(trials) <= 1

\* An open circuit stays open until its cooldown has passed: no outcome of a
\* request admitted earlier closes it, and none starts the cooldown again
\* (CircuitSuccess and CircuitFailure ignore an outcome observed while Open).
OpenOutlastsCooldown ==
  [][circuit.state = "Open" =>
       \/ UNCHANGED circuit /\ (cooled => cooled')
       \/ cooled /\ circuit' = HalfOpen]_vars
============================================================================
