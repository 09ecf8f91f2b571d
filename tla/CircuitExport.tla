--------------------------- MODULE CircuitExport ---------------------------
(***************************************************************************)
(* The circuit of one backend and its series lb_circuit_state, one for     *)
(* each state: 1 for the circuit's state and 0 for the others              *)
(* (internal/circuit/circuit.go, internal/metrics/metrics.go).             *)
(*                                                                         *)
(* The goroutine whose CompareAndSwap makes a transition exports it after  *)
(* that, by one write to each series, and only then goes on. A transition  *)
(* another goroutine makes meanwhile is exported at the same time. The     *)
(* promotion of an open circuit by a Selectable scan is not exported.      *)
(* The series of a removed backend are deleted: they are in Fleet.         *)
(***************************************************************************)
EXTENDS Circuit, Sequences

VARIABLES
  series,    \* the value of each series
  target,    \* the state a request goroutine is to export, or ""
  written,   \* the series it has written
  asking     \* promoted the circuit and have yet to learn if they are admitted

\* History: the last transition was made while the export of another was pending.
VARIABLE overlapped

export  == <<series, target, written, overlapped>>
allvars == <<vars, export, asking>>

\* circuitStates: the order of the writes.
Order == <<"Closed", "Open", "HalfOpen">>

Exporting == {r \in Requests : target[r] # ""}

ExportInit ==
  /\ Init
  /\ series = [s \in States |-> IF s = "Closed" THEN 1 ELSE 0]
  /\ target = [r \in Requests |-> ""]
  /\ written = [r \in Requests |-> 0]
  /\ asking = {}
  /\ overlapped = FALSE

----------------------------------------------------------------------------
\* r has made a transition to state s.
Transition(r, s) ==
  /\ target' = [target EXCEPT ![r] = s]
  /\ overlapped' = (Exporting # {})
  /\ UNCHANGED <<series, written>>

\* CircuitOpen, for a Selectable scan.
ScanPromotes == Promote /\ UNCHANGED <<export, asking>>

\* CircuitAllow: currentCircuit promotes for r.
AllowPromotes(r) ==
  /\ r \notin inflight \union Exporting
  /\ Promote
  /\ Transition(r, "HalfOpen")
  /\ asking' = asking \union {r}

\* The rest of CircuitAllow.
Admitted(r) ==
  /\ r \notin Exporting \/ r \in asking
  /\ AdmitClosed(r) \/ AdmitTrial(r)
  /\ asking' = asking \ {r}
  /\ UNCHANGED export

Denied(r) ==
  /\ r \in asking
  /\ circuit.state = "Open" \/ circuit.trial
  /\ asking' = asking \ {r}
  /\ UNCHANGED <<vars, export>>

\* ObserveRoundTrip exports only what its outcome has changed.
Observed(r) ==
  /\ r \notin Exporting
  /\ UNCHANGED asking
  /\ \/ /\ Succeed(r)
        /\ IF circuit.state = "HalfOpen" THEN Transition(r, "Closed") ELSE UNCHANGED export
     \/ /\ Fail(r)
        /\ IF circuit.state # "Open" /\ circuit'.state = "Open"
             THEN Transition(r, "Open") ELSE UNCHANGED export

Unobserved(r) ==
  /\ r \notin Exporting
  /\ Suppressed(r) \/ Abandon(r)
  /\ UNCHANGED <<export, asking>>

\* Mutation: only the series of the new state is written.
SetTargetOnly(r) ==
  /\ r \in Exporting \ asking
  /\ series' = [series EXCEPT ![target[r]] = 1]
  /\ target' = [target EXCEPT ![r] = ""]
  /\ UNCHANGED <<vars, written, asking, overlapped>>

\* SetCircuitState: the next of its three writes.
SetCircuitState(r) ==
  LET s == Order[written[r] + 1]
  IN /\ r \in Exporting \ asking
     /\ series' = [series EXCEPT ![s] = IF s = target[r] THEN 1 ELSE 0]
     /\ IF s = "HalfOpen"
          THEN /\ target' = [target EXCEPT ![r] = ""]
               /\ written' = [written EXCEPT ![r] = 0]
          ELSE /\ written' = [written EXCEPT ![r] = @ + 1]
               /\ UNCHANGED target
     /\ UNCHANGED <<vars, asking, overlapped>>

ExportNext ==
  \/ (Cooldown \/ Remove) /\ UNCHANGED <<export, asking>>
  \/ ScanPromotes
  \/ \E r \in Requests :
       \/ AllowPromotes(r) \/ Admitted(r) \/ Denied(r)
       \/ Observed(r) \/ Unobserved(r) \/ SetCircuitState(r)

ExportSpec == ExportInit /\ [][ExportNext]_allvars

----------------------------------------------------------------------------
\* When no export is pending the series say the state of the circuit, or still
\* Open where a scan has made it HalfOpen (ADR-0013 decision 13), unless the last
\* transition and an earlier one were exported at the same time: each export is
\* three writes, and theirs may leave two series at 1, or none (metrics.go:171,
\* "the exactly-one-state-is-1 invariant").
SeriesFaithfulUnlessOverlap ==
  Exporting = {} /\ ~overlapped =>
    \E s \in {circuit.state} \union {x \in {"Open"} : circuit.state = "HalfOpen"} :
      series = [x \in States |-> IF x = s THEN 1 ELSE 0]
============================================================================
