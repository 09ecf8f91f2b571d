----------------------------- MODULE Selectors -----------------------------
(***************************************************************************)
(* The round-robin, least-connections and power-of-two-choices selectors   *)
(* (internal/balancer), the selector pointer of the proxy that a reload    *)
(* swaps, and what they read: the health and the circuit of each backend,  *)
(* its active count, and its latency estimate with the CompareAndSwap loop *)
(* that writes it (internal/backend/backend.go).                           *)
(*                                                                         *)
(* A selection is one step for each read. The fleet is fixed: Fleet and    *)
(* ConsistentHash replace it.                                              *)
(***************************************************************************)
EXTENDS Integers, Sequences, FiniteSets, Functions

CONSTANTS Order,           \* the backends, in registry order
          Requests,        \* request goroutines
          Latencies,       \* the durations a round trip may take
          StartAlgorithms, \* those the startup config may name
          Turns,           \* a common multiple of 1..Len(Order)
          MaxSelectors,    \* bound: selectors ever built
          Tripping,        \* bound: backends whose circuit may open
          None             \* no backend

Backends == Range(Order)

ASSUME OrderAssumption == Order \in Seq(Backends) /\ Order # <<>> /\ IsInjective(Order)
ASSUME LatenciesAssumption == Latencies # {} /\ Latencies \subseteq Nat \ {0}
ASSUME TurnsAssumption == Turns \in Nat \ {0} /\ \A n \in 1..Len(Order) : Turns % n = 0
ASSUME MaxSelectorsAssumption == MaxSelectors \in Nat \ {0}
ASSUME TrippingAssumption == Tripping \subseteq Backends
ASSUME NoneAssumption == None \notin Backends

Algorithms == {"round_robin", "least_connections", "p2c_ewma"}

ASSUME StartAlgorithmsAssumption == StartAlgorithms # {} /\ StartAlgorithms \subseteq Algorithms

VARIABLES
  healthy,    \* backends marked healthy
  admitting,  \* backends whose circuit is not open
  selector,   \* the proxy's selector: its algorithm, and how many came before
  counter,    \* the counter of each round-robin selector, modulo Turns
  active,     \* ActiveConns of each backend
  ewma,       \* its latencyEWMA
  pc,         \* the step of each request
  using,      \* the selector it has loaded
  todo,       \* the backends it has still to look at
  found,      \* the selectable set it has made
  best,       \* the backend preferred so far, or chosen
  value,      \* what it last read of the active count or the estimate
  latency     \* the duration of its round trip

\* History.
VARIABLES
  wasHealthy,     \* backends healthy at some time of the request's scan
  wasSelectable,  \* those with a circuit not open at that time or at a later one
  throughout,     \* backends eligible during the whole of the scan
  idle, busy,  \* backends idle, busy, since the request began to select, for least connections
  turns,       \* turns of the current selector, less those everybody has had
  skewed,      \* requests selecting since before a flag or a circuit last changed
  folded       \* the estimate if samples were folded in one at a time

local   == <<using, todo, found, best, value, latency>>
backend == <<healthy, admitting>>
seen    == <<wasHealthy, wasSelectable, throughout>>
witness == <<seen, idle, busy>>
rotation == <<turns, skewed>>
vars == <<backend, selector, counter, active, ewma, pc, local, witness, rotation, folded>>

Steps == {"start", "scan", "gate", "least", "compare", "refused", "chosen", "active", "swap",
          "release"}
Scanning  == {"scan", "gate"}
Selecting == Scanning \union {"least", "compare"}

eligible == healthy \intersect admitting

Busy(b) == active[b] > 0
NoTurns == [b \in Backends |-> 0]

Init ==
  /\ healthy = Backends /\ admitting = Backends
  /\ selector \in StartAlgorithms \X {1}
  /\ counter = [g \in 1..MaxSelectors |-> 0]
  /\ active = [b \in Backends |-> 0] /\ ewma = [b \in Backends |-> 0]
  /\ pc = [r \in Requests |-> "start"]
  /\ using = [r \in Requests |-> None]
  /\ todo = [r \in Requests |-> <<>>] /\ found = [r \in Requests |-> <<>>]
  /\ best = [r \in Requests |-> None]
  /\ value = [r \in Requests |-> 0] /\ latency = [r \in Requests |-> 0]
  /\ wasHealthy = [r \in Requests |-> {}] /\ wasSelectable = [r \in Requests |-> {}]
  /\ throughout = [r \in Requests |-> {}]
  /\ idle = [r \in Requests |-> {}] /\ busy = [r \in Requests |-> {}]
  /\ turns = NoTurns /\ skewed = {}
  /\ folded = ewma

----------------------------------------------------------------------------
(* The selectors' surroundings.                                            *)

Flipped(set, b) == IF b \in set THEN set \ {b} ELSE set \union {b}

\* A change of a flag or of a circuit, in the middle of whose scans it falls.
Change(flags, circuits) ==
  /\ healthy' = flags /\ admitting' = circuits
  /\ LET scanning == {r \in Requests : pc[r] \in Scanning}
         met(r)   == wasHealthy[r] \union flags
     IN /\ wasHealthy' = [r \in Requests |-> IF r \in scanning THEN met(r) ELSE wasHealthy[r]]
        /\ wasSelectable' = [r \in Requests |->
             IF r \in scanning THEN wasSelectable[r] \union (met(r) \intersect circuits)
             ELSE wasSelectable[r]]
        /\ throughout' = [r \in Requests |->
             IF r \in scanning THEN throughout[r] \intersect flags \intersect circuits
             ELSE throughout[r]]
        /\ skewed' = {r \in scanning : using[r][1] = "round_robin"}
  /\ turns' = NoTurns
  /\ UNCHANGED <<selector, counter, active, ewma, using, best, value, latency, idle, busy, folded>>

\* A probe or the outlier detector sets or clears the flag.
FlipHealth(b) == Change(Flipped(healthy, b), admitting) /\ UNCHANGED <<pc, todo, found>>

\* An outcome opens the circuit, or an admission finds its cooldown over.
FlipCircuit(b) == Change(healthy, Flipped(admitting, b)) /\ UNCHANGED <<pc, todo, found>>

\* A reload with another algorithm builds its selector and stores the pointer.
SetSelector(a) ==
  /\ a # selector[1] /\ selector[2] < MaxSelectors
  /\ selector' = <<a, selector[2] + 1>>
  /\ turns' = NoTurns
  /\ UNCHANGED <<backend, counter, active, ewma, pc, local, witness, skewed, folded>>

----------------------------------------------------------------------------
(* Select.                                                                 *)

Goto(r, from, to) == pc[r] = from /\ pc' = [pc EXCEPT ![r] = to]

Shared == <<backend, selector, counter, active, ewma, folded>>

\* ServeHTTP loads the selector, which loads the registry's snapshot.
LoadSelector(r) ==
  /\ Goto(r, "start", "scan")
  /\ using' = [using EXCEPT ![r] = selector]
  /\ todo' = [todo EXCEPT ![r] = Order]
  /\ wasHealthy' = [wasHealthy EXCEPT ![r] = healthy]
  /\ wasSelectable' = [wasSelectable EXCEPT ![r] = eligible]
  /\ throughout' = [throughout EXCEPT ![r] = eligible]
  /\ LET compared == IF selector[1] = "least_connections" THEN Backends ELSE {}
     IN /\ busy' = [busy EXCEPT ![r] = {b \in compared : Busy(b)}]
        /\ idle' = [idle EXCEPT ![r] = {b \in compared : ~Busy(b)}]
  /\ UNCHANGED <<Shared, found, best, value, latency, rotation>>

SelectKeeps == UNCHANGED <<Shared, using, latency, witness, rotation>>

\* Mutation: the scan does not look at the health of a backend.
ReadNoHealth(r) ==
  /\ todo[r] # <<>>
  /\ Goto(r, "scan", "gate")
  /\ SelectKeeps /\ UNCHANGED <<todo, found, best, value>>

\* Mutation: the scan stops at the first backend that is not healthy.
ReadUntilUnhealthy(r) ==
  /\ todo[r] # <<>>
  /\ IF Head(todo[r]) \in healthy
     THEN Goto(r, "scan", "gate") /\ UNCHANGED todo
     ELSE Goto(r, "scan", "scan") /\ todo' = [todo EXCEPT ![r] = <<>>]
  /\ SelectKeeps /\ UNCHANGED <<found, best, value>>

\* Selectable asks IsHealthy of the next backend,
ReadHealth(r) ==
  /\ todo[r] # <<>>
  /\ IF Head(todo[r]) \in healthy
     THEN Goto(r, "scan", "gate") /\ UNCHANGED todo
     ELSE Goto(r, "scan", "scan") /\ todo' = [todo EXCEPT ![r] = Tail(@)]
  /\ SelectKeeps /\ UNCHANGED <<found, best, value>>

\* and of a healthy one, then, whether its circuit is open,
ReadCircuit(r) ==
  LET b == Head(todo[r])
  IN /\ Goto(r, "gate", "scan")
     /\ todo' = [todo EXCEPT ![r] = Tail(@)]
     /\ found' = [found EXCEPT ![r] = IF b \in admitting THEN Append(@, b) ELSE @]
     /\ SelectKeeps /\ UNCHANGED <<best, value>>

\* which makes it half-open if its cooldown is over.
PromoteCircuit(r) ==
  LET b == Head(todo[r])
  IN /\ Goto(r, "gate", "scan") /\ b \notin admitting
     /\ Change(healthy, admitting \union {b})
     /\ todo' = [todo EXCEPT ![r] = Tail(@)]
     /\ found' = [found EXCEPT ![r] = Append(@, b)]

\* ErrNoHealthyBackends: the request is answered 503.
NoHealthyBackends(r) ==
  /\ Goto(r, "scan", "refused") /\ todo[r] = <<>> /\ found[r] = <<>>
  /\ SelectKeeps /\ UNCHANGED <<todo, found, best, value>>

\* The scan has found somebody, and algorithm a goes on.
Chooses(r, a, to) ==
  /\ Goto(r, "scan", to) /\ todo[r] = <<>> /\ found[r] # <<>>
  /\ using[r][1] = a
  /\ wasHealthy' = [wasHealthy EXCEPT ![r] = {}]
  /\ throughout' = [throughout EXCEPT ![r] = {}]

ChooseKeeps == UNCHANGED <<Shared, using, found, latency, wasSelectable, idle, busy, rotation>>

Turn(r) == found[r][(counter[using[r][2]] % Len(found[r])) + 1]

\* The turns of the current selector since a flag or a circuit last changed, a request
\* that had begun to select before it having taken none meanwhile.
CountTurn(r) ==
  LET taken == [turns EXCEPT ![Turn(r)] = @ + 1]
  IN turns' = CASE using[r] # selector -> turns
                [] using[r] = selector /\ r \in skewed -> NoTurns
                [] OTHER -> IF \A b \in eligible : taken[b] > 0
                            THEN [b \in Backends |-> IF b \in eligible THEN taken[b] - 1 ELSE 0]
                            ELSE taken

Take(r, advance) ==
  /\ Chooses(r, "round_robin", "chosen")
  /\ counter' = [counter EXCEPT ![using[r][2]] = (@ + advance) % Turns]
  /\ best' = [best EXCEPT ![r] = Turn(r)]
  /\ CountTurn(r)
  /\ UNCHANGED <<backend, selector, active, ewma, folded, using, todo, found, value, latency,
                 wasSelectable, idle, busy, skewed>>

\* Mutation: the counter is advanced when it is read and again when it is used.
TakeTurnTwice(r) == Take(r, 2)

\* RoundRobin: counter.Add(1), one atomic step.
TakeTurn(r) == Take(r, 1)

\* LeastConnections: the first backend's count, then the others' in order.
FirstCount(r) ==
  /\ Chooses(r, "least_connections", "least")
  /\ best' = [best EXCEPT ![r] = found[r][1]]
  /\ value' = [value EXCEPT ![r] = active[found[r][1]]]
  /\ todo' = [todo EXCEPT ![r] = Tail(found[r])]
  /\ ChooseKeeps

\* Mutation: the comparison is the wrong way round.
NextCountMost(r) ==
  /\ Goto(r, "least", "least") /\ todo[r] # <<>>
  /\ todo' = [todo EXCEPT ![r] = Tail(@)]
  /\ LET b == Head(todo[r])
         better == active[b] > value[r]
     IN /\ best' = [best EXCEPT ![r] = IF better THEN b ELSE @]
        /\ value' = [value EXCEPT ![r] = IF better THEN active[b] ELSE @]
  /\ SelectKeeps /\ UNCHANGED found

NextCount(r) ==
  /\ Goto(r, "least", "least") /\ todo[r] # <<>>
  /\ todo' = [todo EXCEPT ![r] = Tail(@)]
  /\ LET b == Head(todo[r])
         better == active[b] < value[r]
     IN /\ best' = [best EXCEPT ![r] = IF better THEN b ELSE @]
        /\ value' = [value EXCEPT ![r] = IF better THEN active[b] ELSE @]
  /\ SelectKeeps /\ UNCHANGED found

LeastFound(r) ==
  /\ Goto(r, "least", "chosen") /\ todo[r] = <<>>
  /\ SelectKeeps /\ UNCHANGED <<todo, found, best, value>>

\* PowerOfTwoChoicesEWMA: the only backend, or the faster of two drawn at
\* random, whose estimates are read one after the other.
OnlyOne(r) ==
  /\ Chooses(r, "p2c_ewma", "chosen") /\ Len(found[r]) = 1
  /\ best' = [best EXCEPT ![r] = found[r][1]]
  /\ ChooseKeeps /\ UNCHANGED <<todo, value>>

Draw(r) ==
  /\ Chooses(r, "p2c_ewma", "compare") /\ Len(found[r]) > 1
  /\ \E i, j \in DOMAIN found[r] :
       /\ i # j
       /\ best' = [best EXCEPT ![r] = found[r][i]]
       /\ value' = [value EXCEPT ![r] = ewma[found[r][i]]]
       /\ todo' = [todo EXCEPT ![r] = <<found[r][j]>>]
  /\ ChooseKeeps

Compare(r) ==
  /\ Goto(r, "compare", "chosen")
  /\ LET b == Head(todo[r])
     IN best' = [best EXCEPT ![r] = IF value[r] <= ewma[b] THEN @ ELSE b]
  /\ todo' = [todo EXCEPT ![r] = <<>>]
  /\ SelectKeeps /\ UNCHANGED <<found, value>>

Select(r) ==
  \/ LoadSelector(r) \/ ReadHealth(r) \/ ReadCircuit(r) \/ PromoteCircuit(r)
  \/ NoHealthyBackends(r)
  \/ TakeTurn(r) \/ FirstCount(r) \/ NextCount(r) \/ LeastFound(r)
  \/ OnlyOne(r) \/ Draw(r) \/ Compare(r)

----------------------------------------------------------------------------
(* What becomes of the request.                                            *)

\* What the request knew of its selection is forgotten.
Forget(r) ==
  /\ todo' = [todo EXCEPT ![r] = <<>>] /\ found' = [found EXCEPT ![r] = <<>>]
  /\ value' = [value EXCEPT ![r] = 0]
  /\ using' = [using EXCEPT ![r] = None]
  /\ wasHealthy' = [wasHealthy EXCEPT ![r] = {}]
  /\ wasSelectable' = [wasSelectable EXCEPT ![r] = {}]
  /\ throughout' = [throughout EXCEPT ![r] = {}]
  /\ skewed' = skewed \ {r}

\* The 503, of a selection that found nobody or a circuit that did not admit.
Deny(r) ==
  /\ \/ Goto(r, "refused", "start")
     \/ Goto(r, "chosen", "start")
  /\ Forget(r)
  /\ best' = [best EXCEPT ![r] = None]
  /\ idle' = [idle EXCEPT ![r] = {}] /\ busy' = [busy EXCEPT ![r] = {}]
  /\ UNCHANGED <<Shared, latency, turns>>

IncActive(r) ==
  /\ Goto(r, "chosen", "active")
  /\ active' = [active EXCEPT ![best[r]] = @ + 1]
  /\ Forget(r)
  /\ idle' = [s \in Requests |-> IF s = r THEN {}
                                 ELSE IF pc[s] \in Selecting THEN idle[s] \ {best[r]} ELSE idle[s]]
  /\ busy' = [busy EXCEPT ![r] = {}]
  /\ UNCHANGED <<backend, selector, counter, ewma, folded, best, latency, turns>>

Fold(old, d) == IF old = 0 THEN d ELSE (d + 9 * old) \div 10

\* The round trip ends, and RecordLatency loads the estimate.
RoundTrip(r) ==
  /\ Goto(r, "active", "swap")
  /\ \E d \in Latencies : latency' = [latency EXCEPT ![r] = d]
  /\ value' = [value EXCEPT ![r] = ewma[best[r]]]
  /\ UNCHANGED <<Shared, using, todo, found, best, witness, rotation>>

Record(r) ==
  LET b == best[r]
  IN /\ ewma' = [ewma EXCEPT ![b] = Fold(value[r], latency[r])]
     /\ folded' = [folded EXCEPT ![b] = Fold(@, latency[r])]
     /\ value' = [value EXCEPT ![r] = 0] /\ latency' = [latency EXCEPT ![r] = 0]
     /\ UNCHANGED <<backend, selector, counter, active, using, todo, found, best, witness,
                    rotation>>

\* Mutation: the new estimate is stored whatever the field holds by now.
StoreLatency(r) == Goto(r, "swap", "release") /\ Record(r)

\* It swaps it if the field still holds the value loaded, or loads it again.
SwapLatency(r) ==
  /\ Goto(r, "swap", "release") /\ ewma[best[r]] = value[r]
  /\ Record(r)

RetryLatency(r) ==
  /\ Goto(r, "swap", "swap") /\ ewma[best[r]] # value[r]
  /\ value' = [value EXCEPT ![r] = ewma[best[r]]]
  /\ UNCHANGED <<Shared, using, todo, found, best, latency, witness, rotation>>

\* A round trip that the client has given up on is not recorded.
Release(r) ==
  LET b == best[r]
  IN /\ Goto(r, "release", "start") \/ Goto(r, "active", "start")
     /\ active' = [active EXCEPT ![b] = @ - 1]
     /\ busy' = [s \in Requests |-> IF pc[s] \in Selecting /\ active'[b] = 0 THEN busy[s] \ {b}
                                    ELSE busy[s]]
     /\ best' = [best EXCEPT ![r] = None]
     /\ UNCHANGED <<backend, selector, counter, ewma, folded, using, todo, found, value,
                    latency, seen, idle, rotation>>

Serve(r) ==
  \/ Deny(r) \/ IncActive(r) \/ RoundTrip(r)
  \/ SwapLatency(r) \/ RetryLatency(r) \/ Release(r)

Next ==
  \/ \E b \in Backends : FlipHealth(b)
  \/ \E b \in Tripping : FlipCircuit(b)
  \/ \E a \in Algorithms : SetSelector(a)
  \/ \E r \in Requests : Select(r) \/ Serve(r)

Spec == Init /\ [][Next]_vars

----------------------------------------------------------------------------
\* A request is given a backend whose circuit was not open at some moment of its
\* own selection, the backend having been healthy at that moment or an earlier one
\* of it, whatever selector it loaded and whatever has flipped or been swapped
\* since. Selectable reads the two in that order (registry.go:145): no moment need
\* have had both.
ChosenWasSelectable == \A r \in Requests : pc[r] = "chosen" => best[r] \in wasSelectable[r]

\* A request is refused for want of a backend only if no backend was eligible
\* during the whole of its selection.
NoFalseRefusal == \A r \in Requests : pc[r] = "refused" => throughout[r] = {}

\* "racing increments each get a distinct value, so every call receives a
\* distinct round-robin turn" (roundrobin.go:16): while no flag and no circuit
\* changes, no backend is two turns ahead of another.
TurnsAreShared == \A b \in Backends : turns[b] <= 1

\* Least connections never passes over a backend that was idle throughout the
\* selection for one that was busy throughout it, though the counts it compares
\* were read at different moments.
IdleNotPassedOver ==
  \A r \in Requests :
    (pc[r] = "chosen" /\ using[r][1] = "least_connections" /\ best[r] \in busy[r])
      => Range(found[r]) \intersect idle[r] = {}

\* The estimate is that of folding the samples in one after the other: none is
\* lost or folded twice in the CompareAndSwap loop, though it compares values
\* and a value may return (RecordLatency).
SamplesFoldedOnce == ewma = folded
=============================================================================
