-------------------------- MODULE SelectorsProofs --------------------------
(***************************************************************************)
(* Theorems about Selectors, for every registry, every set of requests and *)
(* of latencies, and every number of selectors built.                      *)
(***************************************************************************)
EXTENDS Selectors, WellFoundedInduction, TLAPS

Domains ==
  /\ selector \in Algorithms \X (1..MaxSelectors)
  /\ counter \in [1..MaxSelectors -> Nat]
  /\ healthy \subseteq Backends /\ admitting \subseteq Backends
  /\ active \in [Backends -> Int]
  /\ pc \in [Requests -> Steps] /\ DOMAIN using = Requests
  /\ \A r \in Requests : pc[r] \in Selecting => using[r] \in Algorithms \X (1..MaxSelectors)
  /\ todo \in [Requests -> Seq(Backends)] /\ found \in [Requests -> Seq(Backends)]
  /\ best \in [Requests -> Backends \union {None}]
  /\ value \in [Requests -> Int] /\ latency \in [Requests -> Nat]
  /\ wasHealthy \in [Requests -> SUBSET Backends]
  /\ wasSelectable \in [Requests -> SUBSET Backends]
  /\ throughout \in [Requests -> SUBSET Backends]
  /\ idle \in [Requests -> SUBSET Backends] /\ busy \in [Requests -> SUBSET Backends]
  /\ ewma \in [Backends -> Nat] /\ folded = ewma

\* A request that has chosen, or is about to, has a backend.
HasBest == \A r \in Requests : pc[r] \in {"chosen", "active", "swap", "release"} => best[r] # None

\* The memory of a scan is what was healthy, admitting and eligible during it, that
\* of a selection what was idle and busy.
WitnessesHold ==
  \A r \in Requests :
    /\ pc[r] \in Scanning =>
         /\ throughout[r] \subseteq eligible /\ healthy \subseteq wasHealthy[r]
         /\ wasHealthy[r] \intersect admitting \subseteq wasSelectable[r]
    /\ pc[r] \in Selecting =>
         /\ \A b \in busy[r] : active[b] > 0
         /\ \A b \in idle[r] : active[b] <= 0

\* Whom the scan has found was healthy when it asked that, and admitted when it asked
\* that, and it has found, or has still to look at, whoever was eligible throughout.
FairAt(r) ==
  /\ Range(found[r]) \subseteq wasSelectable[r]
  /\ pc[r] \in {"start", "active", "swap", "release"} => found[r] = <<>>
  /\ pc[r] \in Scanning => throughout[r] \subseteq Range(found[r]) \union Range(todo[r])
  /\ pc[r] = "gate" => todo[r] # <<>> /\ Head(todo[r]) \in wasHealthy[r]
  /\ pc[r] = "refused" => throughout[r] = {}
  /\ pc[r] \in {"least", "compare", "chosen"} => best[r] \in Range(found[r])
  /\ pc[r] \in {"least", "compare"} => Range(todo[r]) \subseteq Range(found[r])
  /\ pc[r] = "compare" => todo[r] # <<>>

ScanIsFair == \A r \in Requests : FairAt(r)

\* The count kept by least connections was read from the backend preferred so
\* far, and is not above that of an idle backend already compared.
LeastAt(r) ==
  /\ pc[r] = "compare" => using[r][1] = "p2c_ewma"
  /\ (pc[r] \in {"least", "chosen"} /\ using[r][1] = "least_connections") =>
       /\ best[r] \in busy[r] => value[r] > 0
       /\ \A b \in Range(found[r]) \intersect idle[r] :
            value[r] <= 0 \/ (pc[r] = "least" /\ b \in Range(todo[r]))

LeastIsKept == \A r \in Requests : LeastAt(r)

SelectInv == Domains /\ HasBest /\ WitnessesHold /\ ScanIsFair

----------------------------------------------------------------------------
(* Facts about the sequences a selection walks.                            *)

\* The empty sequence has no elements.
LEMMA RangeOfEmpty == Range(<<>>) = {}
BY DEF Range

\* What the tail of a sequence holds.
LEMMA RangeOfTail ==
  ASSUME NEW S, NEW s \in Seq(S), s # <<>>
  PROVE  /\ Head(s) \in S /\ Tail(s) \in Seq(S)
         /\ Range(s) = {Head(s)} \union Range(Tail(s))
<1>1. Head(s) \in S /\ Tail(s) \in Seq(S)
  OBVIOUS
<1>2. ASSUME NEW x \in Range(s) PROVE x = Head(s) \/ x \in Range(Tail(s))
  <2>1. PICK k \in 1..Len(s) : s[k] = x
    BY <1>2 DEF Range
  <2>2. CASE k = 1
    BY <2>1, <2>2
  <2>3. CASE k # 1
    <3>1. k - 1 \in DOMAIN Tail(s) /\ Tail(s)[k - 1] = x
      BY <2>1, <2>3
    <3> QED BY <3>1 DEF Range
  <2> QED BY <2>2, <2>3
<1>3. Head(s) \in Range(s)
  <2>1. 1 \in DOMAIN s /\ s[1] = Head(s)
    OBVIOUS
  <2> QED BY <2>1 DEF Range
<1>4. ASSUME NEW x \in Range(Tail(s)) PROVE x \in Range(s)
  <2>1. PICK k \in DOMAIN Tail(s) : Tail(s)[k] = x
    BY DEF Range
  <2>2. k + 1 \in DOMAIN s /\ s[k + 1] = x
    BY <2>1
  <2> QED BY <2>2 DEF Range
<1> QED BY <1>1, <1>2, <1>3, <1>4

\* What a sequence with one more element holds.
LEMMA RangeOfAppend ==
  ASSUME NEW S, NEW s \in Seq(S), NEW x \in S
  PROVE  Append(s, x) \in Seq(S) /\ Range(Append(s, x)) = Range(s) \union {x}
<1>1. Append(s, x) \in Seq(S) /\ DOMAIN Append(s, x) = 1..(Len(s) + 1)
  OBVIOUS
<1>2. \A k \in 1..Len(s) : Append(s, x)[k] = s[k]
  OBVIOUS
<1>3. Append(s, x)[Len(s) + 1] = x
  OBVIOUS
<1>4. DOMAIN s = 1..Len(s) /\ Len(s) \in Nat
  OBVIOUS
<1>5. Range(Append(s, x)) \subseteq Range(s) \union {x}
  BY <1>1, <1>2, <1>3, <1>4 DEF Range
<1>6. Range(s) \subseteq Range(Append(s, x))
  BY <1>1, <1>2, <1>4 DEF Range
<1>7. x \in Range(Append(s, x))
  BY <1>1, <1>3, <1>4 DEF Range
<1> QED BY <1>1, <1>5, <1>6, <1>7

\* What is at an index is in the range.
LEMMA ElementIsInRange ==
  ASSUME NEW S, NEW s \in Seq(S), NEW k \in 1..Len(s)
  PROVE  s[k] \in S /\ s[k] \in Range(s)
BY DEF Range

----------------------------------------------------------------------------
(* Selection.                                                              *)

\* At the start nobody selects.
LEMMA InitSelect == Init => SelectInv
<1>1. <<>> \in Seq(Backends) /\ Range(<<>>) = {}
  BY RangeOfEmpty
<1>2. selector \in Algorithms \X {1} => selector \in Algorithms \X (1..MaxSelectors)
  BY MaxSelectorsAssumption
<1> QED BY <1>1, <1>2, StartAlgorithmsAssumption
        DEF Init, SelectInv, Domains, HasBest, WitnessesHold, ScanIsFair, FairAt, Steps, Scanning,
            Selecting

\* A change is noted by every scan under way.
LEMMA ChangeNoted ==
  ASSUME SelectInv, NEW flags \in SUBSET Backends, NEW circuits \in SUBSET Backends,
         Change(flags, circuits)
  PROVE  /\ healthy' = flags /\ admitting' = circuits
         /\ wasHealthy' \in [Requests -> SUBSET Backends]
         /\ wasSelectable' \in [Requests -> SUBSET Backends]
         /\ throughout' \in [Requests -> SUBSET Backends]
         /\ \A r \in Requests :
              /\ wasHealthy[r] \subseteq wasHealthy'[r]
              /\ wasSelectable[r] \subseteq wasSelectable'[r]
              /\ throughout'[r] \subseteq throughout[r]
              /\ pc[r] \in Scanning =>
                   /\ throughout'[r] \subseteq eligible' /\ healthy' \subseteq wasHealthy'[r]
                   /\ wasHealthy'[r] \intersect admitting' \subseteq wasSelectable'[r]
BY DEF SelectInv, Domains, Change, eligible

\* A flag or a circuit flips between the steps of the requests.
LEMMA FlipSelect ==
  ASSUME SelectInv, NEW b \in Backends, FlipHealth(b) \/ FlipCircuit(b)
  PROVE  SelectInv'
<1>1. PICK flags \in SUBSET Backends, circuits \in SUBSET Backends : Change(flags, circuits)
  BY DEF FlipHealth, FlipCircuit, Flipped, SelectInv, Domains
<1>2. /\ UNCHANGED <<pc, todo, found>>
      /\ UNCHANGED <<selector, counter, active, ewma, using, best, value, latency, idle, busy,
                     folded>>
  BY DEF FlipHealth, FlipCircuit, Change
<1>3. Domains' /\ HasBest'
  <2>1. /\ healthy' \subseteq Backends /\ admitting' \subseteq Backends
        /\ wasHealthy' \in [Requests -> SUBSET Backends]
        /\ wasSelectable' \in [Requests -> SUBSET Backends]
        /\ throughout' \in [Requests -> SUBSET Backends]
    BY <1>1, ChangeNoted
  <2>2. Domains /\ HasBest
    BY DEF SelectInv
  <2> QED BY <1>2, <2>1, <2>2 DEF Domains, HasBest
<1>4. WitnessesHold'
  BY <1>1, <1>2, ChangeNoted DEF SelectInv, WitnessesHold
<1>5. ScanIsFair'
  <2> SUFFICES ASSUME NEW r \in Requests PROVE FairAt(r)'
    BY DEF ScanIsFair
  <2>1. /\ wasHealthy[r] \subseteq wasHealthy'[r] /\ wasSelectable[r] \subseteq wasSelectable'[r]
        /\ throughout'[r] \subseteq throughout[r]
    BY <1>1, ChangeNoted
  <2>2. FairAt(r)
    BY DEF SelectInv, ScanIsFair
  <2> QED BY <1>2, <2>1, <2>2 DEF FairAt
<1> QED BY <1>3, <1>4, <1>5 DEF SelectInv

\* A step that begins no selection and no scan, and after which what was eligible,
\* idle and busy is as it was, keeps the memory of every selection.
LEMMA MemoryKept ==
  ASSUME WitnessesHold, UNCHANGED <<healthy, admitting, active, witness>>,
         \A s \in Requests : /\ pc'[s] \in Selecting => pc[s] \in Selecting
                             /\ pc'[s] \in Scanning => pc[s] \in Scanning
  PROVE  WitnessesHold'
BY DEF WitnessesHold, witness, seen, eligible

\* A step of r disturbs the scan of no other request.
LEMMA OthersStayFair ==
  ASSUME ScanIsFair, NEW r \in Requests, FairAt(r)',
         \A s \in Requests \ {r} :
           /\ pc'[s] = pc[s] /\ best'[s] = best[s] /\ found'[s] = found[s] /\ todo'[s] = todo[s]
           /\ wasHealthy[s] \subseteq wasHealthy'[s] /\ wasSelectable[s] \subseteq wasSelectable'[s]
           /\ throughout'[s] \subseteq throughout[s]
  PROVE  ScanIsFair'
<1> SUFFICES ASSUME NEW s \in Requests, s # r PROVE FairAt(s)'
  BY DEF ScanIsFair
<1>1. /\ FairAt(s)
      /\ pc'[s] = pc[s] /\ best'[s] = best[s] /\ found'[s] = found[s] /\ todo'[s] = todo[s]
      /\ wasHealthy[s] \subseteq wasHealthy'[s] /\ wasSelectable[s] \subseteq wasSelectable'[s]
      /\ throughout'[s] \subseteq throughout[s]
  BY DEF ScanIsFair
<1> QED BY <1>1 DEF FairAt

\* A selection starts over the whole registry.
LEMMA LoadSelect == ASSUME SelectInv, NEW r \in Requests, LoadSelector(r) PROVE SelectInv'
<1> USE DEF SelectInv, LoadSelector, Goto, Shared, backend
<1>0. Order \in Seq(Backends) /\ Backends = Range(Order)
  BY OrderAssumption DEF Backends
<1>1. Domains' /\ HasBest'
  BY <1>0 DEF Domains, HasBest, Steps, Scanning, Selecting, eligible
<1>2. WitnessesHold'
  <2> SUFFICES ASSUME NEW s \in Requests
               PROVE  /\ pc'[s] \in Scanning =>
                           /\ throughout'[s] \subseteq eligible'
                           /\ healthy' \subseteq wasHealthy'[s]
                           /\ wasHealthy'[s] \intersect admitting' \subseteq wasSelectable'[s]
                      /\ pc'[s] \in Selecting =>
                           /\ \A b \in busy'[s] : active'[b] > 0
                           /\ \A b \in idle'[s] : active'[b] <= 0
    BY DEF WitnessesHold
  <2>1. UNCHANGED <<healthy, admitting, active>>
    OBVIOUS
  <2>2. CASE s = r
    <3>1. /\ wasHealthy'[r] = healthy /\ wasSelectable'[r] = eligible /\ throughout'[r] = eligible
          /\ busy'[r] \subseteq {b \in Backends : Busy(b)}
          /\ idle'[r] \subseteq {b \in Backends : ~Busy(b)}
      BY DEF Domains
    <3>2. \A b \in Backends : ~Busy(b) => active[b] <= 0
      BY DEF Domains, Busy
    <3> QED BY <2>1, <2>2, <3>1, <3>2 DEF Busy, eligible
  <2>3. CASE s # r
    <3>1. /\ pc'[s] = pc[s] /\ wasHealthy'[s] = wasHealthy[s]
          /\ wasSelectable'[s] = wasSelectable[s] /\ throughout'[s] = throughout[s]
          /\ busy'[s] = busy[s] /\ idle'[s] = idle[s]
      BY <2>3 DEF Domains
    <3> QED BY <2>1, <3>1 DEF WitnessesHold, eligible
  <2> QED BY <2>2, <2>3
<1>3. ScanIsFair'
  <2>1. FairAt(r)'
    BY <1>0, RangeOfEmpty DEF Domains, ScanIsFair, FairAt, eligible
  <2>2. \A s \in Requests \ {r} :
          /\ pc'[s] = pc[s] /\ best'[s] = best[s] /\ found'[s] = found[s] /\ todo'[s] = todo[s]
          /\ wasHealthy[s] = wasHealthy'[s] /\ wasSelectable[s] = wasSelectable'[s]
          /\ throughout'[s] = throughout[s]
    BY DEF Domains
  <2> QED BY <2>1, <2>2, OthersStayFair
<1> QED BY <1>1, <1>2, <1>3

\* The backend a scan looks at next.
LEMMA NextIsWalked ==
  ASSUME SelectInv, NEW r \in Requests, todo[r] # <<>>
  PROVE  /\ Head(todo[r]) \in Backends /\ Tail(todo[r]) \in Seq(Backends)
         /\ Range(todo[r]) = {Head(todo[r])} \union Range(Tail(todo[r]))
         /\ Append(found[r], Head(todo[r])) \in Seq(Backends)
         /\ Range(Append(found[r], Head(todo[r]))) = Range(found[r]) \union {Head(todo[r])}
<1>1. /\ Head(todo[r]) \in Backends /\ Tail(todo[r]) \in Seq(Backends)
      /\ Range(todo[r]) = {Head(todo[r])} \union Range(Tail(todo[r]))
  BY RangeOfTail DEF SelectInv, Domains
<1> QED BY <1>1, RangeOfAppend DEF SelectInv, Domains

\* What a step of the scan leaves of everybody, and what it knows of its own request.
ScanStep(r) ==
  /\ todo[r] # <<>> /\ pc[r] \in Scanning /\ pc'[r] \in Scanning
  /\ pc' = [pc EXCEPT ![r] = pc'[r]] /\ todo' = [todo EXCEPT ![r] = todo'[r]]
  /\ found' = [found EXCEPT ![r] = found'[r]]
  /\ todo'[r] \in {todo[r], Tail(todo[r])}
  /\ found'[r] \in {found[r], Append(found[r], Head(todo[r]))}
  /\ UNCHANGED <<selector, counter, active, ewma, folded, using, best, value, latency, idle, busy>>

\* A step of the scan keeps what does not depend on what it finds.
LEMMA ScanDomains ==
  ASSUME SelectInv, NEW r \in Requests, ScanStep(r),
         healthy' \subseteq Backends, admitting' \subseteq Backends,
         wasHealthy' \in [Requests -> SUBSET Backends],
         wasSelectable' \in [Requests -> SUBSET Backends],
         throughout' \in [Requests -> SUBSET Backends]
  PROVE  Domains' /\ HasBest'
<1>1. todo'[r] \in Seq(Backends) /\ found'[r] \in Seq(Backends)
  <2>1. todo[r] \in Seq(Backends) /\ found[r] \in Seq(Backends)
    BY DEF SelectInv, Domains
  <2>2. /\ todo[r] # <<>> /\ todo'[r] \in {todo[r], Tail(todo[r])}
        /\ found'[r] \in {found[r], Append(found[r], Head(todo[r]))}
    BY DEF ScanStep
  <2> QED BY <2>1, <2>2, NextIsWalked
<1>2. /\ pc' \in [Requests -> Steps]
      /\ \A s \in Requests : pc'[s] \in Selecting => pc[s] \in Selecting
  <2>1. /\ pc \in [Requests -> Steps] /\ pc[r] \in Scanning /\ pc'[r] \in Scanning
        /\ pc' = [pc EXCEPT ![r] = pc'[r]]
    BY DEF SelectInv, Domains, ScanStep
  <2>2. Scanning \subseteq Steps /\ Scanning \subseteq Selecting
    BY DEF Scanning, Steps, Selecting
  <2> QED BY <2>1, <2>2
<1>3. todo' \in [Requests -> Seq(Backends)] /\ found' \in [Requests -> Seq(Backends)]
  <2>1. /\ todo \in [Requests -> Seq(Backends)] /\ found \in [Requests -> Seq(Backends)]
        /\ todo' = [todo EXCEPT ![r] = todo'[r]] /\ found' = [found EXCEPT ![r] = found'[r]]
    BY DEF SelectInv, Domains, ScanStep
  <2> QED BY <1>1, <2>1
<1> USE DEF SelectInv, ScanStep
<1>4. Domains'
  BY <1>2, <1>3 DEF Domains
<1>5. HasBest'
  BY DEF Domains, HasBest, Scanning
<1> QED BY <1>4, <1>5

\* The scan asks whether the next backend is healthy, and then for its circuit.
LEMMA ReadSelect ==
  ASSUME SelectInv, NEW r \in Requests, ReadHealth(r) \/ ReadCircuit(r)
  PROVE  SelectInv'
<1>1. UNCHANGED <<healthy, admitting, wasHealthy, wasSelectable, throughout, witness, active>>
  BY DEF ReadHealth, ReadCircuit, SelectKeeps, Shared, backend, witness, seen
<1>2. FairAt(r)
  BY DEF SelectInv, ScanIsFair
<1>3. ScanStep(r)
  <2>1. CASE ReadHealth(r)
    BY <2>1 DEF ReadHealth, Goto, SelectKeeps, Shared, witness, Scanning, ScanStep, SelectInv,
                Domains
  <2>2. CASE ReadCircuit(r)
    BY <1>2, <2>2 DEF ReadCircuit, Goto, SelectKeeps, Shared, witness, Scanning, ScanStep, FairAt,
                      SelectInv, Domains
  <2> QED BY <2>1, <2>2
<1>4. Domains' /\ HasBest'
  BY <1>1, <1>3, ScanDomains DEF SelectInv, Domains
<1>5. WitnessesHold'
  <2>1. \A s \in Requests : /\ pc'[s] \in Selecting => pc[s] \in Selecting
                            /\ pc'[s] \in Scanning => pc[s] \in Scanning
    BY <1>3 DEF ScanStep, Selecting, SelectInv, Domains
  <2> QED BY <1>1, <2>1, MemoryKept DEF SelectInv
<1>6. /\ throughout[r] \subseteq eligible /\ healthy \subseteq wasHealthy[r]
      /\ wasHealthy[r] \intersect admitting \subseteq wasSelectable[r]
      /\ throughout[r] \subseteq Range(found[r]) \union Range(todo[r])
      /\ Range(found[r]) \subseteq wasSelectable[r]
  BY <1>2, <1>3 DEF ScanStep, SelectInv, WitnessesHold, FairAt
<1>7. FairAt(r)'
  <2>1. CASE ReadHealth(r) /\ Head(todo[r]) \in healthy
    <3>1. pc'[r] = "gate" /\ todo'[r] = todo[r] /\ found'[r] = found[r]
      BY <1>3, <2>1 DEF ReadHealth, Goto, SelectInv, Domains
    <3> QED BY <1>1, <1>3, <1>6, <2>1, <3>1 DEF FairAt, ScanStep
  <2>2. CASE ReadHealth(r) /\ Head(todo[r]) \notin healthy
    <3>1. pc'[r] = "scan" /\ todo'[r] = Tail(todo[r]) /\ found'[r] = found[r]
      BY <1>3, <2>2 DEF ReadHealth, Goto, SelectInv, Domains
    <3>2. throughout[r] \subseteq Range(found'[r]) \union Range(todo'[r])
      BY <1>3, <1>6, <2>2, <3>1, NextIsWalked DEF ScanStep, eligible
    <3> QED BY <1>1, <1>6, <3>1, <3>2 DEF FairAt
  <2>3. CASE ReadCircuit(r)
    <3>1. /\ pc[r] = "gate" /\ pc'[r] = "scan" /\ todo'[r] = Tail(todo[r])
          /\ found'[r] = IF Head(todo[r]) \in admitting THEN Append(found[r], Head(todo[r]))
                         ELSE found[r]
      BY <1>3, <2>3 DEF ReadCircuit, Goto, SelectInv, Domains
    <3>2. Head(todo[r]) \in wasHealthy[r]
      BY <1>2, <3>1 DEF FairAt
    <3>3. Range(found'[r]) = IF Head(todo[r]) \in admitting
                             THEN Range(found[r]) \union {Head(todo[r])} ELSE Range(found[r])
      BY <1>3, <3>1, NextIsWalked DEF ScanStep
    <3>4. Range(todo[r]) = {Head(todo[r])} \union Range(todo'[r])
      BY <1>3, <3>1, NextIsWalked DEF ScanStep
    <3>5. /\ Range(found'[r]) \subseteq wasSelectable[r]
          /\ throughout[r] \subseteq Range(found'[r]) \union Range(todo'[r])
      BY <1>6, <3>2, <3>3, <3>4 DEF eligible
    <3> QED BY <1>1, <3>1, <3>5 DEF FairAt
  <2> QED BY <2>1, <2>2, <2>3
<1>8. ScanIsFair'
  <2>1. \A s \in Requests \ {r} :
          pc'[s] = pc[s] /\ best'[s] = best[s] /\ found'[s] = found[s] /\ todo'[s] = todo[s]
    BY <1>3 DEF ScanStep, SelectInv, Domains
  <2> QED BY <1>1, <1>7, <2>1, OthersStayFair DEF SelectInv
<1> QED BY <1>4, <1>5, <1>8 DEF SelectInv

\* The scan promotes the circuit of the next backend, which admits from then on.
LEMMA PromoteSelect ==
  ASSUME SelectInv, NEW r \in Requests, PromoteCircuit(r)
  PROVE  SelectInv'
<1> DEFINE b == Head(todo[r])
<1>1. FairAt(r) /\ pc[r] = "gate"
  BY DEF SelectInv, ScanIsFair, PromoteCircuit, Goto
<1>2. todo[r] # <<>> /\ b \in wasHealthy[r] /\ b \in Backends
  BY <1>1, NextIsWalked DEF FairAt
<1> DEFINE circuits == admitting \union {b}
<1>3. Change(healthy, circuits) /\ healthy \in SUBSET Backends /\ circuits \in SUBSET Backends
  BY <1>2 DEF PromoteCircuit, SelectInv, Domains
<1>4. ScanStep(r) /\ pc'[r] = "scan"
      /\ todo'[r] = Tail(todo[r]) /\ found'[r] = Append(found[r], b)
  BY <1>2 DEF PromoteCircuit, Change, Goto, Scanning, ScanStep, SelectInv, Domains
<1> HIDE DEF circuits
<1>5. /\ healthy' = healthy /\ admitting' = circuits
      /\ wasHealthy' \in [Requests -> SUBSET Backends]
      /\ wasSelectable' \in [Requests -> SUBSET Backends]
      /\ throughout' \in [Requests -> SUBSET Backends]
      /\ \A s \in Requests :
           /\ wasHealthy[s] \subseteq wasHealthy'[s] /\ wasSelectable[s] \subseteq wasSelectable'[s]
           /\ throughout'[s] \subseteq throughout[s]
           /\ pc[s] \in Scanning =>
                /\ throughout'[s] \subseteq eligible' /\ healthy' \subseteq wasHealthy'[s]
                /\ wasHealthy'[s] \intersect admitting' \subseteq wasSelectable'[s]
  BY <1>3, ChangeNoted
<1>6. Domains' /\ HasBest'
  BY <1>3, <1>4, <1>5, ScanDomains
<1>7. WitnessesHold'
  <2>1. /\ UNCHANGED <<active, idle, busy>>
        /\ \A s \in Requests : /\ pc'[s] \in Selecting => pc[s] \in Selecting
                               /\ pc'[s] \in Scanning => pc[s] \in Scanning
    BY <1>4 DEF ScanStep, Selecting, SelectInv, Domains
  <2> QED BY <1>5, <2>1 DEF WitnessesHold, SelectInv
<1>8. FairAt(r)'
  <2>1. b \in wasSelectable'[r]
    BY <1>1, <1>2, <1>5 DEF Scanning, circuits
  <2>2. /\ Range(found'[r]) = Range(found[r]) \union {b}
        /\ Range(todo[r]) = {b} \union Range(todo'[r])
    BY <1>2, <1>4, NextIsWalked
  <2>3. /\ Range(found[r]) \subseteq wasSelectable[r]
        /\ throughout[r] \subseteq Range(found[r]) \union Range(todo[r])
    BY <1>1 DEF FairAt, Scanning
  <2>4. /\ Range(found'[r]) \subseteq wasSelectable'[r]
        /\ throughout'[r] \subseteq Range(found'[r]) \union Range(todo'[r])
    BY <1>5, <2>1, <2>2, <2>3
  <2> QED BY <1>4, <2>4 DEF FairAt
<1>9. ScanIsFair'
  <2>1. \A s \in Requests \ {r} :
          pc'[s] = pc[s] /\ best'[s] = best[s] /\ found'[s] = found[s] /\ todo'[s] = todo[s]
    BY <1>4 DEF ScanStep, SelectInv, Domains
  <2> QED BY <1>5, <1>8, <2>1, OthersStayFair DEF SelectInv
<1> QED BY <1>6, <1>7, <1>9 DEF SelectInv

\* A scan that found nobody refuses.
LEMMA RefuseSelect == ASSUME SelectInv, NEW r \in Requests, NoHealthyBackends(r) PROVE SelectInv'
<1> USE DEF SelectInv, NoHealthyBackends, Goto, SelectKeeps, Shared, backend, witness, seen,
            Scanning
<1>1. Domains' /\ HasBest'
  BY DEF Domains, HasBest, Steps, Selecting
<1>2. WitnessesHold'
  BY DEF Domains, WitnessesHold, Selecting, eligible
<1>3. ScanIsFair'
  BY RangeOfEmpty DEF Domains, ScanIsFair, FairAt
<1> QED BY <1>1, <1>2, <1>3

\* Round robin chooses among those found.
LEMMA TurnSelect == ASSUME SelectInv, NEW r \in Requests, TakeTurn(r) PROVE SelectInv'
<1> USE DEF SelectInv, TakeTurn, Take, Chooses, Goto, backend, Scanning
<1>1. counter' \in [1..MaxSelectors -> Nat]
  <2>1. \A n \in Nat : (n + 1) % Turns \in Nat
    BY TurnsAssumption
  <2> QED BY <2>1 DEF Domains
<1>2. Turn(r) \in Backends /\ Turn(r) \in Range(found[r])
  <2> DEFINE n == Len(found[r])
             c == counter[using[r][2]]
  <2>1. n \in Nat \ {0} /\ found[r] \in Seq(Backends)
    BY DEF Domains
  <2>2. c \in Nat
    BY DEF Domains, Selecting
  <2>3. (c % n) + 1 \in 1..n
    <3> HIDE DEF n, c
    <3> QED BY <2>1, <2>2
  <2> QED BY <2>1, <2>3, ElementIsInRange DEF Turn
<1>3. Domains'
  BY <1>1, <1>2 DEF Domains, Steps, Selecting
<1>4. HasBest'
  BY <1>2, NoneAssumption DEF Domains, HasBest
<1>5. WitnessesHold'
  BY DEF Domains, WitnessesHold, Selecting, eligible
<1>6. ScanIsFair'
  BY <1>2 DEF Domains, ScanIsFair, FairAt
<1> QED BY <1>3, <1>4, <1>5, <1>6

\* The first of those found and the rest.
LEMMA FoundIsWalked ==
  ASSUME SelectInv, NEW r \in Requests, found[r] # <<>>
  PROVE  /\ found[r] \in Seq(Backends) /\ Len(found[r]) \in Nat \ {0}
         /\ found[r][1] \in Backends /\ found[r][1] \in Range(found[r])
         /\ Tail(found[r]) \in Seq(Backends)
         /\ Range(found[r]) = {found[r][1]} \union Range(Tail(found[r]))
<1>1. found[r] \in Seq(Backends) /\ Len(found[r]) \in Nat \ {0} /\ Head(found[r]) = found[r][1]
  BY DEF SelectInv, Domains
<1> QED BY <1>1, RangeOfTail

\* Least connections compares the next count.
LEMMA LeastSelect ==
  ASSUME SelectInv, NEW r \in Requests, FirstCount(r) \/ NextCount(r) \/ LeastFound(r)
  PROVE  SelectInv'
<1> USE DEF SelectInv, Goto, SelectKeeps, ChooseKeeps, Shared, backend, witness, seen, Scanning
<1>1. CASE FirstCount(r)
  <2> USE DEF FirstCount, Chooses
  <2>1. Domains'
    BY <1>1, FoundIsWalked DEF Domains, Steps, Selecting
  <2>2. HasBest'
    BY <1>1, <2>1, FoundIsWalked, NoneAssumption DEF Domains, HasBest
  <2>3. WitnessesHold'
    BY <1>1 DEF Domains, WitnessesHold, Selecting, eligible
  <2>4. ScanIsFair'
    <3>1. Range(todo'[r]) \subseteq Range(found'[r]) /\ best'[r] \in Range(found'[r])
      BY <1>1, FoundIsWalked DEF Domains
    <3> QED BY <1>1, <3>1 DEF Domains, ScanIsFair, FairAt
  <2> QED BY <2>1, <2>2, <2>3, <2>4
<1>2. CASE NextCount(r)
  <2> USE DEF NextCount
  <2>1. /\ Head(todo[r]) \in Backends /\ Tail(todo[r]) \in Seq(Backends)
        /\ Range(todo[r]) = {Head(todo[r])} \union Range(Tail(todo[r]))
    BY <1>2, RangeOfTail DEF Domains
  <2>2. Domains'
    <3>1. active[Head(todo[r])] \in Int
      BY <2>1 DEF Domains
    <3> QED BY <1>2, <2>1, <3>1 DEF Domains, Steps, Selecting
  <2>3. HasBest'
    BY <1>2 DEF Domains, HasBest
  <2>4. WitnessesHold'
    BY <1>2 DEF Domains, WitnessesHold, Selecting, eligible
  <2>5. ScanIsFair'
    <3>1. /\ pc[r] = "least" /\ pc'[r] = "least" /\ todo'[r] = Tail(todo[r])
          /\ best'[r] \in {best[r], Head(todo[r])}
          /\ UNCHANGED <<found, wasHealthy, wasSelectable, throughout>>
          /\ \A s \in Requests \ {r} : pc'[s] = pc[s] /\ best'[s] = best[s] /\ todo'[s] = todo[s]
      BY <1>2 DEF Domains
    <3>2. FairAt(r)
      BY DEF ScanIsFair
    <3>3. FairAt(r)'
      BY ONLY <2>1, <3>1, <3>2 DEF FairAt, Scanning
    <3> QED BY <3>1, <3>3, OthersStayFair
  <2> QED BY <2>2, <2>3, <2>4, <2>5
<1>3. CASE LeastFound(r)
  <2> USE DEF LeastFound
  <2>1. Domains'
    BY <1>3 DEF Domains, Steps, Selecting
  <2>2. best[r] \in Backends
    <3>1. best[r] \in Range(found[r]) /\ found[r] \in Seq(Backends)
      BY <1>3 DEF Domains, ScanIsFair, FairAt
    <3> QED BY <3>1 DEF Range
  <2>3. HasBest'
    BY <1>3, <2>2, NoneAssumption DEF Domains, HasBest
  <2>4. WitnessesHold'
    BY <1>3 DEF Domains, WitnessesHold, Selecting, eligible
  <2>5. ScanIsFair'
    BY <1>3 DEF Domains, ScanIsFair, FairAt
  <2> QED BY <2>1, <2>3, <2>4, <2>5
<1> QED BY <1>1, <1>2, <1>3

\* The power of two choices picks two among those found, and keeps one.
LEMMA ChoicesSelect ==
  ASSUME SelectInv, NEW r \in Requests, OnlyOne(r) \/ Draw(r) \/ Compare(r)
  PROVE  SelectInv'
<1> USE DEF SelectInv, Goto, SelectKeeps, ChooseKeeps, Shared, backend, witness, seen, Scanning
<1>1. CASE OnlyOne(r)
  <2> USE DEF OnlyOne, Chooses
  <2>1. Domains'
    BY <1>1, FoundIsWalked DEF Domains, Steps, Selecting
  <2>2. HasBest'
    BY <1>1, FoundIsWalked, NoneAssumption DEF Domains, HasBest
  <2>3. WitnessesHold'
    BY <1>1 DEF Domains, WitnessesHold, Selecting, eligible
  <2>4. ScanIsFair'
    <3>1. best'[r] \in Range(found'[r])
      BY <1>1, FoundIsWalked DEF Domains
    <3> QED BY <1>1, <3>1 DEF Domains, ScanIsFair, FairAt
  <2> QED BY <2>1, <2>2, <2>3, <2>4
<1>2. CASE Draw(r)
  <2> USE DEF Draw, Chooses
  <2>1. PICK i, j \in DOMAIN found[r] :
          /\ best' = [best EXCEPT ![r] = found[r][i]]
          /\ value' = [value EXCEPT ![r] = ewma[found[r][i]]]
          /\ todo' = [todo EXCEPT ![r] = <<found[r][j]>>]
    BY <1>2
  <2>2. /\ found[r][i] \in Backends /\ found[r][i] \in Range(found[r])
        /\ found[r][j] \in Backends /\ found[r][j] \in Range(found[r])
    <3>1. found[r] \in Seq(Backends)
      BY DEF Domains
    <3>2. DOMAIN found[r] = 1..Len(found[r])
      BY <3>1
    <3> QED BY <3>1, <3>2, ElementIsInRange
  <2>3. ewma[found[r][i]] \in Int
    BY <2>2 DEF Domains
  <2>4. /\ <<found[r][j]>> \in Seq(Backends) /\ <<found[r][j]>> # <<>>
        /\ Range(<<found[r][j]>>) \subseteq Range(found[r])
    BY <2>2 DEF Range
  <2>5. Domains'
    BY <1>2, <2>1, <2>2, <2>3, <2>4 DEF Domains, Steps, Selecting
  <2>6. HasBest'
    BY <1>2, <2>1 DEF Domains, HasBest
  <2>7. WitnessesHold'
    BY <1>2 DEF Domains, WitnessesHold, Selecting, eligible
  <2>8. ScanIsFair'
    BY <1>2, <2>1, <2>2, <2>4 DEF Domains, ScanIsFair, FairAt
  <2> QED BY <2>5, <2>6, <2>7, <2>8
<1>3. CASE Compare(r)
  <2> USE DEF Compare
  <2>1. /\ Head(todo[r]) \in Backends /\ Range(todo[r]) \subseteq Range(found[r])
        /\ Head(todo[r]) \in Range(todo[r]) /\ best[r] \in Range(found[r])
    BY <1>3, RangeOfTail DEF Domains, ScanIsFair, FairAt
  <2>2. best'[r] \in Range(found[r]) /\ best'[r] \in Backends
    <3>1. Range(found[r]) \subseteq Backends
      BY DEF Domains, Range
    <3> QED BY <1>3, <2>1, <3>1 DEF Domains
  <2>3. Domains'
    <3>1. best' \in [Requests -> Backends \union {None}]
      BY <1>3, <2>2 DEF Domains
    <3>2. todo' \in [Requests -> Seq(Backends)]
      BY <1>3 DEF Domains
    <3>3. /\ pc' \in [Requests -> Steps]
          /\ \A s \in Requests : pc'[s] \in Selecting => pc[s] \in Selecting
      BY <1>3 DEF Domains, Steps, Selecting
    <3>4. UNCHANGED <<selector, counter, backend, active, using, found, value, latency, seen, idle,
                      busy, ewma, folded>>
      BY <1>3
    <3> QED BY <3>1, <3>2, <3>3, <3>4 DEF Domains
  <2>4. HasBest'
    <3>1. best'[r] # None
      BY <2>2, NoneAssumption
    <3> QED BY <1>3, <3>1 DEF Domains, HasBest
  <2>5. WitnessesHold'
    BY <1>3 DEF Domains, WitnessesHold, Selecting, eligible
  <2>6. ScanIsFair'
    BY <1>3, <2>2 DEF Domains, ScanIsFair, FairAt
  <2> QED BY <2>3, <2>4, <2>5, <2>6
<1> QED BY <1>1, <1>2, <1>3

----------------------------------------------------------------------------
(* What becomes of the request.                                            *)

\* A denied request gives up.
LEMMA DenySelect == ASSUME SelectInv, NEW r \in Requests, Deny(r) PROVE SelectInv'
<1> USE DEF SelectInv, Deny, Forget, Goto, Shared, backend, Scanning
<1>1. Domains' /\ HasBest'
  <2>1. <<>> \in Seq(Backends)
    OBVIOUS
  <2>2. /\ todo' \in [Requests -> Seq(Backends)] /\ found' \in [Requests -> Seq(Backends)]
        /\ best' \in [Requests -> Backends \union {None}] /\ value' \in [Requests -> Int]
    BY <2>1 DEF Domains
  <2>3. /\ wasHealthy' \in [Requests -> SUBSET Backends]
        /\ wasSelectable' \in [Requests -> SUBSET Backends]
        /\ throughout' \in [Requests -> SUBSET Backends]
        /\ idle' \in [Requests -> SUBSET Backends] /\ busy' \in [Requests -> SUBSET Backends]
    BY DEF Domains
  <2>4. /\ pc' \in [Requests -> Steps] /\ pc'[r] = "start" /\ DOMAIN using' = Requests
        /\ \A s \in Requests : pc'[s] \in Selecting => s # r
        /\ \A s \in Requests \ {r} : pc'[s] = pc[s] /\ using'[s] = using[s] /\ best'[s] = best[s]
    BY DEF Domains, Steps, Selecting
  <2> QED BY <2>2, <2>3, <2>4 DEF Domains, HasBest
<1>2. WitnessesHold'
  BY DEF Domains, WitnessesHold, Selecting, eligible
<1>3. ScanIsFair'
  <2>1. /\ pc'[r] = "start" /\ found'[r] = <<>>
        /\ \A s \in Requests \ {r} :
             /\ pc'[s] = pc[s] /\ best'[s] = best[s] /\ found'[s] = found[s] /\ todo'[s] = todo[s]
             /\ wasHealthy'[s] = wasHealthy[s] /\ wasSelectable'[s] = wasSelectable[s]
             /\ throughout'[s] = throughout[s]
    BY DEF Domains
  <2>2. FairAt(r)'
    BY <2>1, RangeOfEmpty DEF FairAt
  <2> QED BY <2>1, <2>2, OthersStayFair
<1> QED BY <1>1, <1>2, <1>3

\* A request takes its slot.
LEMMA IncActiveSelect == ASSUME SelectInv, NEW r \in Requests, IncActive(r) PROVE SelectInv'
<1> USE DEF SelectInv, IncActive, Forget, Goto, backend, Scanning
<1>1. best[r] \in Backends
  BY DEF Domains, HasBest
<1>2. Domains'
  <2>1. active' \in [Backends -> Int]
    BY <1>1 DEF Domains
  <2>2. /\ todo' \in [Requests -> Seq(Backends)] /\ found' \in [Requests -> Seq(Backends)]
        /\ value' \in [Requests -> Int]
    BY DEF Domains
  <2>3. /\ wasHealthy' \in [Requests -> SUBSET Backends]
        /\ wasSelectable' \in [Requests -> SUBSET Backends]
        /\ throughout' \in [Requests -> SUBSET Backends]
        /\ busy' \in [Requests -> SUBSET Backends]
    BY DEF Domains
  <2>4. idle' \in [Requests -> SUBSET Backends]
    BY DEF Domains
  <2>5. /\ pc' \in [Requests -> Steps] /\ DOMAIN using' = Requests
        /\ \A s \in Requests : pc'[s] \in Selecting => pc[s] \in Selecting /\ using'[s] = using[s]
    BY DEF Domains, Steps, Selecting
  <2> QED BY <2>1, <2>2, <2>3, <2>4, <2>5 DEF Domains
<1>3. HasBest'
  BY DEF Domains, HasBest
<1>4. ASSUME NEW s \in Requests, pc'[s] \in Selecting
      PROVE  /\ \A b \in busy'[s] : active'[b] > 0
             /\ \A b \in idle'[s] : active'[b] <= 0
  <2>1. s # r /\ pc[s] \in Selecting
    BY <1>4 DEF Domains, Selecting
  <2>2. idle'[s] = idle[s] \ {best[r]} /\ busy'[s] = busy[s]
    BY <2>1 DEF Domains
  <2>3. \A b \in Backends : active'[b] = IF b = best[r] THEN active[b] + 1 ELSE active[b]
    BY <1>1 DEF Domains
  <2>4. busy[s] \subseteq Backends /\ idle[s] \subseteq Backends
    BY DEF Domains
  <2> QED BY <1>1, <2>1, <2>2, <2>3, <2>4 DEF Domains, WitnessesHold
<1>5. WitnessesHold'
  <2>1. ASSUME NEW s \in Requests, pc'[s] \in Scanning
        PROVE  /\ pc[s] \in Scanning /\ s # r
               /\ UNCHANGED <<healthy, admitting, wasHealthy[s], wasSelectable[s], throughout[s]>>
    BY <2>1 DEF Domains
  <2> QED BY <1>4, <2>1 DEF WitnessesHold, eligible
<1>6. ScanIsFair'
  <2>1. /\ pc'[r] = "active" /\ found'[r] = <<>> /\ best' = best
        /\ \A s \in Requests \ {r} :
             /\ pc'[s] = pc[s] /\ found'[s] = found[s] /\ todo'[s] = todo[s]
             /\ wasHealthy'[s] = wasHealthy[s] /\ wasSelectable'[s] = wasSelectable[s]
             /\ throughout'[s] = throughout[s]
    BY DEF Domains
  <2>2. FairAt(r)'
    BY <2>1, RangeOfEmpty DEF FairAt
  <2> QED BY <2>1, <2>2, OthersStayFair
<1> QED BY <1>2, <1>3, <1>5, <1>6

\* A latency is folded in.
LEMMA LatencySelect ==
  ASSUME SelectInv, NEW r \in Requests, RoundTrip(r) \/ SwapLatency(r) \/ RetryLatency(r)
  PROVE  SelectInv'
<1> USE DEF SelectInv, RoundTrip, SwapLatency, RetryLatency, Record, Goto, Shared, backend, witness,
            seen, Scanning
<1>1. best[r] \in Backends
  BY DEF Domains, HasBest
<1>2. Domains'
  <2>1. ewma[best[r]] \in Nat
    BY <1>1 DEF Domains
  <2>2. \A d \in Latencies : d \in Nat
    BY LatenciesAssumption
  <2>3. CASE RoundTrip(r) \/ RetryLatency(r)
    <3>1. latency' \in [Requests -> Nat]
      <4>1. latency \in [Requests -> Nat]
        BY DEF Domains
      <4>2. ASSUME RoundTrip(r) PROVE \E d \in Nat : latency' = [latency EXCEPT ![r] = d]
        BY <2>2, <4>2
      <4>3. ASSUME RetryLatency(r) PROVE latency' = latency
        BY <4>3
      <4> QED BY <2>3, <4>1, <4>2, <4>3
    <3>2. value' \in [Requests -> Int]
      BY <2>1, <2>3 DEF Domains
    <3>3. UNCHANGED <<selector, counter, backend, active, using, todo, found, best, seen, idle,
                      busy, ewma, folded>>
      BY <2>3
    <3>4. /\ pc' \in [Requests -> Steps]
          /\ \A s \in Requests : pc'[s] \in Selecting => pc[s] \in Selecting
      BY <2>3 DEF Domains, Steps, Selecting
    <3> QED BY <3>1, <3>2, <3>3, <3>4 DEF Domains
  <2>4. CASE SwapLatency(r)
    <3>1. Fold(value[r], latency[r]) \in Nat /\ value[r] = folded[best[r]]
      BY <1>1, <2>1, <2>4 DEF Domains, Fold
    <3> HIDE DEF Fold
    <3>2. ewma' \in [Backends -> Nat] /\ folded' = ewma'
      BY <2>4, <3>1 DEF Domains
    <3>3. latency' \in [Requests -> Nat] /\ value' \in [Requests -> Int]
      BY <2>4 DEF Domains
    <3>4. UNCHANGED <<selector, counter, backend, active, using, todo, found, best, seen, idle,
                      busy>>
      BY <2>4
    <3>5. /\ pc' \in [Requests -> Steps]
          /\ \A s \in Requests : pc'[s] \in Selecting => pc[s] \in Selecting
      BY <2>4 DEF Domains, Steps, Selecting
    <3> QED BY <3>2, <3>3, <3>4, <3>5 DEF Domains
  <2> QED BY <2>3, <2>4
<1>3. HasBest'
  BY DEF Domains, HasBest
<1>4. WitnessesHold'
  <2>1. \A s \in Requests : /\ pc'[s] \in Selecting => pc[s] \in Selecting
                            /\ pc'[s] \in Scanning => pc[s] \in Scanning
    BY DEF Domains, Selecting
  <2> QED BY <2>1, MemoryKept
<1>5. ScanIsFair'
  <2>1. /\ pc[r] \in {"active", "swap"} /\ pc'[r] \in {"swap", "release"}
        /\ UNCHANGED <<wasHealthy, wasSelectable, throughout, found, todo, best>>
        /\ \A s \in Requests \ {r} : pc'[s] = pc[s]
    BY DEF Domains
  <2>2. FairAt(r)'
    BY ONLY <2>1, ScanIsFair DEF ScanIsFair, FairAt
  <2> QED BY <2>1, <2>2, OthersStayFair
<1> QED BY <1>2, <1>3, <1>4, <1>5

\* A request gives its slot back.
LEMMA ReleaseSelect == ASSUME SelectInv, NEW r \in Requests, Release(r) PROVE SelectInv'
<1> USE DEF SelectInv, Release, Goto, backend, seen, Scanning
<1>1. best[r] \in Backends
  BY DEF Domains, HasBest
<1>2. active' = [active EXCEPT ![best[r]] = @ - 1]
      /\ busy' = [s \in Requests |-> IF pc[s] \in Selecting /\ active'[best[r]] = 0
                                      THEN busy[s] \ {best[r]} ELSE busy[s]]
  OBVIOUS
<1>3. Domains' /\ HasBest'
  <2>1. active' \in [Backends -> Int] /\ best' \in [Requests -> Backends \union {None}]
    BY <1>1, <1>2 DEF Domains
  <2>2. busy' \in [Requests -> SUBSET Backends]
    BY <1>2 DEF Domains
  <2>3. /\ pc' \in [Requests -> Steps]
        /\ \A s \in Requests : pc'[s] \in Selecting => pc[s] \in Selecting
    BY DEF Domains, Steps, Selecting

  <2> QED BY <2>1, <2>2, <2>3 DEF Domains, HasBest
<1>4. ASSUME NEW s \in Requests, pc'[s] \in Selecting
      PROVE  /\ \A b \in busy'[s] : active'[b] > 0
             /\ \A b \in idle'[s] : active'[b] <= 0
  <2>1. pc[s] \in Selecting /\ idle'[s] = idle[s]
    BY <1>4 DEF Domains, Selecting
  <2>2. \A b \in Backends : active'[b] = IF b = best[r] THEN active[b] - 1 ELSE active[b]
    BY <1>1, <1>2 DEF Domains
  <2>3. /\ busy[s] \subseteq Backends /\ idle[s] \subseteq Backends
        /\ active \in [Backends -> Int]
    BY DEF Domains
  <2>4. /\ \A b \in busy[s] : active[b] > 0
        /\ \A b \in idle[s] : active[b] <= 0
    BY <2>1 DEF WitnessesHold
  <2>5. \A b \in busy'[s] : b \in busy[s] /\ (b = best[r] => active'[b] # 0)
    BY <1>2, <2>1
  <2>6. \A b \in busy'[s] : active'[b] > 0
    BY <1>1, <2>2, <2>3, <2>4, <2>5
  <2>7. \A b \in idle'[s] : active'[b] <= 0
    BY <1>1, <2>1, <2>2, <2>3, <2>4
  <2> QED BY <2>4, <2>6, <2>7
<1>5. WitnessesHold'
  <2>1. ASSUME NEW s \in Requests, pc'[s] \in Scanning
        PROVE  /\ pc[s] \in Scanning /\ s # r
               /\ UNCHANGED <<healthy, admitting, wasHealthy[s], wasSelectable[s], throughout[s]>>
    BY <2>1 DEF Domains
  <2> QED BY <1>4, <2>1 DEF WitnessesHold, eligible
<1>6. ScanIsFair'
  <2>1. /\ pc[r] \in {"active", "release"} /\ pc'[r] = "start"
        /\ UNCHANGED <<wasHealthy, wasSelectable, throughout, found, todo>>
        /\ \A s \in Requests \ {r} : pc'[s] = pc[s] /\ best'[s] = best[s]
    BY DEF Domains
  <2>2. FairAt(r)'
    BY <2>1 DEF ScanIsFair, FairAt
  <2> QED BY <2>1, <2>2, OthersStayFair
<1> QED BY <1>3, <1>5, <1>6

----------------------------------------------------------------------------
(* The theorems.                                                           *)

\* Every step keeps the memory of the selections.
LEMMA StepSelect == ASSUME SelectInv, [Next]_vars PROVE SelectInv'
<1>1. CASE UNCHANGED vars
  BY <1>1 DEF vars, backend, local, witness, seen, SelectInv, Domains, HasBest, WitnessesHold,
              ScanIsFair, FairAt, eligible
<1>2. CASE (\E b \in Backends : FlipHealth(b)) \/ \E b \in Tripping : FlipCircuit(b)
  BY <1>2, FlipSelect, TrippingAssumption
<1>3. CASE \E a \in Algorithms : SetSelector(a)
  <2>1. selector' \in Algorithms \X (1..MaxSelectors)
    BY <1>3, MaxSelectorsAssumption DEF SetSelector, SelectInv, Domains
  <2>2. UNCHANGED <<backend, counter, active, ewma, pc, local, witness, folded>>
    BY <1>3 DEF SetSelector
  <2> QED BY <2>1, <2>2
          DEF backend, local, witness, seen, SelectInv, Domains, HasBest, WitnessesHold, ScanIsFair,
              FairAt, eligible
<1>4. ASSUME NEW r \in Requests, Select(r) PROVE SelectInv'
  BY <1>4, LoadSelect, ReadSelect, PromoteSelect, RefuseSelect, TurnSelect, LeastSelect,
      ChoicesSelect
     DEF Select
<1>5. ASSUME NEW r \in Requests, Serve(r) PROVE SelectInv'
  BY <1>5, DenySelect, IncActiveSelect, LatencySelect, ReleaseSelect DEF Serve
<1> QED BY <1>1, <1>2, <1>3, <1>4, <1>5 DEF Next

\* What a selection remembers of its scan is what was so during it.
THEOREM SelectionsHold == Spec => []SelectInv
BY InitSelect, StepSelect, PTL DEF Spec

\* A request is given a backend whose circuit was not open at some moment of its
\* selection, and that was healthy at that moment or an earlier one.
THEOREM ChosenWasHealthyThenAdmitted == Spec => []ChosenWasSelectable
<1>1. ASSUME SelectInv PROVE ChosenWasSelectable
  BY <1>1 DEF SelectInv, ScanIsFair, FairAt, ChosenWasSelectable
<1> QED BY <1>1, SelectionsHold, PTL

\* A request is refused only if no backend was eligible throughout it.
THEOREM RefusalIsFair == Spec => []NoFalseRefusal
<1>1. ASSUME SelectInv PROVE NoFalseRefusal
  BY <1>1 DEF SelectInv, ScanIsFair, FairAt, NoFalseRefusal
<1> QED BY <1>1, SelectionsHold, PTL

\* What a request compares stays as it was, but for idle and busy backends that
\* are no longer so.
ComparesAlike(s) ==
  /\ pc'[s] = pc[s] /\ using'[s] = using[s] /\ best'[s] = best[s] /\ value'[s] = value[s]
  /\ found'[s] = found[s] /\ todo'[s] = todo[s]
  /\ busy'[s] \subseteq busy[s] /\ idle'[s] \subseteq idle[s]

\* A step of r disturbs what no other request compares.
LEMMA OthersStayLeast ==
  ASSUME LeastIsKept, NEW r \in Requests, LeastAt(r)',
         \A s \in Requests \ {r} : ComparesAlike(s)
  PROVE  LeastIsKept'
<1> SUFFICES ASSUME NEW s \in Requests, s # r PROVE LeastAt(s)'
  BY DEF LeastIsKept
<1>1. LeastAt(s) /\ ComparesAlike(s)
  BY DEF LeastIsKept
<1> QED BY <1>1 DEF LeastAt, ComparesAlike

\* What is kept of each request.
LEMMA KeptPerRequest ==
  ASSUME SelectInv
  PROVE  /\ DOMAIN pc = Requests /\ DOMAIN using = Requests /\ DOMAIN todo = Requests
         /\ DOMAIN found = Requests /\ DOMAIN best = Requests /\ DOMAIN value = Requests
         /\ DOMAIN idle = Requests /\ DOMAIN busy = Requests
BY DEF SelectInv, Domains

\* Every step of a selection keeps the least count.
LEMMA SelectLeast ==
  ASSUME SelectInv, LeastIsKept, NEW r \in Requests, Select(r)
  PROVE  LeastIsKept'
<1> USE KeptPerRequest DEF Goto
<1>0. LeastAt(r)
  BY DEF LeastIsKept
<1>1. CASE \/ LoadSelector(r) \/ ReadHealth(r) \/ ReadCircuit(r) \/ PromoteCircuit(r)
           \/ NoHealthyBackends(r)
  <2>1. pc'[r] \in {"scan", "gate", "refused"} /\ \A s \in Requests \ {r} : ComparesAlike(s)
    <3> USE DEF ComparesAlike
    <3>1. CASE LoadSelector(r)
      BY <3>1 DEF LoadSelector
    <3>2. CASE ReadHealth(r)
      BY <3>2 DEF ReadHealth, SelectKeeps, witness
    <3>3. CASE ReadCircuit(r)
      BY <3>3 DEF ReadCircuit, SelectKeeps, witness
    <3>4. CASE PromoteCircuit(r)
      BY <3>4 DEF PromoteCircuit, Change
    <3>5. CASE NoHealthyBackends(r)
      BY <3>5 DEF NoHealthyBackends, SelectKeeps, witness
    <3> QED BY <1>1, <3>1, <3>2, <3>3, <3>4, <3>5
  <2>2. LeastAt(r)'
    BY <2>1 DEF LeastAt
  <2> QED BY <2>1, <2>2, OthersStayLeast
<1>2. CASE TakeTurn(r) \/ OnlyOne(r) \/ Draw(r) \/ Compare(r)
  <2>1. /\ pc'[r] \in {"compare", "chosen"} /\ using'[r][1] \in {"round_robin", "p2c_ewma"}
        /\ pc'[r] = "compare" => using'[r][1] = "p2c_ewma"
        /\ \A s \in Requests \ {r} : ComparesAlike(s)
    <3> USE DEF ComparesAlike
    <3>1. CASE TakeTurn(r)
      BY <3>1 DEF TakeTurn, Take, Chooses
    <3>2. CASE OnlyOne(r)
      BY <3>2 DEF OnlyOne, Chooses, ChooseKeeps
    <3>3. CASE Draw(r)
      BY <3>3 DEF Draw, Chooses, ChooseKeeps
    <3>4. CASE Compare(r)
      BY <1>0, <3>4 DEF Compare, LeastAt, SelectKeeps, witness
    <3> QED BY <1>2, <3>1, <3>2, <3>3, <3>4
  <2>2. LeastAt(r)'
    BY <2>1 DEF LeastAt
  <2> QED BY <2>1, <2>2, OthersStayLeast
<1>3. CASE FirstCount(r)
  <2>1. /\ pc[r] = "scan" /\ pc'[r] = "least" /\ using' = using /\ found' = found
        /\ best'[r] = found[r][1] /\ value'[r] = active[found[r][1]]
        /\ todo'[r] = Tail(found[r]) /\ found[r] # <<>> /\ UNCHANGED <<idle, busy>>
        /\ \A s \in Requests \ {r} : ComparesAlike(s)
    BY <1>3 DEF FirstCount, Chooses, ChooseKeeps, ComparesAlike
  <2>2. found[r] \in Seq(Backends)
    BY DEF SelectInv, Domains
  <2>3. \A b \in Range(found[r]) : b = found[r][1] \/ b \in Range(todo'[r])
    BY <2>1, <2>2, FoundIsWalked
  <2>4. /\ \A b \in busy[r] : active[b] > 0
        /\ \A b \in idle[r] : active[b] <= 0
    BY <2>1 DEF SelectInv, WitnessesHold, Scanning, Selecting
  <2>5. LeastAt(r)'
    BY <2>1, <2>3, <2>4 DEF LeastAt
  <2> QED BY <2>1, <2>5, OthersStayLeast
<1>4. CASE NextCount(r)
  <2> DEFINE b0 == Head(todo[r])
  <2>1. /\ pc[r] = "least" /\ pc'[r] = "least" /\ todo'[r] = Tail(todo[r]) /\ todo[r] # <<>>
        /\ best'[r] = IF active[b0] < value[r] THEN b0 ELSE best[r]
        /\ value'[r] = IF active[b0] < value[r] THEN active[b0] ELSE value[r]
        /\ UNCHANGED <<found, using, idle, busy>>
    BY <1>4 DEF NextCount, SelectKeeps, witness
  <2>2. todo[r] \in Seq(Backends) /\ value[r] \in Int /\ active \in [Backends -> Int]
    BY DEF SelectInv, Domains
  <2>3. /\ b0 \in Backends /\ active[b0] \in Int
        /\ Range(todo[r]) = {b0} \union Range(Tail(todo[r]))
    BY <2>1, <2>2, RangeOfTail
  <2>4. /\ \A b \in busy[r] : active[b] > 0
        /\ \A b \in idle[r] : active[b] <= 0
    BY <2>1 DEF SelectInv, WitnessesHold, Selecting
  <2> HIDE DEF b0
  <2>5. LeastAt(r)'
    BY <1>0, <2>1, <2>2, <2>3, <2>4 DEF LeastAt
  <2>6. ASSUME NEW s \in Requests \ {r} PROVE ComparesAlike(s)
    <3>1. pc'[s] = pc[s] /\ todo'[s] = todo[s] /\ best'[s] = best[s] /\ value'[s] = value[s]
      BY <1>4 DEF NextCount
    <3> QED BY <2>1, <3>1 DEF ComparesAlike
  <2> QED BY <2>5, <2>6, OthersStayLeast
<1>5. CASE LeastFound(r)
  <2>1. /\ pc[r] = "least" /\ pc'[r] = "chosen" /\ todo[r] = <<>>
        /\ UNCHANGED <<todo, found, best, value, using, idle, busy>>
        /\ \A s \in Requests \ {r} : ComparesAlike(s)
    BY <1>5 DEF LeastFound, SelectKeeps, witness, ComparesAlike
  <2>2. LeastAt(r)'
    BY <1>0, <2>1, RangeOfEmpty DEF LeastAt
  <2> QED BY <2>1, <2>2, OthersStayLeast
<1> QED BY <1>1, <1>2, <1>3, <1>4, <1>5 DEF Select

\* So does every step of a request that has chosen.
LEMMA ServeLeast ==
  ASSUME SelectInv, LeastIsKept, NEW r \in Requests, Serve(r)
  PROVE  LeastIsKept'
<1> USE KeptPerRequest DEF Goto
<1>1. pc'[r] \in {"start", "active", "swap", "release"}
      /\ \A s \in Requests \ {r} : ComparesAlike(s)
  <2> USE DEF ComparesAlike
  <2>1. CASE Deny(r)
    BY <2>1 DEF Deny, Forget
  <2>2. CASE IncActive(r)
    BY <2>2 DEF IncActive, Forget
  <2>3. CASE RoundTrip(r)
    BY <2>3 DEF RoundTrip, witness
  <2>4. CASE SwapLatency(r)
    BY <2>4 DEF SwapLatency, Record, witness
  <2>5. CASE RetryLatency(r)
    BY <2>5 DEF RetryLatency, witness
  <2>6. CASE Release(r)
    BY <2>6 DEF Release
  <2> QED BY <2>1, <2>2, <2>3, <2>4, <2>5, <2>6 DEF Serve
<1>2. LeastAt(r)'
  BY <1>1 DEF LeastAt
<1> QED BY <1>1, <1>2, OthersStayLeast

\* Every step keeps the least count.
LEMMA StepLeast == ASSUME SelectInv, LeastIsKept, [Next]_vars PROVE LeastIsKept'
<1>1. CASE UNCHANGED <<pc, local, idle, busy>>
  BY <1>1 DEF local, LeastIsKept, LeastAt
<1>2. CASE UNCHANGED vars
  BY <1>1, <1>2 DEF vars, witness
<1>3. ASSUME NEW b \in Backends, FlipHealth(b) \/ FlipCircuit(b) PROVE LeastIsKept'
  BY <1>1, <1>3 DEF FlipHealth, FlipCircuit, Change, local
<1>4. ASSUME NEW a \in Algorithms, SetSelector(a) PROVE LeastIsKept'
  BY <1>1, <1>4 DEF SetSelector, witness
<1> QED BY <1>2, <1>3, <1>4, SelectLeast, ServeLeast, TrippingAssumption DEF Next

\* Least connections prefers whoever was idle throughout to whoever was busy.
THEOREM IdleIsPreferred == Spec => []IdleNotPassedOver
<1>1. Init => LeastIsKept
  BY DEF Init, LeastIsKept, LeastAt
<1>2. ASSUME SelectInv, LeastIsKept PROVE IdleNotPassedOver
  <2> SUFFICES ASSUME NEW r \in Requests, pc[r] = "chosen",
                      using[r][1] = "least_connections", best[r] \in busy[r],
                      NEW b \in Range(found[r]) \intersect idle[r]
               PROVE  FALSE
    BY DEF IdleNotPassedOver
  <2>1. value[r] > 0 /\ value[r] <= 0 /\ value[r] \in Int
    BY <1>2 DEF LeastIsKept, LeastAt, SelectInv, Domains
  <2> QED BY <2>1
<1> QED BY <1>1, <1>2, SelectionsHold, StepLeast, PTL DEF Spec

\* The swaps fold every sample into the estimate once.
THEOREM SamplesAreFolded == Spec => []SamplesFoldedOnce
<1>1. ASSUME SelectInv PROVE SamplesFoldedOnce
  BY <1>1 DEF SelectInv, Domains, SamplesFoldedOnce
<1> QED BY <1>1, SelectionsHold, PTL


----------------------------------------------------------------------------
(* The turns of round robin.                                               *)

\* A set of naturals has a least member.
LEMMA LeastOf ==
  ASSUME NEW T \in SUBSET Nat, T # {}
  PROVE  \E x \in T : \A y \in T : x <= y
<1> DEFINE R == OpToRel(<, Nat)
<1>1. IsWellFoundedOn(R, Nat)
  BY NatLessThanWellFounded
<1>2. \A x, y \in Nat : <<y, x>> \in R <=> y < x
  BY DEF OpToRel
<1> HIDE DEF R
<1>3. PICK x \in T : \A y \in T : ~(<<y, x>> \in R)
  BY <1>1, WFMin
<1>4. \A y \in T : x <= y
  <2> TAKE y \in T
  <2>1. ~(y < x) /\ x \in Nat /\ y \in Nat
    BY <1>2, <1>3
  <2> QED BY <2>1
<1> QED BY <1>3, <1>4

\* s holds those of the first k backends of the registry that are in E, in order.
IsListing(s, k, E) ==
  /\ s \in Seq(Backends) /\ Len(s) <= k
  /\ Range(s) = {Order[i] : i \in 1..k} \intersect E
  /\ \A i, j \in 1..Len(s), a, b \in 1..Len(Order) :
       i < j /\ s[i] = Order[a] /\ s[j] = Order[b] => a < b

\* No two slots of the registry hold the same backend.
LEMMA OrderIsOneToOne ==
  ASSUME NEW i \in 1..Len(Order), NEW j \in 1..Len(Order), Order[i] = Order[j]
  PROVE  i = j
<1>1. DOMAIN Order = 1..Len(Order)
  BY OrderAssumption
<1> QED BY <1>1, OrderAssumption DEF IsInjective

\* The scan of one more backend.
LEMMA ListingGrows ==
  ASSUME NEW s, NEW E, NEW k \in 0..(Len(Order) - 1), IsListing(s, k, E),
         NEW t, t = IF Order[k + 1] \in E THEN Append(s, Order[k + 1]) ELSE s
  PROVE  IsListing(t, k + 1, E)
<1> DEFINE b == Order[k + 1]
<1>0. /\ s \in Seq(Backends) /\ Len(s) \in Nat /\ b \in Backends
      /\ Len(Order) \in Nat /\ k + 1 \in 1..Len(Order) /\ DOMAIN Order = 1..Len(Order)
  BY OrderAssumption DEF IsListing
<1>1. {Order[i] : i \in 1..(k + 1)} = {Order[i] : i \in 1..k} \union {b}
  BY <1>0
<1>2. CASE b \notin E
  BY <1>0, <1>1, <1>2 DEF IsListing
<1>3. CASE b \in E
  <2>1. t \in Seq(Backends) /\ Range(t) = Range(s) \union {b}
    BY <1>0, <1>3, RangeOfAppend
  <2>2. /\ Len(t) = Len(s) + 1 /\ t[Len(s) + 1] = b
        /\ \A i \in 1..Len(s) : t[i] = s[i]
    BY <1>0, <1>3
  <2>3. Range(t) = {Order[i] : i \in 1..(k + 1)} \intersect E
    BY <1>1, <1>3, <2>1 DEF IsListing
  <2>4. ASSUME NEW i \in 1..Len(t), NEW j \in 1..Len(t), NEW x \in 1..Len(Order),
               NEW y \in 1..Len(Order), i < j, t[i] = Order[x], t[j] = Order[y]
        PROVE  x < y
    <3>1. i \in 1..Len(s) /\ t[i] = s[i] /\ s[i] \in Range(s)
      BY <1>0, <2>2, <2>4, ElementIsInRange
    <3>2. CASE j \in 1..Len(s)
      BY <2>2, <2>4, <3>1, <3>2 DEF IsListing
    <3>3. CASE j = Len(s) + 1
      <4>1. y = k + 1
        <5>1. Order[y] = Order[k + 1] /\ k + 1 \in 1..Len(Order)
          BY <1>0, <2>2, <2>4, <3>3
        <5> QED BY <5>1, <2>4, OrderIsOneToOne
      <4>2. PICK z \in 1..k : Order[z] = t[i]
        BY <3>1 DEF IsListing
      <4>3. x = z
        <5>1. z \in 1..Len(Order) /\ Order[x] = Order[z]
          BY <1>0, <2>4, <4>2
        <5> QED BY <5>1, <2>4, OrderIsOneToOne
      <4> QED BY <4>1, <4>2, <4>3
    <3> QED BY <1>0, <2>2, <3>2, <3>3
  <2>5. Len(t) <= k + 1
    BY <1>0, <2>2 DEF IsListing
  <2> QED BY <2>1, <2>3, <2>4, <2>5 DEF IsListing
<1> QED BY <1>2, <1>3

\* No backend is listed twice.
LEMMA ListingIsInjective ==
  ASSUME NEW s, NEW E, NEW k \in 0..Len(Order), IsListing(s, k, E),
         NEW i \in 1..Len(s), NEW j \in 1..Len(s), s[i] = s[j]
  PROVE  i = j
<1>1. s \in Seq(Backends) /\ Len(s) \in Nat /\ Len(Order) \in Nat /\ DOMAIN Order = 1..Len(Order)
  BY OrderAssumption DEF IsListing
<1>2. PICK a \in 1..Len(Order) : s[i] = Order[a]
  <2>1. s[i] \in Backends
    BY <1>1, ElementIsInRange
  <2> QED BY <1>1, <2>1 DEF Backends, Range
<1>3. \A x, y \in 1..Len(s), b, c \in 1..Len(Order) :
         x < y /\ s[x] = Order[b] /\ s[y] = Order[c] => b < c
  BY DEF IsListing
<1>4. a \in Int /\ ~(a < a) /\ s[j] = Order[a]
  BY <1>1, <1>2
<1>5. ~(i < j)
  BY <1>2, <1>3, <1>4
<1>6. ~(j < i)
  BY <1>2, <1>3, <1>4
<1> QED BY <1>1, <1>5, <1>6

\* Two listings are alike before slot n.
Alike(s, t, n) == \A i \in 1..(n - 1) : i \in 1..Len(s) /\ i \in 1..Len(t) /\ s[i] = t[i]

\* What s has at slot n comes no sooner in the registry than what t has there.
NoSooner(s, t, n) == \A a, b \in 1..Len(Order) : s[n] = Order[a] /\ t[n] = Order[b] => b <= a

\* What one listing has, another has no later than where they first differ.
LEMMA ListingMatches ==
  ASSUME NEW s, NEW t, NEW E, NEW k \in 0..Len(Order), IsListing(s, k, E), IsListing(t, k, E),
         NEW n \in 1..Len(s), Alike(s, t, n)
  PROVE  n \in 1..Len(t) /\ NoSooner(s, t, n)
<1>1. /\ s \in Seq(Backends) /\ t \in Seq(Backends) /\ Len(s) \in Nat /\ Len(t) \in Nat
      /\ Len(Order) \in Nat /\ DOMAIN Order = 1..Len(Order)
  BY OrderAssumption DEF IsListing
<1>2. s[n] \in Range(t)
  BY <1>1, ElementIsInRange DEF IsListing
<1>3. PICK j \in 1..Len(t) : t[j] = s[n]
  BY <1>1, <1>2 DEF Range
<1>4. ~(j < n)
  <2> SUFFICES ASSUME j < n PROVE FALSE
    OBVIOUS
  <2>1. s[j] = s[n] /\ j \in 1..Len(s)
    BY <1>1, <1>3 DEF Alike
  <2> QED BY <2>1, ListingIsInjective, <1>1
<1>5. n \in 1..Len(t)
  BY <1>1, <1>3, <1>4
<1>6. ASSUME NEW a \in 1..Len(Order), NEW b \in 1..Len(Order), s[n] = Order[a], t[n] = Order[b]
      PROVE  b <= a
  <2>1. CASE j = n
    <3>1. Order[a] = Order[b]
      BY <1>3, <1>6, <2>1
    <3>2. a = b
      BY <1>6, <3>1, OrderIsOneToOne
    <3> QED BY <1>6, <3>2
  <2>2. CASE n < j
    <3>1. b < a
      BY <1>3, <1>5, <1>6, <2>2 DEF IsListing
    <3> QED BY <3>1, <1>1
  <2> QED BY <1>1, <1>4, <2>1, <2>2
<1> QED BY <1>5, <1>6 DEF NoSooner

\* Two scans of the same set find the same sequence.
LEMMA ListingIsUnique ==
  ASSUME NEW s, NEW t, NEW E, NEW k \in 0..Len(Order), IsListing(s, k, E), IsListing(t, k, E)
  PROVE  s = t
<1>1. /\ s \in Seq(Backends) /\ t \in Seq(Backends) /\ Len(s) \in Nat /\ Len(t) \in Nat
      /\ Len(Order) \in Nat /\ DOMAIN Order = 1..Len(Order)
  BY OrderAssumption DEF IsListing
<1> DEFINE Differ == {i \in Nat \ {0} :
                        /\ i <= Len(s) \/ i <= Len(t)
                        /\ ~(i <= Len(s) /\ i <= Len(t) /\ s[i] = t[i])}
<1>2. CASE Differ = {}
  <2>1. Len(s) = Len(t)
    BY <1>1, <1>2
  <2>2. \A i \in 1..Len(s) : s[i] = t[i]
    BY <1>1, <1>2, <2>1
  <2> QED BY <1>1, <2>1, <2>2
<1>3. CASE Differ # {}
  <2>1. PICK n \in Differ : \A i \in Differ : n <= i
    <3>1. Differ \in SUBSET Nat
      OBVIOUS
    <3> HIDE DEF Differ
    <3> QED BY <1>3, <3>1, LeastOf
  <2>2. n \in Nat /\ n >= 1
    OBVIOUS
  <2>3. Alike(s, t, n) /\ Alike(t, s, n)
    <3> SUFFICES ASSUME NEW i \in 1..(n - 1)
                 PROVE  i \in 1..Len(s) /\ i \in 1..Len(t) /\ s[i] = t[i]
      BY DEF Alike
    <3>1. i \in Nat /\ i >= 1 /\ i < n /\ i \notin Differ
      BY <2>1, <2>2
    <3>2. i <= Len(s) \/ i <= Len(t)
      BY <1>1, <2>1, <2>2, <3>1
    <3> QED BY <1>1, <3>1, <3>2
  <2> HIDE DEF Differ
  <2>4. n <= Len(s) => n \in 1..Len(t) /\ s[n] = t[n]
    <3> SUFFICES ASSUME n <= Len(s) PROVE n \in 1..Len(t) /\ s[n] = t[n]
      OBVIOUS
    <3>1. n \in 1..Len(s)
      BY <1>1, <2>2
    <3>2. n \in 1..Len(t) /\ NoSooner(s, t, n)
      BY <2>3, <3>1, ListingMatches
    <3>3. NoSooner(t, s, n)
      BY <2>3, <3>2, ListingMatches
    <3>4. PICK a \in 1..Len(Order), b \in 1..Len(Order) : s[n] = Order[a] /\ t[n] = Order[b]
      <4>1. s[n] \in Backends /\ t[n] \in Backends
        BY <1>1, <3>1, <3>2, ElementIsInRange
      <4> QED BY <1>1, <4>1 DEF Backends, Range
    <3>5. a <= b /\ b <= a
      BY <3>2, <3>3, <3>4 DEF NoSooner
    <3>6. a = b
      BY <1>1, <3>4, <3>5
    <3> QED BY <3>2, <3>4, <3>6
  <2>5. n <= Len(t) => n \in 1..Len(s)
    <3> SUFFICES ASSUME n <= Len(t) PROVE n \in 1..Len(s)
      OBVIOUS
    <3>1. n \in 1..Len(t)
      BY <1>1, <2>2
    <3> QED BY <2>3, <3>1, ListingMatches
  <2>6. n <= Len(s) \/ n <= Len(t)
    BY DEF Differ
  <2>7. n \notin Differ
    BY <1>1, <2>2, <2>4, <2>5 DEF Differ
  <2> QED BY <2>1, <2>7
<1> QED BY <1>2, <1>3


\* Slot q, counted from 0, is among the m of n that come before slot p in the round.
InWindow(q, p, m, n) == (q < p /\ p - q <= m) \/ (p <= q /\ p + n - q <= m)

Phase(n) == counter[selector[2]] % n

\* The turns w are those of the last backends of the listing L before slot p.
IsWindow(w, L, p) ==
  /\ w \in [Backends -> {0, 1}]
  /\ \E m \in Nat :
       /\ m = 0 \/ m < Len(L)
       /\ \A b \in Backends :
            w[b] = 1 <=> \E i \in 1..Len(L) : L[i] = b /\ InWindow(i - 1, p, m, Len(L))

\* The turns counted are those of the last backends before the counter.
TurnsAreWindow ==
  /\ turns \in [Backends -> {0, 1}]
  /\ \A L : IsListing(L, Len(Order), eligible) => IsWindow(turns, L, Phase(Len(L)))

\* What a scan has found of the eligible set, which has not changed since it began.
ScanLists(r) ==
  \E k \in 0..Len(Order) :
    /\ Len(todo[r]) = Len(Order) - k
    /\ \A i \in 1..Len(todo[r]) : todo[r][i] = Order[k + i]
    /\ IsListing(found[r], k, eligible)

ScansList ==
  \A r \in Requests \ skewed :
    pc[r] \in Scanning /\ using[r][1] = "round_robin" =>
      /\ ScanLists(r)
      /\ pc[r] = "gate" => Head(todo[r]) \in healthy

\* A selector is told from the others by when it was built.
SelectorsDiffer ==
  \A r \in Requests :
    pc[r] \in Selecting =>
      /\ using[r][2] <= selector[2]
      /\ using[r][2] = selector[2] => using[r] = selector

TurnInv == TurnsAreWindow /\ ScansList /\ SelectorsDiffer

\* Division with remainder.
LEMMA DivMod ==
  ASSUME NEW a \in Int, NEW n \in Int, n > 0
  PROVE  a = (a \div n) * n + (a % n) /\ a \div n \in Int /\ a % n \in 0..(n - 1)
<1>1. a = (a \div n) * n + (a % n)
  BY Z3
<1> QED BY <1>1

\* The remainder of the counter by n advances by one and wraps, since n divides
\* the number the counter itself is kept modulo.
LEMMA PhaseAdvances ==
  ASSUME NEW t \in Int, NEW n \in Int, t > 0, n > 0, t % n = 0, NEW c \in Nat
  PROVE  /\ c % n \in 0..(n - 1)
         /\ ((c + 1) % t) % n = IF c % n = n - 1 THEN 0 ELSE (c % n) + 1
<1> DEFINE u == c % n
           d == (c + 1) % t
           v == d % n
           x == c \div n
           k == (c + 1) \div t
           q == t \div n
           y == d \div n
<1>1. c = x * n + u /\ x \in Int /\ u \in 0..(n - 1)
  BY DivMod
<1>2. c + 1 = k * t + d /\ k \in Int /\ d \in Int
  BY DivMod
<1>3. t = q * n /\ q \in Int
  BY DivMod
<1>4. d = y * n + v /\ y \in Int /\ v \in 0..(n - 1)
  BY <1>2, DivMod
<1> HIDE DEF u, d, v, x, k, q, y
<1>5. k * t = (k * q) * n /\ k * q \in Int
  BY <1>2, <1>3, Z3
<1> DEFINE z == k * q
           w == x - z - y
<1>6. w \in Int /\ w * n = x * n - z * n - y * n
  BY <1>1, <1>4, <1>5, Z3
<1>7. w * n = v - (u + 1)
  <2> HIDE DEF w, z
  <2> QED BY <1>1, <1>2, <1>4, <1>5, <1>6 DEF z
<1> HIDE DEF w, z
<1>8. w < 1
  <2> SUFFICES ASSUME w >= 1 PROVE FALSE
    BY <1>6
  <2>1. w * n >= n
    BY <1>6, Z3
  <2> QED BY <1>1, <1>4, <1>7, <2>1
<1>9. w > -2
  <2> SUFFICES ASSUME w <= -2 PROVE FALSE
    BY <1>6
  <2>1. w * n <= -2 * n
    BY <1>6, Z3
  <2> QED BY <1>1, <1>4, <1>7, <2>1
<1>10. v = IF u = n - 1 THEN 0 ELSE u + 1
  <2>1. CASE w = 0
    BY <1>1, <1>4, <1>7, <2>1
  <2>2. CASE w = -1
    BY <1>1, <1>4, <1>7, <2>2
  <2> QED BY <1>6, <1>8, <1>9, <2>1, <2>2
<1> QED BY ONLY <1>1, <1>10 DEF u, v, d

\* With no turn counted the window is empty.
LEMMA NoTurnsIsWindow ==
  ASSUME turns' = NoTurns, counter'[selector'[2]] \in Nat
  PROVE  TurnsAreWindow'
<1>1. turns' \in [Backends -> {0, 1}] /\ \A b \in Backends : turns'[b] = 0
  BY DEF NoTurns
<1>2. ASSUME NEW L, IsListing(L, Len(Order), eligible'), NEW i \in 1..Len(L)
      PROVE  ~InWindow(i - 1, Phase(Len(L))', 0, Len(L))
  <2>1. Len(L) \in Int /\ Len(L) > 0
    BY <1>2 DEF IsListing
  <2>2. Phase(Len(L))' \in 0..(Len(L) - 1)
    BY <2>1, DivMod DEF Phase
  <2> QED BY <2>1, <2>2 DEF InWindow
<1> QED BY <1>1, <1>2 DEF TurnsAreWindow, IsWindow

\* The window depends on the counter, the turns and the eligible set alone.
LEMMA WindowRest ==
  ASSUME TurnsAreWindow, UNCHANGED <<turns, healthy, admitting>>,
         counter'[selector'[2]] = counter[selector[2]]
  PROVE  TurnsAreWindow'
<1>1. \A n : Phase(n)' = Phase(n)
  BY DEF Phase
<1> QED BY <1>1 DEF TurnsAreWindow, eligible

\* What a scan lists is settled by what it has found and has still to look at.
LEMMA ScanRests ==
  ASSUME NEW s, ScanLists(s), UNCHANGED <<healthy, admitting>>,
         found'[s] = found[s], todo'[s] = todo[s]
  PROVE  ScanLists(s)'
BY DEF ScanLists, eligible

\* A step that begins no scan and scans nothing.
LEMMA ScansRest ==
  ASSUME ScansList, SelectorsDiffer, UNCHANGED <<healthy, admitting, selector>>,
         \A s \in Requests :
           /\ pc'[s] \in Selecting => pc[s] \in Selecting /\ using'[s] = using[s]
           /\ pc'[s] \in Scanning => /\ pc'[s] = pc[s] /\ (s \in skewed => s \in skewed')
                                      /\ found'[s] = found[s] /\ todo'[s] = todo[s]
  PROVE  ScansList' /\ SelectorsDiffer'
<1>1. SelectorsDiffer'
  BY DEF SelectorsDiffer
<1>2. ASSUME NEW s \in Requests \ skewed', pc'[s] \in Scanning, using'[s][1] = "round_robin"
      PROVE  ScanLists(s)' /\ (pc'[s] = "gate" => Head(todo'[s]) \in healthy')
  <2>1. /\ s \in Requests \ skewed /\ pc'[s] = pc[s] /\ using'[s] = using[s]
        /\ found'[s] = found[s] /\ todo'[s] = todo[s]
    BY <1>2 DEF Selecting
  <2>2. ScanLists(s) /\ (pc[s] = "gate" => Head(todo[s]) \in healthy)
    BY <1>2, <2>1 DEF ScansList
  <2> QED BY <2>1, <2>2, ScanRests
<1> QED BY <1>1, <1>2 DEF ScansList

\* A selection begins: nothing is scanned yet.
LEMMA LoadTurn ==
  ASSUME SelectInv, TurnInv, NEW r \in Requests, LoadSelector(r)
  PROVE  TurnInv'
<1> USE KeptPerRequest DEF TurnInv
<1>1. /\ UNCHANGED <<healthy, admitting, selector, counter, turns, skewed, found>>
      /\ pc[r] = "start" /\ pc'[r] = "scan" /\ using'[r] = selector /\ todo'[r] = Order
      /\ \A s \in Requests \ {r} : pc'[s] = pc[s] /\ using'[s] = using[s] /\ todo'[s] = todo[s]
  BY DEF LoadSelector, Goto, Shared, backend, rotation
<1>2. TurnsAreWindow'
  BY <1>1, WindowRest
<1>3. selector[2] \in Nat
  BY DEF SelectInv, Domains
<1>4. SelectorsDiffer'
  BY <1>1, <1>3 DEF SelectorsDiffer
<1>5. ScanLists(r)'
  <2>1. found'[r] = <<>>
    BY <1>1 DEF SelectInv, ScanIsFair, FairAt
  <2>2. IsListing(<<>>, 0, eligible)
    BY RangeOfEmpty DEF IsListing
  <2>3. Len(Order) \in Nat /\ 0 \in 0..Len(Order) /\ Len(Order) = Len(Order) - 0
    BY OrderAssumption
  <2>4. Order \in Seq(Backends)
    BY OrderAssumption
  <2>5. \A i \in 1..Len(Order) : Order[i] = Order[0 + i]
    BY <2>3
  <2> QED BY <1>1, <2>1, <2>2, <2>3, <2>5 DEF ScanLists, eligible
<1>6. ASSUME NEW s \in Requests \ skewed', s # r, pc'[s] \in Scanning, using'[s][1] = "round_robin"
      PROVE  ScanLists(s)' /\ (pc'[s] = "gate" => Head(todo'[s]) \in healthy')
  <2>1. ScanLists(s) /\ (pc[s] = "gate" => Head(todo[s]) \in healthy)
    BY <1>1, <1>6 DEF ScansList
  <2> QED BY <1>1, <1>6, <2>1, ScanRests
<1>7. ScansList'
  <2> SUFFICES ASSUME NEW s \in Requests \ skewed', pc'[s] \in Scanning,
                      using'[s][1] = "round_robin"
               PROVE  ScanLists(s)' /\ (pc'[s] = "gate" => Head(todo'[s]) \in healthy')
    BY DEF ScansList
  <2>1. CASE s = r
    BY <1>1, <1>5, <2>1
  <2>2. CASE s # r
    BY <1>6, <2>2
  <2> QED BY <2>1, <2>2
<1> QED BY <1>2, <1>4, <1>7

\* The scan of an unskewed request goes on to the next backend of the registry.
LEMMA ScanGoesOn ==
  ASSUME SelectInv, NEW r \in Requests, ScanLists(r), UNCHANGED <<healthy, admitting>>,
         todo[r] # <<>>, todo'[r] = Tail(todo[r]),
         found'[r] = IF Head(todo[r]) \in eligible THEN Append(found[r], Head(todo[r]))
                     ELSE found[r]
  PROVE  ScanLists(r)'
<1>1. PICK k \in 0..Len(Order) :
        /\ Len(todo[r]) = Len(Order) - k
        /\ \A i \in 1..Len(todo[r]) : todo[r][i] = Order[k + i]
        /\ IsListing(found[r], k, eligible)
  BY DEF ScanLists
<1>2. /\ todo[r] \in Seq(Backends) /\ Len(todo[r]) \in Nat /\ Len(todo[r]) > 0
      /\ Len(Order) \in Nat
  <2>1. todo[r] \in Seq(Backends)
    BY DEF SelectInv, Domains
  <2>2. Len(Order) \in Nat
    BY OrderAssumption
  <2> QED BY <2>1, <2>2
<1>3. k + 1 \in 0..Len(Order) /\ k \in 0..(Len(Order) - 1)
  BY <1>1, <1>2
<1>4. /\ Len(Tail(todo[r])) = Len(todo[r]) - 1 /\ Head(todo[r]) = todo[r][1]
      /\ \A i \in 1..(Len(todo[r]) - 1) : Tail(todo[r])[i] = todo[r][i + 1]
  BY <1>2
<1>5. Head(todo[r]) = Order[k + 1]
  BY <1>1, <1>2, <1>4
<1>6. IsListing(found'[r], k + 1, eligible)
  BY <1>1, <1>3, <1>5, ListingGrows
<1>7. Len(todo'[r]) = Len(Order) - (k + 1)
  BY <1>1, <1>2, <1>4
<1>8. ASSUME NEW i \in 1..Len(todo'[r]) PROVE todo'[r][i] = Order[(k + 1) + i]
  <2>1. i + 1 \in 1..Len(todo[r]) /\ i \in 1..(Len(todo[r]) - 1)
    BY <1>2, <1>4
  <2>2. todo[r][i + 1] = Order[k + (i + 1)] /\ k + (i + 1) = (k + 1) + i
    BY <1>1, <1>3, <2>1
  <2> QED BY <1>4, <2>1, <2>2
<1> QED BY <1>3, <1>6, <1>7, <1>8 DEF ScanLists, eligible

\* A step of the scan that changes no circuit: the reads, of which an unskewed
\* request's find the eligible set.
LEMMA ReadTurn ==
  ASSUME SelectInv, TurnInv, NEW r \in Requests, ReadHealth(r) \/ ReadCircuit(r)
  PROVE  TurnInv'
<1> USE KeptPerRequest DEF TurnInv
<1>1. /\ UNCHANGED <<healthy, admitting, selector, counter, turns, skewed, using>>
      /\ \A s \in Requests \ {r} : pc'[s] = pc[s] /\ found'[s] = found[s] /\ todo'[s] = todo[s]
  BY DEF ReadHealth, ReadCircuit, Goto, SelectKeeps, Shared, backend, rotation
<1>2. pc[r] \in Scanning /\ todo[r] # <<>>
  BY DEF ReadHealth, ReadCircuit, Goto, Scanning, SelectInv, ScanIsFair, FairAt
<1>3. TurnsAreWindow'
  BY <1>1, WindowRest
<1>4. SelectorsDiffer'
  BY <1>1, <1>2 DEF SelectorsDiffer, Selecting
<1>5. ASSUME r \notin skewed, using[r][1] = "round_robin"
      PROVE  ScanLists(r)' /\ (pc'[r] = "gate" => Head(todo'[r]) \in healthy')
  <2>1. ScanLists(r) /\ (pc[r] = "gate" => Head(todo[r]) \in healthy)
    BY <1>2, <1>5 DEF ScansList
  <2>2. CASE ReadHealth(r) /\ Head(todo[r]) \in healthy
    <3>1. todo'[r] = todo[r] /\ found'[r] = found[r]
      BY <2>2 DEF ReadHealth
    <3> QED BY <1>1, <2>1, <2>2, <3>1, ScanRests
  <2>3. CASE ReadHealth(r) /\ Head(todo[r]) \notin healthy
    <3>1. pc'[r] = "scan" /\ todo'[r] = Tail(todo[r]) /\ found'[r] = found[r]
      BY <2>3 DEF ReadHealth, Goto
    <3>2. Head(todo[r]) \notin eligible
      BY <2>3 DEF eligible
    <3> QED BY <1>1, <1>2, <2>1, <3>1, <3>2, ScanGoesOn
  <2>4. CASE ReadCircuit(r)
    <3>1. /\ pc[r] = "gate" /\ pc'[r] = "scan" /\ todo'[r] = Tail(todo[r])
          /\ found'[r] = IF Head(todo[r]) \in admitting THEN Append(found[r], Head(todo[r]))
                         ELSE found[r]
      BY <2>4 DEF ReadCircuit, Goto
    <3>2. Head(todo[r]) \in admitting <=> Head(todo[r]) \in eligible
      BY <2>1, <3>1 DEF eligible
    <3>3. found'[r] = IF Head(todo[r]) \in eligible THEN Append(found[r], Head(todo[r]))
                      ELSE found[r]
      BY <3>1, <3>2
    <3> QED BY <1>1, <1>2, <2>1, <3>1, <3>3, ScanGoesOn
  <2> QED BY <2>2, <2>3, <2>4
<1>6. ASSUME NEW s \in Requests \ skewed', s # r, pc'[s] \in Scanning, using'[s][1] = "round_robin"
      PROVE  ScanLists(s)' /\ (pc'[s] = "gate" => Head(todo'[s]) \in healthy')
  <2>1. ScanLists(s) /\ (pc[s] = "gate" => Head(todo[s]) \in healthy)
    BY <1>1, <1>6 DEF ScansList
  <2> QED BY <1>1, <1>6, <2>1, ScanRests
<1> QED BY <1>1, <1>3, <1>4, <1>5, <1>6 DEF ScansList

\* A flag or a circuit changes: the count of turns begins again.
LEMMA ChangeTurn ==
  ASSUME SelectInv, TurnInv, NEW flags, NEW circuits, Change(flags, circuits),
         \A s \in Requests : /\ pc'[s] \in Scanning => pc[s] \in Scanning
                             /\ pc'[s] \in Selecting => pc[s] \in Selecting
  PROVE  TurnInv'
<1>1. selector[2] \in 1..MaxSelectors /\ counter \in [1..MaxSelectors -> Nat]
  BY DEF SelectInv, Domains
<1>2. /\ UNCHANGED <<selector, counter, using>> /\ turns' = NoTurns
      /\ skewed' = {r \in Requests : pc[r] \in Scanning /\ using[r][1] = "round_robin"}
  BY DEF Change
<1>3. TurnsAreWindow'
  <2>1. counter'[selector'[2]] \in Nat
    BY <1>1, <1>2
  <2> QED BY <1>2, <2>1, NoTurnsIsWindow
<1>4. ScansList'
  BY <1>2 DEF ScansList
<1>5. SelectorsDiffer'
  BY <1>2 DEF SelectorsDiffer, TurnInv
<1> QED BY <1>3, <1>4, <1>5 DEF TurnInv

\* A turn taken of slot p moves the window on.
LEMMA WindowAdvances ==
  ASSUME NEW n \in Nat, NEW p \in 0..(n - 1), NEW q \in 0..(n - 1), NEW m \in Nat, m < n,
         NEW s, s = IF p = n - 1 THEN 0 ELSE p + 1
  PROVE  /\ s \in 0..(n - 1)
         /\ ~InWindow(p, p, m, n)
         /\ ~InWindow(q, s, 0, n)
         /\ ~InWindow(s, s, m, n)
         /\ m + 1 = n => q = p \/ InWindow(q, p, m, n)
         /\ m + 1 < n => (InWindow(q, s, m + 1, n) <=> q = p \/ InWindow(q, p, m, n))
<1>1. s \in 0..(n - 1)
  OBVIOUS
<1>2. ~InWindow(p, p, m, n) /\ ~InWindow(q, s, 0, n) /\ ~InWindow(s, s, m, n)
  BY <1>1 DEF InWindow
<1>3. m + 1 = n => q = p \/ InWindow(q, p, m, n)
  BY DEF InWindow
<1>4. ASSUME m + 1 < n
      PROVE  InWindow(q, s, m + 1, n) <=> q = p \/ InWindow(q, p, m, n)
  <2>1. CASE p = n - 1
    BY <1>4, <2>1 DEF InWindow
  <2>2. CASE p # n - 1
    BY <1>4, <2>2 DEF InWindow
  <2> QED BY <2>1, <2>2
<1> QED BY <1>1, <1>2, <1>3, <1>4

\* The turns w once b of the eligible set E has one more (CountTurn).
TurnTaken(w, b, E) ==
  LET taken == [w EXCEPT ![b] = @ + 1]
  IN IF \A e \in E : taken[e] > 0
     THEN [e \in Backends |-> IF e \in E THEN taken[e] - 1 ELSE 0]
     ELSE taken

\* A turn taken of the backend at the slot moves the window on.
LEMMA WindowMoves ==
  ASSUME NEW E \in SUBSET Backends, NEW L, IsListing(L, Len(Order), E),
         NEW n, n = Len(L), n > 0, NEW p \in 0..(n - 1), NEW w, IsWindow(w, L, p),
         NEW s, s = IF p = n - 1 THEN 0 ELSE p + 1
  PROVE  IsWindow(TurnTaken(w, L[p + 1], E), L, s)
<1>1. PICK taken : taken = [w EXCEPT ![L[p + 1]] = @ + 1]
  OBVIOUS
<1>3. PICK v : v = IF \A b \in E : taken[b] > 0
                   THEN [b \in Backends |-> IF b \in E THEN taken[b] - 1 ELSE 0]
                   ELSE taken
  OBVIOUS
<1>2. L \in Seq(Backends) /\ E \subseteq Backends
  BY DEF IsListing
<1>4. n \in Nat /\ n > 0
  BY <1>2
<1>5. p \in Nat /\ p \in 0..(n - 1) /\ p < n
  BY <1>4
<1>6. L[p + 1] \in Backends /\ p + 1 \in 1..n
  <2>1. p + 1 \in 1..n
    BY <1>4, <1>5
  <2> QED BY <1>2, <2>1, ElementIsInRange
<1>7. PICK m \in Nat :
        /\ m < n
        /\ \A b \in Backends :
             w[b] = 1 <=> \E i \in 1..n : L[i] = b /\ InWindow(i - 1, p, m, n)
  BY <1>4 DEF IsWindow
<1>8. w \in [Backends -> {0, 1}]
  BY DEF IsWindow
<1>9. s \in 0..(n - 1) /\ \A q \in 0..(n - 1) :
        /\ ~InWindow(p, p, m, n)
        /\ ~InWindow(q, s, 0, n)
        /\ ~InWindow(s, s, m, n)
        /\ m + 1 = n => q = p \/ InWindow(q, p, m, n)
        /\ m + 1 < n => (InWindow(q, s, m + 1, n) <=> q = p \/ InWindow(q, p, m, n))
        /\ m + 1 < n => ~InWindow(s, s, m + 1, n)
  <2>1. s = IF p = n - 1 THEN 0 ELSE p + 1
    OBVIOUS
  <2>2. ASSUME m + 1 < n PROVE ~InWindow(s, s, m + 1, n)
    <3>1. m + 1 \in Nat /\ p \in 0..(n - 1)
      BY <1>5
    <3> QED BY <1>4, <2>1, <2>2, <3>1, WindowAdvances
  <2>3. m \in Nat /\ m < n /\ n \in Nat
    BY <1>4, <1>7
  <2>4. s \in 0..(n - 1)
    BY <1>5, <2>1
  <2>5. ASSUME NEW q \in 0..(n - 1)
        PROVE  /\ ~InWindow(p, p, m, n)
               /\ ~InWindow(q, s, 0, n)
               /\ ~InWindow(s, s, m, n)
               /\ m + 1 = n => q = p \/ InWindow(q, p, m, n)
               /\ m + 1 < n => (InWindow(q, s, m + 1, n) <=> q = p \/ InWindow(q, p, m, n))
    BY ONLY <1>5, <2>1, <2>3, <2>5, WindowAdvances
  <2> QED BY <2>2, <2>4, <2>5
<1>10. \A i, j \in 1..n : L[i] = L[j] => i = j
  <2>1. Len(Order) \in 0..Len(Order)
    BY OrderAssumption
  <2> QED BY <2>1, ListingIsInjective
<1>11. w[L[p + 1]] = 0
  <2> SUFFICES ASSUME w[L[p + 1]] = 1 PROVE FALSE
    BY <1>6, <1>8
  <2>1. PICK i \in 1..n : L[i] = L[p + 1] /\ InWindow(i - 1, p, m, n)
    BY <1>6, <1>7
  <2>2. i - 1 = p
    BY <1>4, <1>5, <1>6, <1>10, <2>1
  <2> QED BY <1>5, <1>9, <2>1, <2>2
\* Whom the window and the turn together name.
<1>12. /\ taken \in [Backends -> {0, 1}]
       /\ \A b \in Backends :
            taken[b] = 1 <=> \E i \in 1..n : L[i] = b /\ (i - 1 = p \/ InWindow(i - 1, p, m, n))
  <2>1. /\ taken[L[p + 1]] = 1 /\ DOMAIN taken = Backends
        /\ \A b \in Backends : b # L[p + 1] => taken[b] = w[b]
    BY <1>1, <1>6, <1>8, <1>11
  <2>2. taken \in [Backends -> {0, 1}]
    BY <1>1, <1>6, <1>8, <1>11
  <2>3. ASSUME NEW b \in Backends
        PROVE  taken[b] = 1 <=> \E i \in 1..n : L[i] = b /\ (i - 1 = p \/ InWindow(i - 1, p, m, n))
    <3>1. CASE b = L[p + 1]
      <4>1. p + 1 - 1 = p
        BY <1>5
      <4> QED BY <1>6, <2>1, <3>1, <4>1
    <3>2. CASE b # L[p + 1]
      <4>1. \A i \in 1..n : L[i] = b => i - 1 # p
        BY <1>4, <1>5, <3>2
      <4> QED BY <1>7, <2>1, <3>2, <4>1
    <3> QED BY <3>1, <3>2
  <2> QED BY <2>2, <2>3
<1>13. \A b \in E : \E i \in 1..n : L[i] = b
  <2>1. Range(L) = {Order[i] : i \in 1..Len(Order)} \intersect E
    BY DEF IsListing
  <2>2. E \subseteq {Order[i] : i \in 1..Len(Order)}
    BY <1>2, OrderAssumption DEF Backends, Range
  <2> QED BY <1>2, <2>1, <2>2 DEF Range
<1>14. \A i \in 1..n : L[i] \in E
  <2>1. \A i \in 1..n : L[i] \in Range(L)
    BY <1>2 DEF Range
  <2> QED BY <2>1 DEF IsListing
<1>15. /\ v \in [Backends -> {0, 1}]
       /\ \E k \in Nat :
            /\ k = 0 \/ k < n
            /\ \A b \in Backends :
                 v[b] = 1 <=> \E i \in 1..n : L[i] = b /\ InWindow(i - 1, s, k, n)
  <2>1. CASE m + 1 = n
    <3>1. \A b \in E : taken[b] = 1
      <4> SUFFICES ASSUME NEW b \in E PROVE taken[b] = 1
        OBVIOUS
      <4>1. PICK i \in 1..n : L[i] = b
        BY <1>13
      <4>2. i - 1 \in 0..(n - 1)
        BY <1>4
      <4> QED BY <1>2, <1>9, <1>12, <2>1, <4>1, <4>2
    <3>2. v = [b \in Backends |-> IF b \in E THEN taken[b] - 1 ELSE 0]
      BY <1>3, <3>1
    <3>3. v \in [Backends -> {0, 1}] /\ \A b \in Backends : v[b] = 0
      BY <3>1, <3>2
    <3>4. \A i \in 1..n : ~InWindow(i - 1, s, 0, n)
      <4> TAKE i \in 1..n
      <4>1. i - 1 \in 0..(n - 1)
        BY <1>4
      <4> QED BY <1>9, <4>1
    <3> QED BY <3>3, <3>4
  <2>2. CASE m + 1 < n
    <3>1. s + 1 \in 1..n /\ s + 1 - 1 = s
      BY <1>4, <1>9
    <3>2. ~InWindow(s, p, m, n) /\ s # p
      BY <1>9, <2>2
    <3>3. taken[L[s + 1]] = 0
      <4> SUFFICES ASSUME taken[L[s + 1]] = 1 PROVE FALSE
        BY <1>2, <1>12, <1>14, <3>1
      <4>1. PICK i \in 1..n : L[i] = L[s + 1] /\ (i - 1 = p \/ InWindow(i - 1, p, m, n))
        BY <1>2, <1>12, <1>14, <3>1
      <4>2. i = s + 1
        BY <1>10, <3>1, <4>1
      <4> QED BY <3>1, <3>2, <4>1, <4>2
    <3>4. v = taken
      BY <1>3, <1>14, <3>1, <3>3
    <3>5. \A i \in 1..n :
            InWindow(i - 1, s, m + 1, n) <=> i - 1 = p \/ InWindow(i - 1, p, m, n)
      <4> TAKE i \in 1..n
      <4>1. i - 1 \in 0..(n - 1)
        BY <1>4
      <4> QED BY <1>9, <2>2, <4>1
    <3>6. m + 1 \in Nat
      OBVIOUS
    <3> QED BY <1>12, <2>2, <3>4, <3>5, <3>6
  <2> QED BY <1>4, <1>7, <2>1, <2>2
<1>16. v = TurnTaken(w, L[p + 1], E)
  BY <1>1, <1>3 DEF TurnTaken
<1> QED BY <1>15, <1>16 DEF IsWindow


\* RoundRobin takes a turn.
LEMMA TakeTurnKeeps ==
  ASSUME SelectInv, TurnInv, NEW r \in Requests, TakeTurn(r)
  PROVE  TurnInv'
<1> USE DEF TurnInv
<1> DEFINE g == selector[2]
           c == counter[using[r][2]]
<1>1. /\ UNCHANGED <<healthy, admitting, selector, using, todo, found, skewed>>
      /\ eligible' = eligible
      /\ pc[r] = "scan" /\ pc' = [pc EXCEPT ![r] = "chosen"] /\ using[r][1] = "round_robin"
      /\ todo[r] = <<>> /\ found[r] # <<>>
      /\ counter' = [counter EXCEPT ![using[r][2]] = (@ + 1) % Turns]
      /\ CountTurn(r)
  BY DEF TakeTurn, Take, Chooses, Goto, backend, eligible
<1>2. /\ g \in 1..MaxSelectors /\ counter \in [1..MaxSelectors -> Nat]
      /\ using[r][2] \in 1..MaxSelectors /\ found[r] \in Seq(Backends)
      /\ eligible \in SUBSET Backends
  BY <1>1 DEF SelectInv, Domains, Scanning, Selecting, eligible
<1>3. ScansList' /\ SelectorsDiffer'
  BY <1>1, KeptPerRequest, ScansRest DEF Scanning, Selecting
<1>4. CASE using[r] # selector
  <2>1. using[r][2] # g
    BY <1>1, <1>4 DEF SelectorsDiffer, Scanning, Selecting
  <2>2. counter'[g] = counter[g] /\ turns' = turns
    BY <1>1, <1>2, <1>4, <2>1 DEF CountTurn
  <2>3. TurnsAreWindow'
    BY <1>1, <2>2, WindowRest
  <2> QED BY <1>3, <2>3
<1>5. CASE using[r] = selector /\ r \in skewed
  <2>1. turns' = NoTurns
    BY <1>1, <1>5 DEF CountTurn
  <2>2. Turns \in Int /\ Turns > 0
    BY TurnsAssumption
  <2>3. counter'[g] = (counter[g] + 1) % Turns /\ counter[g] + 1 \in Int
    BY <1>1, <1>2, <1>5
  <2>4. counter'[g] \in Nat
    BY <2>2, <2>3, DivMod
  <2> QED BY <1>1, <1>3, <2>1, <2>4, NoTurnsIsWindow
<1>6. CASE using[r] = selector /\ r \notin skewed
  <2>1. turns' = TurnTaken(turns, Turn(r), eligible)
    BY <1>1, <1>6 DEF CountTurn, TurnTaken
  <2>2. PICK L : L = found[r]
    OBVIOUS
  <2>3. PICK n : n = Len(L)
    OBVIOUS
  <2>4. IsListing(L, Len(Order), eligible)
    <3>1. PICK k \in 0..Len(Order) :
            Len(todo[r]) = Len(Order) - k /\ IsListing(L, k, eligible)
      BY <1>1, <1>6, <2>2 DEF ScansList, ScanLists, Scanning
    <3>2. k = Len(Order)
      BY <1>1, <3>1, OrderAssumption
    <3> QED BY <3>1, <3>2
  <2>5. n \in 1..Len(Order) /\ n \in Nat /\ n > 0
    BY <1>1, <1>2, <2>2, <2>3, <2>4, OrderAssumption DEF IsListing
  <2>6. PICK p : p = counter[g] % n
    OBVIOUS
  <2>7. PICK s : s = IF p = n - 1 THEN 0 ELSE p + 1
    OBVIOUS
  <2>8. p \in 0..(n - 1) /\ counter'[g] % n = s
    <3>1. Turns \in Int /\ Turns > 0 /\ Turns % n = 0
      BY <2>5, TurnsAssumption
    <3>2. PICK a : a = counter[g]
      OBVIOUS
    <3>3. a \in Nat /\ counter'[g] = (a + 1) % Turns
      BY <1>1, <1>2, <1>6, <3>2
    <3>4. /\ a % n \in 0..(n - 1)
          /\ ((a + 1) % Turns) % n = IF a % n = n - 1 THEN 0 ELSE (a % n) + 1
      BY ONLY <2>5, <3>1, <3>3, PhaseAdvances
    <3> QED BY <2>6, <2>7, <3>2, <3>3, <3>4
  <2>9. Turn(r) = L[p + 1]
    BY <1>6, <2>2, <2>3, <2>6 DEF Turn
  <2>10. IsWindow(turns, L, p)
    BY <2>3, <2>4, <2>6 DEF TurnsAreWindow, Phase
  <2>11. IsWindow(TurnTaken(turns, L[p + 1], eligible), L, s)
    BY <1>2, <2>3, <2>4, <2>5, <2>7, <2>8, <2>10, WindowMoves
  <2>12. IsWindow(turns', L, s)
    BY <2>1, <2>9, <2>11
  <2>13. \A M : IsListing(M, Len(Order), eligible') => M = L
    <3>1. Len(Order) \in 0..Len(Order)
      BY OrderAssumption
    <3> QED BY <1>1, <2>4, <3>1, ListingIsUnique
  <2>14. Phase(Len(L))' = s
    BY <1>1, <2>3, <2>8 DEF Phase
  <2>15. turns' \in [Backends -> {0, 1}]
    BY <2>12 DEF IsWindow
  <2>16. TurnsAreWindow'
    BY <2>12, <2>13, <2>14, <2>15 DEF TurnsAreWindow
  <2> QED BY <1>3, <2>16
<1> QED BY <1>4, <1>5, <1>6

\* The selector changes: its turns are counted from none.
LEMMA SelectorTurn ==
  ASSUME SelectInv, TurnInv, NEW a \in Algorithms, SetSelector(a)
  PROVE  TurnInv'
<1> USE KeptPerRequest DEF TurnInv
<1>1. /\ selector[2] \in 1..MaxSelectors /\ counter \in [1..MaxSelectors -> Nat]
      /\ MaxSelectors \in Nat
  BY MaxSelectorsAssumption DEF SelectInv, Domains
<1>2. /\ UNCHANGED <<healthy, admitting, counter, pc, using, found, todo, skewed>>
      /\ turns' = NoTurns /\ selector'[2] = selector[2] + 1 /\ selector[2] < MaxSelectors
  BY DEF SetSelector, backend, local
<1>3. selector'[2] \in 1..MaxSelectors
  BY <1>1, <1>2
<1>4. TurnsAreWindow'
  BY <1>1, <1>2, <1>3, NoTurnsIsWindow
<1>5. ScansList'
  <2> SUFFICES ASSUME NEW s \in Requests \ skewed, pc[s] \in Scanning, using[s][1] = "round_robin"
               PROVE  ScanLists(s)' /\ (pc[s] = "gate" => Head(todo[s]) \in healthy)
    BY <1>2 DEF ScansList
  <2>1. ScanLists(s) /\ (pc[s] = "gate" => Head(todo[s]) \in healthy)
    BY DEF ScansList
  <2> QED BY <1>2, <2>1, ScanRests
<1>6. SelectorsDiffer'
  <2> SUFFICES ASSUME NEW s \in Requests, pc[s] \in Selecting
               PROVE  using[s][2] <= selector[2] + 1 /\ using[s][2] # selector[2] + 1
    BY <1>2 DEF SelectorsDiffer
  <2>1. using[s][2] \in 1..MaxSelectors
    BY DEF SelectInv, Domains
  <2>2. using[s][2] <= selector[2]
    BY DEF SelectorsDiffer
  <2> QED BY <1>1, <2>1, <2>2
<1> QED BY <1>4, <1>5, <1>6

\* The steps that neither scan nor take a turn.
LEMMA RestOfTurn ==
  ASSUME SelectInv, TurnInv, NEW r \in Requests,
         \/ NoHealthyBackends(r) \/ FirstCount(r) \/ NextCount(r) \/ LeastFound(r)
         \/ OnlyOne(r) \/ Draw(r) \/ Compare(r) \/ Serve(r)
  PROVE  TurnInv'
<1> USE KeptPerRequest DEF TurnInv
<1>1. /\ UNCHANGED <<healthy, admitting, selector, counter, turns>>
      /\ \A s \in Requests \ {r} : /\ pc'[s] = pc[s] /\ using'[s] = using[s]
                                   /\ found'[s] = found[s] /\ todo'[s] = todo[s]
                                   /\ s \in skewed => s \in skewed'
      /\ pc'[r] \notin Scanning
      /\ pc'[r] \in Selecting => pc[r] \in Selecting /\ using'[r] = using[r]
  <2> USE DEF Goto, Scanning, Selecting, Shared, backend
  <2>1. CASE NoHealthyBackends(r)
    BY <2>1 DEF NoHealthyBackends, SelectKeeps, rotation
  <2>2. CASE FirstCount(r)
    BY <2>2 DEF FirstCount, Chooses, ChooseKeeps, rotation
  <2>3. CASE NextCount(r)
    BY <2>3 DEF NextCount, SelectKeeps, rotation
  <2>4. CASE LeastFound(r)
    BY <2>4 DEF LeastFound, SelectKeeps, rotation
  <2>5. CASE OnlyOne(r)
    BY <2>5 DEF OnlyOne, Chooses, ChooseKeeps, rotation
  <2>6. CASE Draw(r)
    BY <2>6 DEF Draw, Chooses, ChooseKeeps, rotation
  <2>7. CASE Compare(r)
    BY <2>7 DEF Compare, SelectKeeps, rotation
  <2>8. CASE Deny(r)
    BY <2>8 DEF Deny, Forget
  <2>9. CASE IncActive(r)
    BY <2>9 DEF IncActive, Forget
  <2>10. CASE RoundTrip(r)
    BY <2>10 DEF RoundTrip, rotation
  <2>11. CASE SwapLatency(r)
    BY <2>11 DEF SwapLatency, Record, rotation
  <2>12. CASE RetryLatency(r)
    BY <2>12 DEF RetryLatency, rotation
  <2>13. CASE Release(r)
    BY <2>13 DEF Release, rotation
  <2> QED BY <2>1, <2>2, <2>3, <2>4, <2>5, <2>6, <2>7, <2>8, <2>9, <2>10, <2>11, <2>12, <2>13
          DEF Serve
<1>2. TurnsAreWindow'
  BY <1>1, WindowRest
<1>3. \A s \in Requests :
        /\ pc'[s] \in Selecting => pc[s] \in Selecting /\ using'[s] = using[s]
        /\ pc'[s] \in Scanning => /\ pc'[s] = pc[s] /\ (s \in skewed => s \in skewed')
                                   /\ found'[s] = found[s] /\ todo'[s] = todo[s]
  <2> TAKE s \in Requests
  <2>1. CASE s = r
    BY <1>1, <2>1
  <2>2. CASE s # r
    BY <1>1, <2>2
  <2> QED BY <2>1, <2>2
<1>4. ScansList' /\ SelectorsDiffer'
  BY <1>1, <1>3, ScansRest
<1> QED BY <1>2, <1>4

\* Every step keeps the window.
LEMMA StepTurn == ASSUME SelectInv, TurnInv, [Next]_vars PROVE TurnInv'
<1>1. CASE UNCHANGED vars
  <2>1. UNCHANGED <<healthy, admitting, selector, counter, turns, skewed, pc, using, found, todo>>
    BY <1>1 DEF vars, backend, local, rotation
  <2>2. TurnsAreWindow'
    BY <2>1, WindowRest DEF TurnInv
  <2>3. ScansList' /\ SelectorsDiffer'
    BY <2>1, ScansRest DEF TurnInv
  <2> QED BY <2>2, <2>3 DEF TurnInv
<1>2. CASE Next
  <2>1. ASSUME NEW b \in Backends, FlipHealth(b) \/ FlipCircuit(b) PROVE TurnInv'
    BY <2>1, ChangeTurn DEF FlipHealth, FlipCircuit
  <2>2. ASSUME NEW r \in Requests, PromoteCircuit(r) PROVE TurnInv'
    <3>1. Change(healthy, admitting \union {Head(todo[r])})
      BY <2>2 DEF PromoteCircuit
    <3>2. \A s \in Requests : /\ pc'[s] \in Scanning => pc[s] \in Scanning
                              /\ pc'[s] \in Selecting => pc[s] \in Selecting
      BY <2>2, KeptPerRequest DEF PromoteCircuit, Goto, Scanning, Selecting
    <3> QED BY <3>1, <3>2, ChangeTurn
  <2>3. ASSUME NEW r \in Requests, Select(r) \/ Serve(r) PROVE TurnInv'
    BY <2>2, <2>3, LoadTurn, ReadTurn, TakeTurnKeeps, RestOfTurn DEF Select
  <2> QED BY <1>2, <2>1, <2>3, SelectorTurn, TrippingAssumption DEF Next
<1> QED BY <1>1, <1>2

\* While no flag and no circuit changes, the turns of the current selector go round:
\* no backend is two ahead of another.
THEOREM TurnsGoRound == Spec => []TurnsAreShared
<1>1. ASSUME Init PROVE TurnInv
  <2>1. /\ turns = NoTurns /\ \A r \in Requests : pc[r] = "start"
        /\ counter[selector[2]] \in Nat
    BY <1>1, MaxSelectorsAssumption DEF Init
  <2>2. TurnsAreWindow
    <3>1. turns \in [Backends -> {0, 1}] /\ \A b \in Backends : turns[b] = 0
      BY <2>1 DEF NoTurns
    <3>2. ASSUME NEW L, IsListing(L, Len(Order), eligible), NEW i \in 1..Len(L)
          PROVE  ~InWindow(i - 1, Phase(Len(L)), 0, Len(L))
      <4>1. Len(L) \in Int /\ Len(L) > 0
        BY <3>2 DEF IsListing
      <4>2. Phase(Len(L)) \in 0..(Len(L) - 1)
        BY <2>1, <4>1, DivMod DEF Phase
      <4> QED BY <4>1, <4>2 DEF InWindow
    <3> QED BY <3>1, <3>2 DEF TurnsAreWindow, IsWindow
  <2>3. ScansList /\ SelectorsDiffer
    BY <2>1 DEF ScansList, SelectorsDiffer, Scanning, Selecting
  <2> QED BY <2>2, <2>3 DEF TurnInv
<1>2. ASSUME TurnInv PROVE TurnsAreShared
  BY <1>2 DEF TurnInv, TurnsAreWindow, TurnsAreShared
<1> QED BY <1>1, <1>2, SelectionsHold, StepTurn, PTL DEF Spec
=============================================================================
