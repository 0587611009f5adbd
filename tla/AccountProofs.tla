---------------------------- MODULE AccountProofs ----------------------------
(***************************************************************************)
(* The account circuit breaker, the budget ledger, the routing admission   *)
(* over both stores and batches of account transitions, for every policy,  *)
(* clock and interleaving of callers.                                      *)
(*                                                                         *)
(* AccountCircuit: probe leases are accounted for, belong to the current   *)
(* generation and exist only while the circuit is half-open.               *)
(*                                                                         *)
(* BudgetLedger: type, hard limits and exact usage.  What an operation     *)
(* does to a book is proved once, as a fact about the book (Keeps); the    *)
(* state machine then follows, since every call replaces one book by what  *)
(* its operation returns.  Usage is a sum over the reservations of a book; *)
(* FiniteSums has what such sums are.                                      *)
(*                                                                         *)
(* RoutingAdmission: the budget and the rate controller agree on what is   *)
(* held.  What one settlement does to a book, and what time does to a      *)
(* controller, are stated once; each call of an admission is then a move   *)
(* of one lease and the two stores under it.  Last, its steps refine those *)
(* of RateLimit.                                                           *)
(*                                                                         *)
(* AccountBatch: a batch answers for what it did.  The invariant says of   *)
(* every entry of the log what its receipt is rebuilt from, and of every   *)
(* row which claim handed it out; a commit adds one entry and leaves       *)
(* completed rows alone, so that earlier entries stay true.                *)
(***************************************************************************)
EXTENDS AccountCircuit, BudgetLedger, RoutingAdmission, AccountBatch, FiniteSums

USE DEF ValidPolicy

\* Lease identities are never reused.
LeaseIdsUnique ==
    /\ \A l \in leases : l.id < nextLease
    /\ \A k, l \in leases : k.id = l.id => k = l

\* A closed circuit is below its failure threshold.
ClosedBelowThreshold == state = "Closed" => failures < FailureThreshold

CircuitIInv ==
    /\ CircuitTypeOK /\ LeasesAreCounted /\ LeasesAreCurrent /\ NeverStuckRecovered
    /\ LeaseIdsUnique /\ ClosedBelowThreshold

\* Removing a lease leaves a smaller finite set.
LEMMA WithoutFacts ==
    ASSUME CircuitTypeOK, NEW probe
    PROVE  /\ Without(probe) \subseteq leases
           /\ IsFiniteSet(Without(probe))
           /\ Cardinality(Without(probe)) \in Nat
           /\ Cardinality(Without(probe)) <= Cardinality(leases)
<1>1. Without(probe) \subseteq leases
  BY DEF Without
<1> QED BY <1>1, FS_Subset, FS_CardinalityType DEF CircuitTypeOK

\* The empty list of leases has no members.
LEMMA EmptyFacts == IsFiniteSet({}) /\ Cardinality({}) = 0
BY FS_EmptySet

\* The inductive invariant holds initially.
LEMMA CircuitInitIInv == CircuitInit => CircuitIInv
BY EmptyFacts, PolicyAssumption
   DEF CircuitInit, CircuitIInv, CircuitTypeOK, LeasesAreCounted, LeasesAreCurrent, NeverStuckRecovered,
       LeaseIdsUnique, ClosedBelowThreshold, CircuitState, ClockTime, Never

\* An observation of ordinary traffic finds no leases and creates none.
LEMMA ObserveStep ==
    ASSUME CircuitIInv, NEW gen \in 0..MaxCircuitGeneration, NEW o \in CircuitOutcome,
           NEW utc \in ClockTime, NEW mono \in ClockTime, CircuitObserve(gen, o, utc, mono)
    PROVE  CircuitIInv'
<1>1. leases = {} /\ leases' = {} /\ state = "Closed" /\ inFlight = 0
  BY EmptyFacts DEF CircuitObserve, CircuitIInv, LeasesAreCounted
<1>2. inFlight' = 0 /\ state' \in {"Closed", "Open", "Terminal"}
  <2>1. CASE UNCHANGED <<state, circuitGeneration, successes, inFlight, eligibleAt>>
    BY <1>1, <2>1
  <2>2. CASE MarkOpen(utc)
    BY <2>2 DEF MarkOpen
  <2>3. CASE MarkTerminal /\ UNCHANGED <<successes, inFlight>>
    BY <1>1, <2>3 DEF MarkTerminal
  <2> QED BY <2>1, <2>2, <2>3 DEF CircuitObserve
<1>3. failures' \in 0..FailureThreshold
  BY PolicyAssumption DEF CircuitObserve, CircuitIInv, CircuitTypeOK, ClosedBelowThreshold
<1>4. CircuitTypeOK'
  BY <1>1, <1>2, <1>3, EmptyFacts, PolicyAssumption
     DEF CircuitObserve, MarkOpen, MarkTerminal, NextGeneration, Clock, CircuitIInv, CircuitTypeOK, ClockTime, Never,
         CircuitState
<1>5. ClosedBelowThreshold'
  BY PolicyAssumption DEF CircuitObserve, MarkOpen, MarkTerminal, CircuitIInv, CircuitTypeOK, ClosedBelowThreshold
<1> QED
  BY <1>1, <1>2, <1>4, <1>5, EmptyFacts, PolicyAssumption
     DEF CircuitIInv, LeasesAreCounted, LeasesAreCurrent, NeverStuckRecovered, LeaseIdsUnique

\* Failing closed drops every lease.
LEMMA FailClosedStep ==
    ASSUME CircuitIInv, NEW utc \in ClockTime, NEW mono \in ClockTime, Clock(utc, mono), FailClosed(utc)
    PROVE  CircuitIInv'
<1>1. leases' = {} /\ state' = "Open" /\ inFlight' = 0
  BY DEF FailClosed, MarkOpen
<1>2. CircuitTypeOK'
  BY <1>1, EmptyFacts, PolicyAssumption
     DEF FailClosed, MarkOpen, NextGeneration, Clock, CircuitIInv, CircuitTypeOK, CircuitState, ClockTime
<1>3. ClosedBelowThreshold'
  BY <1>1, PolicyAssumption DEF ClosedBelowThreshold, Reset
<1> QED
  BY <1>1, <1>2, <1>3, EmptyFacts, PolicyAssumption
     DEF CircuitIInv, LeasesAreCounted, LeasesAreCurrent, NeverStuckRecovered, LeaseIdsUnique

\* Admitting a probe adds one lease, within capacity, under a fresh identity.
LEMMA AcquireStep ==
    ASSUME CircuitIInv, NEW gen \in 0..MaxCircuitGeneration, NEW utc \in ClockTime, NEW mono \in ClockTime,
           AcquireProbe(gen, utc, mono)
    PROVE  CircuitIInv'
<1> DEFINE r == [id |-> nextLease, expires |-> mono + ProbeLease]
<1>1. r \in LeaseRecord /\ r.id = nextLease
  BY PolicyAssumption DEF CircuitIInv, CircuitTypeOK, LeaseRecord, ClockTime
<1>2. leases' = leases \cup {r} /\ IsFiniteSet(leases')
  BY FS_AddElement DEF AcquireProbe, CircuitIInv, CircuitTypeOK
<1>3. Cardinality(leases') \in Nat /\ Cardinality(leases') <= MaxProbes
  <2>1. Cardinality(leases) \in Nat /\ Cardinality(leases) < MaxProbes
    BY FS_CardinalityType DEF AcquireProbe, HasCapacity, CircuitIInv, CircuitTypeOK
  <2>2. Cardinality(leases') = IF r \in leases THEN Cardinality(leases) ELSE Cardinality(leases) + 1
    BY <1>2, FS_AddElement DEF CircuitIInv, CircuitTypeOK
  <2> QED BY <2>1, <2>2, PolicyAssumption
<1>4. [id |-> r.id, expires |-> r.expires, gen |-> circuitGeneration] \in IssuedLease
  BY <1>1, PolicyAssumption DEF CircuitIInv, CircuitTypeOK, IssuedLease, LeaseRecord
<1>5. /\ inFlight' = Cardinality(leases') /\ state' = "HalfOpen" /\ circuitGeneration' = circuitGeneration
      /\ issued' = issued \cup {[id |-> r.id, expires |-> r.expires, gen |-> circuitGeneration]}
      /\ nextLease' = nextLease + 1
  BY DEF AcquireProbe
<1>6. CircuitTypeOK'
  <2>1. leases' \subseteq LeaseRecord /\ issued' \subseteq IssuedLease
    BY <1>1, <1>2, <1>4, <1>5 DEF CircuitIInv, CircuitTypeOK
  <2>2. /\ state' \in CircuitState /\ successes' \in Nat /\ failures' \in 0..FailureThreshold
        /\ eligibleAt' \in Nat /\ lastUtc' \in ClockTime /\ lastMono' \in ClockTime
    BY <1>5 DEF AcquireProbe, Clock, CircuitIInv, CircuitTypeOK, CircuitState
  <2> QED BY <1>2, <1>3, <1>5, <2>1, <2>2 DEF CircuitIInv, CircuitTypeOK
<1>7. LeasesAreCounted' /\ NeverStuckRecovered'
  BY <1>2, <1>3, <1>5 DEF LeasesAreCounted, NeverStuckRecovered
<1>8. LeasesAreCurrent'
  BY <1>2, <1>5 DEF CircuitIInv, LeasesAreCurrent
<1>9. LeaseIdsUnique'
  <2>1. \A l \in leases : l.id \in Nat /\ l.id < nextLease
    BY DEF CircuitIInv, CircuitTypeOK, LeaseRecord, LeaseIdsUnique
  <2> QED BY <1>1, <1>2, <1>5, <2>1 DEF CircuitIInv, CircuitTypeOK, LeaseIdsUnique
<1>10. ClosedBelowThreshold'
  BY <1>5 DEF ClosedBelowThreshold
<1> QED BY <1>6, <1>7, <1>8, <1>9, <1>10 DEF CircuitIInv

\* A completed probe removes its own lease, or all of them with a transition.
LEMMA CompleteStep ==
    ASSUME CircuitIInv, NEW probe \in issued, NEW o \in CircuitOutcome,
           NEW utc \in ClockTime, NEW mono \in ClockTime, CompleteProbe(probe, o, utc, mono)
    PROVE  CircuitIInv'
<1> DEFINE rest == Without(probe)
           count == IF o = "Success" THEN successes + 1 ELSE successes
<1>0. state = "HalfOpen" /\ UNCHANGED <<nextLease, issued>> /\ lastUtc' = utc /\ lastMono' = mono
  BY DEF CompleteProbe, ActiveLease, Clock, CircuitIInv, LeasesAreCounted
<1>1. CASE /\ ~Recovered(count, rest) /\ successes' = count /\ leases' = rest
           /\ inFlight' = Cardinality(rest)
           /\ UNCHANGED <<state, circuitGeneration, failures, eligibleAt>>
  <2>1. /\ rest \subseteq leases /\ IsFiniteSet(rest) /\ Cardinality(rest) \in Nat
        /\ Cardinality(rest) <= Cardinality(leases)
    BY WithoutFacts DEF CircuitIInv
  <2>2. count \in Nat
    BY DEF CircuitIInv, CircuitTypeOK
  <2>3. CircuitTypeOK'
    BY <1>0, <1>1, <2>1, <2>2 DEF CircuitIInv, CircuitTypeOK
  <2>4. LeasesAreCounted'
    BY <1>0, <1>1, <2>1, FS_CardinalityType, PolicyAssumption DEF CircuitIInv, LeasesAreCounted, CircuitTypeOK
  <2>5. LeasesAreCurrent' /\ LeaseIdsUnique'
    BY <1>0, <1>1, <2>1 DEF CircuitIInv, LeasesAreCurrent, LeaseIdsUnique
  <2>6. NeverStuckRecovered'
    BY <1>1, <2>2, PolicyAssumption DEF NeverStuckRecovered, Recovered
  <2>7. ClosedBelowThreshold'
    BY <1>0, <1>1 DEF ClosedBelowThreshold
  <2> QED BY <2>3, <2>4, <2>5, <2>6, <2>7 DEF CircuitIInv
<1>2. CASE leases' = {} /\ state' \in CircuitState \ {"HalfOpen"}
  <2>1. inFlight' = 0
    <3>1. CASE inFlight' = Cardinality(rest) /\ Recovered(count, rest)
      BY <3>1, EmptyFacts DEF Recovered
    <3>2. CASE inFlight' = 0
      BY <3>2
    <3>3. CASE UNCHANGED state
      BY <1>0, <1>2, <3>3
    <3> QED BY <3>1, <3>2, <3>3 DEF CompleteProbe, MarkOpen
  <2>2. CircuitTypeOK'
    BY <1>0, <1>2, <2>1, EmptyFacts, PolicyAssumption
       DEF CompleteProbe, MarkOpen, MarkTerminal, NextGeneration, CircuitIInv, CircuitTypeOK, ClockTime, Never
  <2>3. ClosedBelowThreshold'
    BY <1>0, <1>2, PolicyAssumption
       DEF CompleteProbe, MarkOpen, MarkTerminal, ClosedBelowThreshold
  <2> QED
    BY <1>2, <2>1, <2>2, <2>3, EmptyFacts, PolicyAssumption
       DEF CircuitIInv, LeasesAreCounted, LeasesAreCurrent, NeverStuckRecovered, LeaseIdsUnique
<1> QED BY <1>1, <1>2 DEF CompleteProbe, MarkOpen, MarkTerminal, CircuitState

\* A reset leaves a closed circuit without leases.
LEMMA ResetStep ==
    ASSUME CircuitIInv, NEW gen \in 0..MaxCircuitGeneration, NEW utc \in ClockTime, NEW mono \in ClockTime,
           Reset(gen, utc, mono)
    PROVE  CircuitIInv'
<1>1. leases' = {} /\ state' = "Closed" /\ inFlight' = 0
  BY DEF Reset
<1>2. CircuitTypeOK'
  BY <1>1, EmptyFacts, PolicyAssumption
     DEF Reset, NextGeneration, Clock, CircuitIInv, CircuitTypeOK, CircuitState, ClockTime, Never
<1>3. ClosedBelowThreshold'
  BY <1>1, PolicyAssumption DEF ClosedBelowThreshold, Reset
<1> QED
  BY <1>1, <1>2, <1>3, EmptyFacts, PolicyAssumption
     DEF CircuitIInv, LeasesAreCounted, LeasesAreCurrent, NeverStuckRecovered, LeaseIdsUnique

\* Every operation of every caller preserves the inductive invariant.
LEMMA CircuitNextIInv == CircuitIInv /\ [CircuitNext]_circuitVars => CircuitIInv'
<1> SUFFICES ASSUME CircuitIInv, [CircuitNext]_circuitVars PROVE CircuitIInv'
  OBVIOUS
<1>1. CASE UNCHANGED circuitVars
  BY <1>1 DEF circuitVars, snapshot, CircuitIInv, CircuitTypeOK, LeasesAreCounted, LeasesAreCurrent,
     NeverStuckRecovered, LeaseIdsUnique, ClosedBelowThreshold
<1>2. ASSUME NEW gen \in 0..MaxCircuitGeneration, NEW utc \in ClockTime, NEW mono \in ClockTime,
             ReclaimExpired(gen, utc, mono)
      PROVE  CircuitIInv'
  BY <1>2, FailClosedStep DEF ReclaimExpired
<1>3. ASSUME NEW probe \in issued, NEW utc \in ClockTime, NEW mono \in ClockTime,
             ExpireProbe(probe, utc, mono)
      PROVE  CircuitIInv'
  BY <1>3, FailClosedStep DEF ExpireProbe
<1> QED BY <1>1, <1>2, <1>3, ObserveStep, AcquireStep, CompleteStep, ResetStep DEF CircuitNext

\* Every transition is fenced by a new generation and no clock runs back.
THEOREM StaleObserversAreFenced == CircuitSpec => TransitionsAreFenced
<1> DEFINE A == /\ circuitGeneration' >= circuitGeneration /\ lastUtc' >= lastUtc /\ lastMono' >= lastMono
                /\ state' # state /\ ~(state = "Open" /\ state' = "HalfOpen")
                     => circuitGeneration' = circuitGeneration + 1
<1>1. CircuitIInv /\ [CircuitNext]_circuitVars => [A]_circuitVars
  <2> SUFFICES ASSUME CircuitIInv, CircuitNext PROVE A
    OBVIOUS
  <2>0. circuitGeneration \in Nat /\ lastUtc \in Nat /\ lastMono \in Nat
    BY DEF CircuitIInv, CircuitTypeOK, ClockTime
  <2>1. ASSUME NEW gen, NEW o, NEW utc \in ClockTime, NEW mono \in ClockTime, CircuitObserve(gen, o, utc, mono)
        PROVE  A
    BY <2>0, <2>1 DEF CircuitObserve, Clock, NextGeneration, ClockTime
  <2>2. ASSUME NEW utc \in ClockTime, NEW mono \in ClockTime, Clock(utc, mono), FailClosed(utc)
        PROVE  A
    BY <2>0, <2>2 DEF FailClosed, Clock, NextGeneration, ClockTime
  <2>3. ASSUME NEW gen, NEW utc \in ClockTime, NEW mono \in ClockTime, AcquireProbe(gen, utc, mono)
        PROVE  A
    BY <2>0, <2>3 DEF AcquireProbe, Clock, ClockTime
  <2>4. ASSUME NEW gen, NEW utc \in ClockTime, NEW mono \in ClockTime, Reset(gen, utc, mono)
        PROVE  A
    BY <2>0, <2>4 DEF Reset, Clock, NextGeneration, ClockTime
  <2>5. ASSUME NEW probe, NEW o, NEW utc \in ClockTime, NEW mono \in ClockTime,
               CompleteProbe(probe, o, utc, mono)
        PROVE  A
    BY <2>0, <2>5 DEF CompleteProbe, Clock, NextGeneration, ClockTime
  <2> QED BY <2>1, <2>2, <2>3, <2>4, <2>5 DEF CircuitNext, ReclaimExpired, ExpireProbe
<1> QED BY <1>1, CircuitInitIInv, CircuitNextIInv, PTL DEF CircuitSpec, TransitionsAreFenced

\* A half-open circuit closes only with its last probe and enough successes.
THEOREM ClosesAfterRecovery == CircuitSpec => ClosesOnlyRecovered
<1> DEFINE A == state = "HalfOpen" /\ state' = "Closed"
                  => successes' >= RecoverySuccesses /\ Cardinality(leases) = 1
<1>1. CircuitIInv /\ [CircuitNext]_circuitVars => [A]_circuitVars
  <2> SUFFICES ASSUME CircuitIInv, CircuitNext, state = "HalfOpen", state' = "Closed"
               PROVE  successes' >= RecoverySuccesses /\ Cardinality(leases) = 1
    OBVIOUS
  <2>1. PICK probe \in issued, o \in CircuitOutcome, utc \in ClockTime, mono \in ClockTime :
            CompleteProbe(probe, o, utc, mono)
    BY DEF CircuitNext, CircuitObserve, ReclaimExpired, AcquireProbe, Reset, ExpireProbe, FailClosed, MarkOpen
  <2>2. /\ successes' >= RecoverySuccesses
        /\ Without(probe) = {} /\ \E l \in leases : l.id = probe.id
    BY <2>1 DEF CompleteProbe, Recovered, ActiveLease, MarkOpen, MarkTerminal
  <2>3. PICK l \in leases : l.id = probe.id
    BY <2>2
  <2>4. leases = {l}
    BY <2>2, <2>3 DEF Without, CircuitIInv, LeaseIdsUnique
  <2> QED BY <2>2, <2>4, FS_Singleton
<1> QED BY <1>1, CircuitInitIInv, CircuitNextIInv, PTL DEF CircuitSpec, ClosesOnlyRecovered

\* The breaker's state is always well typed and within its bounds.
THEOREM CircuitTyped == CircuitSpec => []CircuitTypeOK
<1>1. CircuitIInv => CircuitTypeOK
  BY DEF CircuitIInv
<1> QED BY <1>1, CircuitInitIInv, CircuitNextIInv, PTL DEF CircuitSpec

\* The in-flight count is exact and bounded, only a half-open circuit has
\* leases, and no lease of an earlier generation is ever active.
THEOREM ProbesAreAccounted == CircuitSpec => []ProbesAccounted
<1>1. CircuitIInv => ProbesAccounted
  BY DEF CircuitIInv, ProbesAccounted
<1> QED BY <1>1, CircuitInitIInv, CircuitNextIInv, PTL DEF CircuitSpec

\* A half-open circuit that has recovered is not left half-open.
THEOREM RecoveryCompletes == CircuitSpec => []NeverStuckRecovered
<1>1. CircuitIInv => NeverStuckRecovered
  BY DEF CircuitIInv
<1> QED BY <1>1, CircuitInitIInv, CircuitNextIInv, PTL DEF CircuitSpec

-----------------------------------------------------------------------------
(* The budget ledger.                                                      *)

USE DEF BudgetRequest

LEMMA PolicyFacts ==
    ASSUME NEW b \in Book
    PROVE  /\ DOMAIN b.policies \subseteq Scopes
           /\ \A s \in DOMAIN b.policies : b.policies[s] \in Policy
PROOF
  BY DEF Book, PolicySet

-----------------------------------------------------------------------------
(* The sums of a book.                                                     *)

Amounts(b) == [id \in Retained(b) |-> b.reservations[id].request.amount]
On(b, ids, s) == {id \in ids : s \in b.reservations[id].applied}

\* Reservations that count on scope s and whose receipt has no breach of it.
Unreported(b, s) ==
    {id \in InState(b, "Reserved") \cup InState(b, "Committed") : s \notin b.reservations[id].breaches}

\* With g adding up the amounts: the counters are sums of reservations, and those
\* without a breach fit below the limit by themselves.
Exact(b, g) ==
    /\ IsFiniteSet(Retained(b))
    /\ Adds(g, Amounts(b), Retained(b))
    /\ \A s \in Scopes : /\ b.reserved[s] = g[On(b, InState(b, "Reserved"), s)]
                          /\ b.committed[s] = g[On(b, InState(b, "Committed"), s)]
    /\ \A s \in DOMAIN b.policies : g[On(b, Unreported(b, s), s)] <= b.policies[s].limit

BookExact(b) == \E g : Exact(b, g)

\* The records of a typed book.
LEMMA StatesRetained ==
    ASSUME NEW b \in Book
    PROVE  /\ \A id \in ReservationIds : b.reservations[id] \in Record \cup {NoRecord}
           /\ \A id \in Retained(b) : b.reservations[id] \in Record /\ id \in ReservationIds
           /\ InState(b, "Reserved") \subseteq Retained(b)
           /\ InState(b, "Committed") \subseteq Retained(b)
           /\ \A id \in Retained(b) : b.reservations[id].request.amount \in Nat
<1>1. \A id \in ReservationIds : b.reservations[id] \in Record \cup {NoRecord}
  BY DEF Book
<1>2. \A id \in Retained(b) : b.reservations[id] \in Record /\ id \in ReservationIds
  BY <1>1 DEF Retained
<1>3. ASSUME NEW id \in ReservationIds, b.reservations[id] = NoRecord
      PROVE  b.reservations[id].state = "Absent"
  BY <1>3 DEF NoRecord
<1>4. InState(b, "Reserved") \subseteq Retained(b) /\ InState(b, "Committed") \subseteq Retained(b)
  BY <1>3 DEF InState, Retained
<1>5. \A id \in Retained(b) : b.reservations[id].request.amount \in Nat
  BY <1>2, BudgetAssumption DEF Record
<1> QED BY <1>1, <1>2, <1>4, <1>5

\* AmountOn is the sum of its reservations.
LEMMA AmountIs ==
    ASSUME NEW b \in Book, IsFiniteSet(Retained(b)), NEW g, Adds(g, Amounts(b), Retained(b)),
           NEW ids \in SUBSET Retained(b), NEW s
    PROVE  AmountOn(b, ids, s) = g[On(b, ids, s)]
<1> DEFINE S == On(b, ids, s)
           w == [id \in S |-> b.reservations[id].request.amount]
           c(T) == CHOOSE id \in T : TRUE
           Folds(f) == f = [T \in SUBSET S |-> IF T = {} THEN 0
                              ELSE b.reservations[c(T)].request.amount + f[T \ {c(T)}]]
<1>1. S \in SUBSET Retained(b) /\ IsFiniteSet(S)
  BY FS_Subset DEF On
<1>2. w \in [S -> Nat]
  BY <1>1, StatesRetained
<1>3. AmountOn(b, ids, s) = (CHOOSE f : Folds(f))[S]
  BY DEF AmountOn, MapThenSumSet, MapThenFoldSet, On
<1>4. \A T \in SUBSET S : T # {} => c(T) \in S
  OBVIOUS
<1>5. ASSUME NEW f PROVE IsFold(f, w, S) <=> Folds(f)
  <2> DEFINE k == [T \in SUBSET S |-> IF T = {} THEN 0 ELSE w[c(T)] + f[T \ {c(T)}]]
             l == [T \in SUBSET S |-> IF T = {} THEN 0
                      ELSE b.reservations[c(T)].request.amount + f[T \ {c(T)}]]
  <2>1. \A T \in SUBSET S : k[T] = l[T]
    <3> HIDE DEF c, S
    <3> QED BY <1>4
  <2>2. k = l
    <3>1. k = [T \in SUBSET S |-> k[T]] /\ l = [T \in SUBSET S |-> l[T]]
      <4> HIDE DEF c, S, w
      <4> QED OBVIOUS
    <3> HIDE DEF k, l, S
    <3> QED BY <2>1, <3>1
  <2>3. IsFold(f, w, S) <=> f = k
    <3> HIDE DEF w, S
    <3> QED BY DEF IsFold
  <2> QED BY <2>2, <2>3
<1> HIDE DEF Folds, w, S
<1>6. PICK f : f = CHOOSE h : Folds(h)
  OBVIOUS
<1>7. Folds(f)
  BY <1>1, <1>2, <1>5, <1>6, FoldExists
<1>8. Adds(f, w, S)
  BY <1>1, <1>2, <1>5, <1>7, FoldAdds
<1>9. \A id \in S : w[id] = Amounts(b)[id]
  BY <1>1 DEF w, Amounts
<1>10. f[S] = g[S]
  <2>1. S \in SUBSET S
    OBVIOUS
  <2> QED BY <1>1, <1>8, <1>9, <2>1, AddsAgree
<1> QED BY <1>3, <1>6, <1>10 DEF S

\* Reserved and committed usage together.
LEMMA UsageAdds ==
    ASSUME NEW b \in Book, NEW g, Exact(b, g), NEW s \in Scopes
    PROVE  g[On(b, InState(b, "Reserved"), s) \cup On(b, InState(b, "Committed"), s)]
                = b.committed[s] + b.reserved[s]
<1> DEFINE R == On(b, InState(b, "Reserved"), s)
           C == On(b, InState(b, "Committed"), s)
<1>1. IsFiniteSet(Retained(b)) /\ Adds(g, Amounts(b), Retained(b))
  BY DEF Exact
<1>2. R \in SUBSET Retained(b) /\ C \in SUBSET Retained(b) /\ R \cap C = {}
  BY StatesRetained DEF On, InState
<1>3. b.reserved[s] = g[R] /\ b.committed[s] = g[C]
  BY DEF Exact
<1> HIDE DEF R, C
<1>4. IsFiniteSet(C)
  BY <1>1, <1>2, FS_Subset
<1>5. g[R \cup C] = g[R] + g[C]
  BY <1>1, <1>2, <1>4, AddsSplit
<1>6. g[R] \in Nat /\ g[C] \in Nat
  BY <1>1, <1>2 DEF Adds
<1>7. g[R \cup C] = b.committed[s] + b.reserved[s]
  BY <1>3, <1>5, <1>6
<1> QED BY <1>7 DEF R, C

\* The counters of a book whose sums are exact are what the specification says.
LEMMA ExactMeans ==
    ASSUME NEW b \in Book, BookExact(b)
    PROVE  /\ \A s \in Scopes :
                /\ b.reserved[s] = AmountOn(b, InState(b, "Reserved"), s)
                /\ b.committed[s] = AmountOn(b, InState(b, "Committed"), s)
           /\ \A s \in DOMAIN b.policies : b.committed[s] + b.reserved[s] > b.policies[s].limit
                => \E id \in InState(b, "Reserved") \cup InState(b, "Committed") :
                        s \in b.reservations[id].breaches
<1>1. PICK g : Exact(b, g)
  BY DEF BookExact
<1>2. IsFiniteSet(Retained(b)) /\ Adds(g, Amounts(b), Retained(b))
  BY <1>1 DEF Exact
<1>3. ASSUME NEW s \in Scopes
      PROVE  /\ b.reserved[s] = AmountOn(b, InState(b, "Reserved"), s)
             /\ b.committed[s] = AmountOn(b, InState(b, "Committed"), s)
  <2>1. InState(b, "Reserved") \in SUBSET Retained(b) /\ InState(b, "Committed") \in SUBSET Retained(b)
    BY StatesRetained
  <2>2. /\ AmountOn(b, InState(b, "Reserved"), s) = g[On(b, InState(b, "Reserved"), s)]
        /\ AmountOn(b, InState(b, "Committed"), s) = g[On(b, InState(b, "Committed"), s)]
    BY <1>2, <2>1, AmountIs
  <2> QED BY <1>1, <2>2 DEF Exact
<1>4. ASSUME NEW s \in DOMAIN b.policies, b.committed[s] + b.reserved[s] > b.policies[s].limit
      PROVE  \E id \in InState(b, "Reserved") \cup InState(b, "Committed") :
                s \in b.reservations[id].breaches
  <2> SUFFICES ASSUME \A id \in InState(b, "Reserved") \cup InState(b, "Committed") :
                            s \notin b.reservations[id].breaches
               PROVE  FALSE
    OBVIOUS
  <2> DEFINE R == On(b, InState(b, "Reserved"), s)
             C == On(b, InState(b, "Committed"), s)
  <2>1. s \in Scopes /\ b.policies[s].limit \in Nat
    BY PolicyFacts, BudgetAssumption DEF Policy
  <2>2. On(b, Unreported(b, s), s) = R \cup C
    BY DEF On, Unreported
  <2>3. g[R \cup C] = b.committed[s] + b.reserved[s]
    BY <1>1, <2>1, UsageAdds
  <2>4. g[R \cup C] <= b.policies[s].limit
    BY <1>1, <2>2 DEF Exact
  <2>5. b.committed[s] + b.reserved[s] \in Nat
    BY <2>1 DEF Book
  <2> HIDE DEF R, C
  <2> QED BY <1>4, <2>1, <2>3, <2>4, <2>5
<1> QED BY <1>3, <1>4

\* Operations that change nothing but states keep the amounts.
LEMMA SameAmounts ==
    ASSUME NEW b \in Book, NEW c \in Book,
           \A id \in ReservationIds :
                /\ c.reservations[id] = NoRecord <=> b.reservations[id] = NoRecord
                /\ b.reservations[id] # NoRecord => c.reservations[id].request = b.reservations[id].request
    PROVE  Retained(c) = Retained(b) /\ Amounts(c) = Amounts(b)
<1>1. Retained(c) = Retained(b)
  BY DEF Retained
<1>2. \A id \in Retained(b) : c.reservations[id].request.amount = b.reservations[id].request.amount
  BY DEF Retained
<1> QED BY <1>1, <1>2 DEF Amounts

\* What is due is taken off exactly.
LEMMA SweepExact ==
    ASSUME NEW b \in Book, NEW now \in Nat, Sweep(b, now) \in Book, BookExact(b)
    PROVE  BookExact(Sweep(b, now))
<1>1. PICK c \in Book : c = Sweep(b, now)
  OBVIOUS
<1>2. /\ c.policies = b.policies /\ c.committed = b.committed
      /\ \A s \in Scopes : c.reserved[s] = b.reserved[s] - AmountOn(b, Due(b, now), s)
      /\ \A id \in ReservationIds : c.reservations[id] =
            IF id \in Due(b, now) THEN [b.reservations[id] EXCEPT !.state = "Expired"]
                                  ELSE b.reservations[id]
  BY <1>1 DEF Sweep
<1>3. PICK g : Exact(b, g)
  BY DEF BookExact
<1>4. Due(b, now) \subseteq InState(b, "Reserved") /\ Due(b, now) \in SUBSET Retained(b)
  BY StatesRetained DEF Due
<1>5. ASSUME NEW id \in Due(b, now)
      PROVE  /\ c.reservations[id].state = "Expired"
             /\ c.reservations[id].request = b.reservations[id].request
             /\ c.reservations[id].applied = b.reservations[id].applied
             /\ c.reservations[id].breaches = b.reservations[id].breaches
             /\ b.reservations[id] # NoRecord /\ c.reservations[id] # NoRecord
  <2>1. b.reservations[id] \in Record /\ id \in ReservationIds
    BY <1>4, StatesRetained
  <2>2. c.reservations[id] = [b.reservations[id] EXCEPT !.state = "Expired"]
    BY <1>2, <2>1
  <2>3. c.reservations[id] \in Record
    BY <2>1, <2>2 DEF Record
  <2>4. b.reservations[id] # NoRecord /\ c.reservations[id] # NoRecord
    BY <2>1, <2>3 DEF Record, NoRecord
  <2> QED BY <2>1, <2>2, <2>4 DEF Record
<1>6. \A id \in ReservationIds \ Due(b, now) : c.reservations[id] = b.reservations[id]
  BY <1>2
<1>7. Retained(c) = Retained(b) /\ Amounts(c) = Amounts(b)
  <2>1. \A id \in ReservationIds :
            /\ c.reservations[id] = NoRecord <=> b.reservations[id] = NoRecord
            /\ b.reservations[id] # NoRecord => c.reservations[id].request = b.reservations[id].request
    BY <1>5, <1>6
  <2> QED BY <2>1, SameAmounts
<1>8. /\ InState(c, "Reserved") = InState(b, "Reserved") \ Due(b, now)
      /\ InState(c, "Committed") = InState(b, "Committed")
  <2>1. Due(b, now) \subseteq ReservationIds
    BY <1>4 DEF InState
  <2>2. \A id \in Due(b, now) : b.reservations[id].state = "Reserved"
    BY <1>4 DEF InState
  <2> QED BY <1>5, <1>6, <2>1, <2>2 DEF InState
<1>0. IsFiniteSet(Retained(b)) /\ Adds(g, Amounts(b), Retained(b))
  BY <1>3 DEF Exact
<1>9. /\ InState(b, "Reserved") \subseteq Retained(b) /\ InState(b, "Committed") \subseteq Retained(b)
      /\ InState(b, "Reserved") \subseteq ReservationIds /\ InState(b, "Committed") \subseteq ReservationIds
  BY StatesRetained DEF InState
<1>10. \A id \in ReservationIds : /\ c.reservations[id].applied = b.reservations[id].applied
                                  /\ c.reservations[id].breaches = b.reservations[id].breaches
  BY <1>5, <1>6
<1>11. ASSUME NEW s \in Scopes
       PROVE  /\ c.reserved[s] = g[On(c, InState(c, "Reserved"), s)]
              /\ c.committed[s] = g[On(c, InState(c, "Committed"), s)]
  <2> DEFINE R == On(b, InState(b, "Reserved"), s)
             D == On(b, Due(b, now), s)
  <2>1. D \in SUBSET R /\ R \in SUBSET Retained(b)
    BY <1>4, <1>9 DEF On
  <2>2. On(c, InState(c, "Reserved"), s) = R \ D
    BY <1>8, <1>9, <1>10 DEF On
  <2>3. On(c, InState(c, "Committed"), s) = On(b, InState(b, "Committed"), s)
    BY <1>8, <1>9, <1>10 DEF On
  <2>4. AmountOn(b, Due(b, now), s) = g[D]
    BY <1>0, <1>4, AmountIs
  <2> HIDE DEF R, D
  <2>5. AddsUp(g, R, D)
    BY <1>0, <2>1, AddsPart
  <2>6. b.reserved[s] = g[R] /\ b.committed[s] = g[On(b, InState(b, "Committed"), s)]
    BY <1>3 DEF Exact, R
  <2>7. c.reserved[s] = g[R] - g[D]
    BY <1>2, <2>4, <2>6
  <2>8. c.reserved[s] = g[R \ D]
    BY <2>5, <2>7 DEF AddsUp
  <2> QED BY <1>2, <2>2, <2>3, <2>6, <2>8
<1>12. ASSUME NEW s \in DOMAIN c.policies
       PROVE  g[On(c, Unreported(c, s), s)] <= c.policies[s].limit
  <2> DEFINE Q == On(b, Unreported(b, s), s)
             P == On(c, Unreported(c, s), s)
  <2>1. P \in SUBSET Q
    BY <1>8, <1>9, <1>10 DEF On, Unreported
  <2>2. Q \in SUBSET Retained(b)
    BY <1>9 DEF On, Unreported
  <2>3. s \in DOMAIN b.policies /\ g[Q] <= b.policies[s].limit
    BY <1>2, <1>3 DEF Exact
  <2> HIDE DEF P, Q
  <2>4. AddsUp(g, Q, P)
    BY <1>0, <2>1, <2>2, AddsPart
  <2>5. b.policies[s].limit \in Nat
    BY <2>3, PolicyFacts, BudgetAssumption DEF Policy
  <2>6. g[P] <= b.policies[s].limit
    BY <2>3, <2>4, <2>5 DEF AddsUp
  <2> QED BY <1>2, <2>6 DEF P
<1> QED BY <1>0, <1>1, <1>7, <1>11, <1>12 DEF Exact, BookExact

\* Sweeping an exact book never fails.
LEMMA ExactSweeps ==
    ASSUME NEW b \in Book, NEW now, BookExact(b)
    PROVE  ~SweepFails(b, now)
<1> SUFFICES ASSUME NEW s \in Scopes PROVE AmountOn(b, Due(b, now), s) \in 0..b.reserved[s]
  BY DEF SweepFails
<1>1. PICK g : Exact(b, g)
  BY DEF BookExact
<1> DEFINE R == On(b, InState(b, "Reserved"), s)
           D == On(b, Due(b, now), s)
<1>2. IsFiniteSet(Retained(b)) /\ Adds(g, Amounts(b), Retained(b)) /\ b.reserved[s] = g[R]
  BY <1>1 DEF Exact
<1>3. D \in SUBSET R /\ R \in SUBSET Retained(b)
  BY StatesRetained DEF On, Due
<1>4. AmountOn(b, Due(b, now), s) = g[D]
  <2>1. Due(b, now) \in SUBSET Retained(b)
    BY StatesRetained DEF Due
  <2> QED BY <1>2, <2>1, AmountIs
<1> HIDE DEF R, D
<1>5. AddsUp(g, R, D)
  BY <1>2, <1>3, AddsPart
<1> QED BY <1>2, <1>4, <1>5 DEF AddsUp

\* A transition moves its reservation's amount and no other.
LEMMA SettleExact ==
    ASSUME NEW b \in Book, NEW id \in ReservationIds, NEW target \in {"Committed", "Released"},
           Settle(b, id, target) \in Book, b.reservations[id] \in Record,
           b.reservations[id].state = "Reserved", BookExact(b)
    PROVE  BookExact(Settle(b, id, target))
<1>1. PICK c \in Book : c = Settle(b, id, target)
  OBVIOUS
<1>2. PICK record \in Record : record = b.reservations[id]
  OBVIOUS
<1>3. /\ c.policies = b.policies
      /\ \A s \in Scopes : c.reserved[s] =
            IF s \in record.applied THEN b.reserved[s] - record.request.amount ELSE b.reserved[s]
      /\ \A s \in Scopes : c.committed[s] =
            IF s \in record.applied /\ target = "Committed"
            THEN b.committed[s] + record.request.amount ELSE b.committed[s]
      /\ c.reservations = [b.reservations EXCEPT ![id] = [record EXCEPT !.state = target]]
  BY <1>1, <1>2 DEF Settle
<1>4. b.reservations \in [ReservationIds -> Record \cup {NoRecord}]
  BY DEF Book
<1>5. /\ c.reservations[id].state = target
      /\ c.reservations[id].request = record.request
      /\ c.reservations[id].applied = record.applied
      /\ c.reservations[id].breaches = record.breaches
      /\ record # NoRecord /\ c.reservations[id] # NoRecord
  <2>1. c.reservations[id] = [record EXCEPT !.state = target]
    BY <1>3, <1>4
  <2>2. c.reservations[id] \in Record
    BY <2>1 DEF Record
  <2>3. record # NoRecord /\ c.reservations[id] # NoRecord
    BY <2>2 DEF Record, NoRecord
  <2> QED BY <2>1, <2>3 DEF Record
<1>6. \A i \in ReservationIds \ {id} : c.reservations[i] = b.reservations[i]
  BY <1>3, <1>4
<1>7. Retained(c) = Retained(b) /\ Amounts(c) = Amounts(b)
  <2>1. \A i \in ReservationIds :
            /\ c.reservations[i] = NoRecord <=> b.reservations[i] = NoRecord
            /\ b.reservations[i] # NoRecord => c.reservations[i].request = b.reservations[i].request
    BY <1>2, <1>5, <1>6
  <2> QED BY <2>1, SameAmounts
<1>8. PICK g : Exact(b, g)
  BY DEF BookExact
<1>0. IsFiniteSet(Retained(b)) /\ Adds(g, Amounts(b), Retained(b))
  BY <1>8 DEF Exact
<1>9. /\ InState(b, "Reserved") \subseteq Retained(b) /\ InState(b, "Committed") \subseteq Retained(b)
      /\ InState(b, "Reserved") \subseteq ReservationIds /\ InState(b, "Committed") \subseteq ReservationIds
      /\ id \in InState(b, "Reserved") /\ id \notin InState(b, "Committed")
  BY StatesRetained DEF InState
<1>10. /\ InState(c, "Reserved") = InState(b, "Reserved") \ {id}
       /\ InState(c, "Committed") = IF target = "Committed" THEN InState(b, "Committed") \cup {id}
                                    ELSE InState(b, "Committed")
  <2>1. \A i \in ReservationIds : i # id => c.reservations[i].state = b.reservations[i].state
    BY <1>6
  <2> QED BY <1>5, <1>9, <2>1 DEF InState
<1>11. \A i \in ReservationIds : /\ c.reservations[i].applied = b.reservations[i].applied
                                 /\ c.reservations[i].breaches = b.reservations[i].breaches
  BY <1>2, <1>5, <1>6
<1>12. Amounts(b)[id] = record.request.amount /\ record.request.amount \in Nat /\ id \in Retained(b)
  BY <1>2, <1>9, StatesRetained DEF Amounts
<1>13. ASSUME NEW s \in Scopes
       PROVE  /\ c.reserved[s] = g[On(c, InState(c, "Reserved"), s)]
              /\ c.committed[s] = g[On(c, InState(c, "Committed"), s)]
  <2> DEFINE R == On(b, InState(b, "Reserved"), s)
             C == On(b, InState(b, "Committed"), s)
  <2>1. R \in SUBSET Retained(b) /\ C \in SUBSET Retained(b) /\ id \notin C
    BY <1>9 DEF On
  <2>2. g[R] \in Nat /\ g[C] \in Nat /\ b.reserved[s] = g[R] /\ b.committed[s] = g[C]
    BY <1>0, <1>8, <2>1 DEF Exact, Adds
  <2>3. CASE s \notin record.applied
    <3>1. On(c, InState(c, "Reserved"), s) = R /\ On(c, InState(c, "Committed"), s) = C
      BY <1>2, <1>9, <1>10, <1>11, <2>3 DEF On
    <3> QED BY <1>3, <2>2, <2>3, <3>1
  <2>4. CASE s \in record.applied
    <3>1. id \in R /\ On(c, InState(c, "Reserved"), s) = R \ {id}
      BY <1>2, <1>9, <1>10, <1>11, <2>4 DEF On
    <3>2. On(c, InState(c, "Committed"), s) = IF target = "Committed" THEN C \cup {id} ELSE C
      BY <1>2, <1>9, <1>10, <1>11, <2>4 DEF On
    <3> HIDE DEF R, C
    <3>3. g[R] = Amounts(b)[id] + g[R \ {id}] /\ g[R \ {id}] \in Nat
      <4>1. R \ {id} \in SUBSET Retained(b)
        BY <2>1
      <4> QED BY <1>0, <2>1, <3>1, <4>1 DEF Adds
    <3>4. g[C \cup {id}] = Amounts(b)[id] + g[C]
      BY <1>0, <1>12, <2>1, AddsOne
    <3>5. c.reserved[s] = g[R \ {id}]
      BY <1>3, <1>12, <2>2, <2>4, <3>3
    <3>6. CASE target = "Committed"
      <4>1. On(c, InState(c, "Committed"), s) = C \cup {id}
        BY <3>2, <3>6
      <4>2. c.committed[s] = g[C] + record.request.amount
        BY <1>3, <2>2, <2>4, <3>6
      <4>3. c.committed[s] = g[C \cup {id}]
        BY <1>12, <2>2, <3>4, <4>2
      <4> QED BY <3>1, <3>5, <4>1, <4>3
    <3>7. CASE target # "Committed"
      BY <1>3, <2>2, <3>1, <3>2, <3>5, <3>7
    <3> QED BY <3>6, <3>7
  <2> QED BY <2>3, <2>4
<1>14. ASSUME NEW s \in DOMAIN c.policies
       PROVE  g[On(c, Unreported(c, s), s)] <= c.policies[s].limit
  <2> DEFINE Q == On(b, Unreported(b, s), s)
             P == On(c, Unreported(c, s), s)
  <2>1. P \in SUBSET Q
    <3>1. InState(c, "Reserved") \cup InState(c, "Committed")
            \subseteq InState(b, "Reserved") \cup InState(b, "Committed")
      BY <1>9, <1>10
    <3> QED BY <1>9, <1>11, <3>1 DEF On, Unreported
  <2>2. Q \in SUBSET Retained(b)
    BY <1>9 DEF On, Unreported
  <2>3. s \in DOMAIN b.policies /\ g[Q] <= b.policies[s].limit
    BY <1>3, <1>8 DEF Exact
  <2> HIDE DEF P, Q
  <2>4. AddsUp(g, Q, P)
    BY <1>0, <2>1, <2>2, AddsPart
  <2>5. b.policies[s].limit \in Nat
    BY <2>3, PolicyFacts, BudgetAssumption DEF Policy
  <2>6. g[P] <= b.policies[s].limit
    BY <2>3, <2>4, <2>5 DEF AddsUp
  <2> QED BY <1>3, <2>6 DEF P
<1> QED BY <1>0, <1>1, <1>7, <1>13, <1>14 DEF Exact, BookExact

\* A new reservation adds its amount, and reports every limit it takes usage over.
LEMMA ChargeExact ==
    ASSUME NEW b \in Book, NEW id \in ReservationIds, NEW req \in BudgetRequests,
           b.reservations[id] = NoRecord, Charge(b, id, req) \in Book, BookExact(b)
    PROVE  BookExact(Charge(b, id, req))
<1>1. PICK c \in Book : c = Charge(b, id, req)
  OBVIOUS
<1>2. PICK record : record = [state |-> "Reserved", request |-> req,
                              applied |-> Applicable(b, req), breaches |-> Breached(b, req)]
  OBVIOUS
<1>3. /\ c.policies = b.policies /\ c.committed = b.committed
      /\ \A s \in Scopes : c.reserved[s] =
            IF s \in record.applied THEN b.reserved[s] + req.amount ELSE b.reserved[s]
      /\ c.reservations = [b.reservations EXCEPT ![id] = record]
  BY <1>1, <1>2 DEF Charge
<1>4. /\ b.reservations \in [ReservationIds -> Record \cup {NoRecord}]
      /\ b.reserved \in [Scopes -> Nat] /\ b.committed \in [Scopes -> Nat]
      /\ req.amount \in Nat
  BY BudgetAssumption DEF Book
<1>5. c.reservations[id] = record /\ \A i \in ReservationIds \ {id} : c.reservations[i] = b.reservations[i]
  BY <1>3, <1>4
<1>6. record # NoRecord /\ record.state = "Reserved" /\ record.request = req
  <2>1. record.state = "Reserved" /\ record.request = req
    BY <1>2
  <2>2. NoRecord.state = "Absent"
    BY DEF NoRecord
  <2> QED BY <2>1, <2>2
<1>7. Retained(c) = Retained(b) \cup {id} /\ id \notin Retained(b)
  BY <1>5, <1>6 DEF Retained
<1>8. PICK g : Exact(b, g)
  BY DEF BookExact
<1>9. IsFiniteSet(Retained(b)) /\ Adds(g, Amounts(b), Retained(b))
  BY <1>8 DEF Exact
<1>10. IsFiniteSet(Retained(c))
  BY <1>7, <1>9, FS_AddElement
<1>11. PICK h : Adds(h, Amounts(c), Retained(c))
  <2>1. Amounts(c) \in [Retained(c) -> Nat]
    BY StatesRetained DEF Amounts
  <2> QED BY <1>10, <2>1, AddsExists
<1>12. ASSUME NEW T \in SUBSET Retained(b)
       PROVE  h[T] = g[T] /\ h[T \cup {id}] = g[T] + req.amount /\ g[T] \in Nat
  <2>1. T \in SUBSET Retained(c) /\ IsFiniteSet(T) /\ id \in Retained(c) /\ id \notin T
    BY <1>7, <1>9, FS_Subset
  <2>2. \A i \in T : Amounts(c)[i] = Amounts(b)[i]
    BY <1>5, <1>7, StatesRetained DEF Amounts
  <2>3. h[T] = g[T]
    BY <1>9, <1>11, <2>1, <2>2, AddsAgree
  <2>4. Amounts(c)[id] = req.amount
    BY <1>5, <1>6, <2>1 DEF Amounts
  <2>5. h[T \cup {id}] = Amounts(c)[id] + h[T]
    BY <1>11, <2>1, AddsOne
  <2>6. g[T] \in Nat
    BY <1>9 DEF Adds
  <2> QED BY <1>4, <2>3, <2>4, <2>5, <2>6
<1>13. /\ InState(b, "Reserved") \subseteq Retained(b) /\ InState(b, "Committed") \subseteq Retained(b)
       /\ Retained(b) \subseteq ReservationIds
  BY StatesRetained
<1>14. /\ InState(c, "Reserved") = InState(b, "Reserved") \cup {id}
       /\ InState(c, "Committed") = InState(b, "Committed")
  <2>1. b.reservations[id].state = "Absent"
    BY DEF NoRecord
  <2> QED BY <1>5, <1>6, <2>1 DEF InState
<1>15. \A i \in Retained(b) : i \in ReservationIds \ {id} /\ c.reservations[i] = b.reservations[i]
  BY <1>5, <1>7, <1>13
<1>16. ASSUME NEW s \in Scopes
       PROVE  /\ c.reserved[s] = h[On(c, InState(c, "Reserved"), s)]
              /\ c.committed[s] = h[On(c, InState(c, "Committed"), s)]
  <2> DEFINE R == On(b, InState(b, "Reserved"), s)
             C == On(b, InState(b, "Committed"), s)
  <2>1. R \in SUBSET Retained(b) /\ C \in SUBSET Retained(b)
    BY <1>13 DEF On
  <2>2. On(c, InState(c, "Committed"), s) = C
    BY <1>13, <1>14, <1>15 DEF On
  <2>3. On(c, InState(c, "Reserved"), s) = IF s \in record.applied THEN R \cup {id} ELSE R
    BY <1>5, <1>13, <1>14, <1>15 DEF On
  <2>4. b.reserved[s] = g[R] /\ b.committed[s] = g[C]
    BY <1>8 DEF Exact
  <2> HIDE DEF R, C
  <2>5. c.committed[s] = h[C]
    BY <1>3, <1>12, <2>1, <2>4
  <2>6. h[R] = g[R] /\ h[R \cup {id}] = g[R] + req.amount
    BY <1>12, <2>1
  <2>7. CASE s \in record.applied
    BY <1>3, <2>2, <2>3, <2>4, <2>5, <2>6, <2>7
  <2>8. CASE s \notin record.applied
    BY <1>3, <2>2, <2>3, <2>4, <2>5, <2>6, <2>8
  <2> QED BY <2>7, <2>8
<1>17. ASSUME NEW s \in DOMAIN c.policies
       PROVE  h[On(c, Unreported(c, s), s)] <= c.policies[s].limit
  <2> DEFINE R == On(b, InState(b, "Reserved"), s)
             C == On(b, InState(b, "Committed"), s)
             Q == On(b, Unreported(b, s), s)
  <2>1. s \in DOMAIN b.policies /\ s \in Scopes /\ b.policies[s].limit \in Nat
    BY <1>3, PolicyFacts, BudgetAssumption DEF Policy
  <2>2. /\ Q \in SUBSET (R \cup C) /\ R \cup C \in SUBSET Retained(b)
        /\ R \in SUBSET Retained(b) /\ C \in SUBSET Retained(b) /\ R \cap C = {}
    <3>1. R \cap C = {}
      BY DEF On, InState
    <3> QED BY <1>13, <3>1 DEF On, Unreported
  <2>3. On(c, Unreported(c, s), s) =
            IF s \in record.applied /\ s \notin record.breaches THEN Q \cup {id} ELSE Q
    BY <1>5, <1>13, <1>14, <1>15 DEF On, Unreported
  <2>4. b.reserved[s] = g[R] /\ b.committed[s] = g[C] /\ g[Q] <= b.policies[s].limit
    BY <1>8, <2>1 DEF Exact
  <2> HIDE DEF R, C, Q
  <2>5. Q \in SUBSET Retained(b) /\ IsFiniteSet(C)
    BY <1>9, <2>2, FS_Subset
  <2>6. h[Q] = g[Q] /\ h[Q \cup {id}] = g[Q] + req.amount /\ g[Q] \in Nat
    BY <1>12, <2>5
  <2>7. CASE s \in record.applied /\ s \notin record.breaches
    <3>1. g[R \cup C] = b.committed[s] + b.reserved[s]
      BY <1>8, <2>1, UsageAdds DEF R, C
    <3>2. AddsUp(g, R \cup C, Q)
      <4>1. PICK T : T = R \cup C
        OBVIOUS
      <4>2. T \in SUBSET Retained(b) /\ Q \in SUBSET T
        BY <2>2, <4>1
      <4>3. AddsUp(g, T, Q)
        BY <1>9, <4>2, AddsPart
      <4> QED BY <4>1, <4>3
    <3>3. s \in Applicable(b, req) /\ s \notin Breached(b, req)
      BY <1>2, <2>7
    <3>4. b.reserved[s] \in Nat /\ b.committed[s] \in Nat
      BY <1>4, <2>1
    <3>5. b.committed[s] + b.reserved[s] + req.amount <= b.policies[s].limit
      BY <1>4, <2>1, <3>3, <3>4 DEF Breached, Projected
    <3>6. g[Q] <= b.committed[s] + b.reserved[s]
      BY <2>4, <3>1, <3>2, <3>4 DEF AddsUp
    <3>7. g[Q] + req.amount <= b.policies[s].limit
      BY <1>4, <2>1, <2>6, <3>4, <3>5, <3>6
    <3> QED BY <1>3, <2>3, <2>6, <2>7, <3>7
  <2>8. CASE ~(s \in record.applied /\ s \notin record.breaches)
    BY <1>3, <2>3, <2>4, <2>6, <2>8
  <2> QED BY <2>7, <2>8
<1> QED BY <1>1, <1>10, <1>11, <1>16, <1>17 DEF Exact, BookExact

-----------------------------------------------------------------------------
\* The hard limits of one book.
BookWithinLimits(b) ==
    \A s \in DOMAIN b.policies :
        b.policies[s].hard => b.committed[s] + b.reserved[s] <= b.policies[s].limit

\* How one record of a book may change.
RecordEvolves(before, after) ==
    /\ before.state \notin {"Absent", "Reserved"} => after = before
    /\ before.state = "Reserved" => after # NoRecord /\ after.request = before.request

\* What every operation guarantees of the book it returns.
Keeps(b, c) ==
    /\ c \in Book
    /\ BookWithinLimits(b) => BookWithinLimits(c)
    /\ BookExact(b) => BookExact(c)
    /\ \A id \in ReservationIds : RecordEvolves(b.reservations[id], c.reservations[id])

UsageIsExact == \A g \in Held : BookExact(books[g])

BudgetIInv == BudgetTypeOK /\ HardLimitsHold /\ UsageIsExact


\* Doing nothing is allowed.
LEMMA KeepsItself ==
    ASSUME NEW b \in Book
    PROVE  Keeps(b, b)
<1>1. ASSUME NEW id \in ReservationIds
      PROVE  RecordEvolves(b.reservations[id], b.reservations[id])
  <2>1. b.reservations[id] \in Record \cup {NoRecord}
    BY DEF Book
  <2> QED
    BY <2>1 DEF RecordEvolves, Record, NoRecord
<1> QED
  BY <1>1 DEF Keeps

\* What Keeps says of two operations in a row.
LEMMA KeepsComposes ==
    ASSUME NEW b \in Book, NEW c \in Book, NEW d \in Book, Keeps(b, c), Keeps(c, d)
    PROVE  Keeps(b, d)
<1>1. ASSUME NEW id \in ReservationIds
      PROVE  RecordEvolves(b.reservations[id], d.reservations[id])
  <2>1. /\ RecordEvolves(b.reservations[id], c.reservations[id])
        /\ RecordEvolves(c.reservations[id], d.reservations[id])
    BY DEF Keeps
  <2>2. /\ b.reservations[id] \in Record \cup {NoRecord}
        /\ c.reservations[id] \in Record \cup {NoRecord}
        /\ d.reservations[id] \in Record \cup {NoRecord}
    BY DEF Book
  <2>3. CASE b.reservations[id].state \notin {"Absent", "Reserved"}
    BY <2>1, <2>3 DEF RecordEvolves
  <2>4. CASE b.reservations[id].state = "Reserved"
    <3>1. c.reservations[id] \in Record /\ c.reservations[id].request = b.reservations[id].request
      BY <2>1, <2>2, <2>4 DEF RecordEvolves
    <3>2. CASE c.reservations[id].state = "Reserved"
      BY <2>1, <2>4, <3>1, <3>2 DEF RecordEvolves
    <3>3. CASE c.reservations[id].state # "Reserved"
      <4>1. d.reservations[id] = c.reservations[id]
        BY <2>1, <3>1, <3>3 DEF RecordEvolves, Record
      <4>2. d.reservations[id] # NoRecord
        BY <3>1, <4>1 DEF Record, NoRecord
      <4> QED
        BY <2>4, <3>1, <4>1, <4>2 DEF RecordEvolves
    <3> QED
      BY <3>2, <3>3
  <2>5. CASE b.reservations[id].state = "Absent"
    BY <2>5 DEF RecordEvolves
  <2> QED
    BY <2>3, <2>4, <2>5
<1> QED
  BY <1>1 DEF Keeps

\* expire_records only releases, and never more than is reserved.
LEMMA SweepKeeps ==
    ASSUME NEW b \in Book, NEW now \in Nat, ~SweepFails(b, now)
    PROVE  Keeps(b, Sweep(b, now))
<1> DEFINE c == Sweep(b, now)
           cut(s) == AmountOn(b, Due(b, now), s)
<1>1. /\ b.reserved \in [Scopes -> Nat] /\ b.committed \in [Scopes -> Nat]
      /\ b.policies \in PolicySet
      /\ b.reservations \in [ReservationIds -> Record \cup {NoRecord}]
  BY DEF Book
<1>2. \A s \in Scopes : cut(s) \in 0..b.reserved[s]
  BY DEF SweepFails
<1>3. /\ c.policies = b.policies /\ c.committed = b.committed
      /\ c.reserved = [s \in Scopes |-> b.reserved[s] - cut(s)]
      /\ c.reservations = [id \in ReservationIds |->
            IF id \in Due(b, now) THEN [b.reservations[id] EXCEPT !.state = "Expired"]
                                  ELSE b.reservations[id]]
      /\ c = [policies |-> c.policies, reserved |-> c.reserved,
              committed |-> c.committed, reservations |-> c.reservations]
  BY DEF Sweep
<1> HIDE DEF c, cut
<1>4. c.reserved \in [Scopes -> Nat] /\ \A s \in Scopes : c.reserved[s] <= b.reserved[s]
  BY <1>1, <1>2, <1>3
<1>5. \A id \in Due(b, now) : b.reservations[id] \in Record /\ b.reservations[id].state = "Reserved"
  BY <1>1 DEF Due, InState, Record, NoRecord
<1>6. ASSUME NEW id \in ReservationIds
      PROVE  /\ c.reservations[id] \in Record \cup {NoRecord}
             /\ RecordEvolves(b.reservations[id], c.reservations[id])
  <2>1. CASE id \in Due(b, now)
    <3>1. c.reservations[id] = [b.reservations[id] EXCEPT !.state = "Expired"]
      BY <1>3, <2>1
    <3>2. c.reservations[id] \in Record /\ c.reservations[id].request = b.reservations[id].request
      BY <1>5, <2>1, <3>1 DEF Record
    <3>3. c.reservations[id] # NoRecord
      BY <3>2 DEF Record, NoRecord
    <3> QED
      BY <1>5, <2>1, <3>2, <3>3 DEF RecordEvolves
  <2>2. CASE id \notin Due(b, now)
    <3>1. c.reservations[id] = b.reservations[id]
      BY <1>3, <2>2
    <3> QED
      BY <1>1, <3>1, KeepsItself DEF Keeps
  <2> QED
    BY <2>1, <2>2
<1>7. c.reservations \in [ReservationIds -> Record \cup {NoRecord}]
  BY <1>3, <1>6
<1>8. c \in Book
  BY <1>1, <1>3, <1>4, <1>7 DEF Book
<1>9. BookWithinLimits(b) => BookWithinLimits(c)
  <2> SUFFICES ASSUME BookWithinLimits(b), NEW s \in DOMAIN b.policies, b.policies[s].hard
               PROVE  c.committed[s] + c.reserved[s] <= c.policies[s].limit
    BY <1>3 DEF BookWithinLimits
  <2>1. s \in Scopes /\ b.policies[s].limit \in Nat
    BY PolicyFacts, BudgetAssumption DEF Policy
  <2>2. b.committed[s] + b.reserved[s] <= b.policies[s].limit
    BY DEF BookWithinLimits
  <2> QED
    BY <1>1, <1>3, <1>4, <2>1, <2>2
<1>10. BookExact(b) => BookExact(c)
  BY <1>8, SweepExact DEF c
<1> QED
  BY <1>6, <1>8, <1>9, <1>10 DEF Keeps, c

\* A reservation is charged only where it fits below every hard limit.
LEMMA InsertKeeps ==
    ASSUME NEW b \in Book, NEW id \in ReservationIds, NEW req \in BudgetRequests, NEW now \in Nat,
           b.reservations[id] = NoRecord
    PROVE  Keeps(b, InsertReservation(b, id, req, now).book)
<1> DEFINE c == Charge(b, id, req)
           app == Applicable(b, req)
           brs == Breached(b, req)
<1>1. CASE Refusal(b, req, now) # "Ok"
  <2>1. InsertReservation(b, id, req, now).book = b
    BY <1>1 DEF InsertReservation, Result
  <2> QED
    BY <2>1, KeepsItself
<1>2. CASE Refusal(b, req, now) = "Ok"
  <2>1. InsertReservation(b, id, req, now).book = c
    BY <1>2 DEF InsertReservation, Result
  <2>2. /\ b.reserved \in [Scopes -> Nat] /\ b.committed \in [Scopes -> Nat]
        /\ b.policies \in PolicySet
        /\ b.reservations \in [ReservationIds -> Record \cup {NoRecord}]
    BY DEF Book
  <2>3. req.amount \in Nat /\ req.amount > 0
    BY BudgetAssumption
  <2>4. /\ c.policies = b.policies /\ c.committed = b.committed
        /\ c.reserved = [s \in Scopes |-> IF s \in app THEN b.reserved[s] + req.amount
                                                       ELSE b.reserved[s]]
        /\ c.reservations = [b.reservations EXCEPT ![id] =
              [state |-> "Reserved", request |-> req, applied |-> app, breaches |-> brs]]
        /\ c = [policies |-> c.policies, reserved |-> c.reserved,
                committed |-> c.committed, reservations |-> c.reservations]
    BY DEF Charge
  <2>5. app \subseteq Scopes /\ brs \subseteq Scopes
    BY PolicyFacts DEF Applicable, Breached
  <2>6. \A s \in app : b.policies[s].hard =>
            b.committed[s] + b.reserved[s] + req.amount <= b.policies[s].limit
    <3>1. ~\E s \in brs : b.policies[s].hard
      BY <1>2 DEF Refusal
    <3>2. ASSUME NEW s \in app, b.policies[s].hard
          PROVE  b.committed[s] + b.reserved[s] + req.amount <= b.policies[s].limit
      <4>1. s \in Scopes /\ b.policies[s].limit \in Nat
        BY <2>5, PolicyFacts, BudgetAssumption DEF Policy, Applicable
      <4>2. ~(Projected(b, s, req.amount) > b.policies[s].limit)
        BY <3>1, <3>2 DEF Breached
      <4> QED
        BY <2>2, <2>3, <4>1, <4>2 DEF Projected
    <3> QED
      BY <3>2
  <2> HIDE DEF c, app, brs
  <2>7. [state |-> "Reserved", request |-> req, applied |-> app, breaches |-> brs] \in Record
    BY <2>5 DEF Record
  <2>8. c.reservations \in [ReservationIds -> Record \cup {NoRecord}]
    BY <2>2, <2>4, <2>7
  <2>9. c.reserved \in [Scopes -> Nat]
    BY <2>2, <2>3, <2>4
  <2>10. c \in Book
    BY <2>2, <2>4, <2>8, <2>9 DEF Book
  <2>11. ASSUME NEW i \in ReservationIds
         PROVE  RecordEvolves(b.reservations[i], c.reservations[i])
    <3>1. CASE i = id
      BY <3>1 DEF RecordEvolves, NoRecord
    <3>2. CASE i # id
      <4>1. c.reservations[i] = b.reservations[i]
        BY <2>2, <2>4, <3>2
      <4> QED
        BY <4>1, KeepsItself DEF Keeps
    <3> QED
      BY <3>1, <3>2
  <2>12. BookWithinLimits(b) => BookWithinLimits(c)
    <3> SUFFICES ASSUME BookWithinLimits(b), NEW s \in DOMAIN b.policies, b.policies[s].hard
                 PROVE  c.committed[s] + c.reserved[s] <= c.policies[s].limit
      BY <2>4 DEF BookWithinLimits
    <3>1. s \in Scopes /\ b.policies[s].limit \in Nat
      BY PolicyFacts, BudgetAssumption DEF Policy
    <3>2. b.committed[s] + b.reserved[s] <= b.policies[s].limit
      BY DEF BookWithinLimits
    <3> QED
      BY <2>2, <2>3, <2>4, <2>6, <3>1, <3>2
  <2>13. BookExact(b) => BookExact(c)
    BY <2>10, ChargeExact DEF c
  <2> QED
    BY <2>1, <2>10, <2>11, <2>12, <2>13 DEF Keeps
<1> QED
  BY <1>1, <1>2

\* commit and release move an amount that was reserved.
LEMMA TransitionKeeps ==
    ASSUME NEW b \in Book, NEW id \in ReservationIds, NEW target \in {"Committed", "Released"}
    PROVE  Keeps(b, Transition(b, id, target).book)
<1> DEFINE record == b.reservations[id]
           c == Settle(b, id, target)
           moves == /\ record # NoRecord /\ record.state # target
                    /\ record.state = "Reserved" /\ ~TransitionOverflows(b, record, target)
<1>1. CASE ~moves
  <2>1. Transition(b, id, target).book = b
    BY <1>1 DEF Transition, Result
  <2> QED
    BY <2>1, KeepsItself
<1>2. CASE moves
  <2>1. Transition(b, id, target).book = c
    BY <1>2 DEF Transition, Result
  <2>2. /\ b.reserved \in [Scopes -> Nat] /\ b.committed \in [Scopes -> Nat]
        /\ b.policies \in PolicySet
        /\ b.reservations \in [ReservationIds -> Record \cup {NoRecord}]
    BY DEF Book
  <2>3. record \in Record /\ record.state = "Reserved"
    BY <1>2, <2>2
  <2> DEFINE amount == record.request.amount
  <2>4. amount \in Nat /\ record.applied \subseteq Scopes
    BY <2>3, BudgetAssumption DEF Record
  <2>5. \A s \in record.applied : amount <= b.reserved[s]
    BY <1>2, <2>2, <2>4 DEF TransitionOverflows
  <2>6. /\ c.policies = b.policies
        /\ c.reserved = [s \in Scopes |->
              IF s \in record.applied THEN b.reserved[s] - amount ELSE b.reserved[s]]
        /\ c.committed = [s \in Scopes |->
              IF s \in record.applied /\ target = "Committed"
              THEN b.committed[s] + amount ELSE b.committed[s]]
        /\ c.reservations = [b.reservations EXCEPT ![id] = [record EXCEPT !.state = target]]
        /\ c = [policies |-> c.policies, reserved |-> c.reserved,
                committed |-> c.committed, reservations |-> c.reservations]
    BY DEF Settle
  <2>7. [record EXCEPT !.state = target] \in Record
    BY <2>3 DEF Record
  <2>8. [record EXCEPT !.state = target].request = record.request
    BY <2>3 DEF Record
  <2>9. [record EXCEPT !.state = target] # NoRecord
    BY <2>7 DEF Record, NoRecord
  <2> HIDE DEF c, amount, record
  <2>10. c.reservations \in [ReservationIds -> Record \cup {NoRecord}]
    BY <2>2, <2>6, <2>7
  <2>11. /\ c.reserved \in [Scopes -> Nat] /\ c.committed \in [Scopes -> Nat]
         /\ \A s \in Scopes : c.committed[s] + c.reserved[s] <= b.committed[s] + b.reserved[s]
    BY <2>2, <2>4, <2>5, <2>6
  <2>12. c \in Book
    BY <2>2, <2>6, <2>10, <2>11 DEF Book
  <2>13. ASSUME NEW i \in ReservationIds
         PROVE  RecordEvolves(b.reservations[i], c.reservations[i])
    <3>1. CASE i = id
      BY <2>2, <2>3, <2>6, <2>8, <2>9, <3>1 DEF RecordEvolves, record
    <3>2. CASE i # id
      <4>1. c.reservations[i] = b.reservations[i]
        BY <2>2, <2>6, <3>2
      <4> QED
        BY <4>1, KeepsItself DEF Keeps
    <3> QED
      BY <3>1, <3>2
  <2>14. BookWithinLimits(b) => BookWithinLimits(c)
    <3> SUFFICES ASSUME BookWithinLimits(b), NEW s \in DOMAIN b.policies, b.policies[s].hard
                 PROVE  c.committed[s] + c.reserved[s] <= c.policies[s].limit
      BY <2>6 DEF BookWithinLimits
    <3>1. s \in Scopes /\ b.policies[s].limit \in Nat
      BY PolicyFacts, BudgetAssumption DEF Policy
    <3>2. b.committed[s] + b.reserved[s] <= b.policies[s].limit
      BY DEF BookWithinLimits
    <3> QED
      BY <2>2, <2>6, <2>11, <3>1, <3>2
  <2>15. BookExact(b) => BookExact(c)
    BY <2>3, <2>12, SettleExact DEF c, record
  <2> QED
    BY <2>1, <2>12, <2>13, <2>14, <2>15 DEF Keeps
<1> QED
  BY <1>1, <1>2

LEMMA ExpireKeeps ==
    ASSUME NEW b \in Book, NEW now \in Nat
    PROVE  Keeps(b, ExpireBook(b, now).book)
<1>1. CASE SweepFails(b, now)
  BY <1>1, KeepsItself DEF ExpireBook, Result
<1>2. CASE ~SweepFails(b, now)
  <2>1. ExpireBook(b, now).book = Sweep(b, now)
    BY <1>2 DEF ExpireBook, Result
  <2> QED
    BY <1>2, <2>1, SweepKeeps
<1> QED
  BY <1>1, <1>2

\* Sweeping and then inserting under an unused identity.
LEMMA SweepInsertKeeps ==
    ASSUME NEW b \in Book, NEW id \in ReservationIds, NEW req \in BudgetRequests, NEW now \in Nat,
           ~SweepFails(b, now), Sweep(b, now).reservations[id] = NoRecord
    PROVE  Keeps(b, InsertReservation(Sweep(b, now), id, req, now).book)
<1>1. Keeps(b, Sweep(b, now)) /\ Sweep(b, now) \in Book
  BY SweepKeeps DEF Keeps
<1>2. Keeps(Sweep(b, now), InsertReservation(Sweep(b, now), id, req, now).book)
  BY <1>1, InsertKeeps
<1>3. InsertReservation(Sweep(b, now), id, req, now).book \in Book
  BY <1>2 DEF Keeps
<1> QED
  BY <1>1, <1>2, <1>3, KeepsComposes

LEMMA ReserveKeeps ==
    ASSUME NEW b \in Book, NEW id \in ReservationIds, NEW req \in BudgetRequests, NEW now \in Nat
    PROVE  Keeps(b, Reserve(b, id, req, now).book)
<1>1. CASE SweepFails(b, now)
  BY <1>1, KeepsItself DEF Reserve, Result
<1>2. CASE ~SweepFails(b, now) /\ id \in Retained(Sweep(b, now))
  <2>1. Reserve(b, id, req, now).book = Sweep(b, now)
    BY <1>2 DEF Reserve, Result
  <2> QED
    BY <1>2, <2>1, SweepKeeps
<1>3. CASE ~SweepFails(b, now) /\ id \notin Retained(Sweep(b, now))
  <2>1. Reserve(b, id, req, now).book = InsertReservation(Sweep(b, now), id, req, now).book
    BY <1>3 DEF Reserve
  <2>2. Sweep(b, now).reservations[id] = NoRecord
    BY <1>3 DEF Retained
  <2> QED
    BY <1>3, <2>1, <2>2, SweepInsertKeeps
<1> QED
  BY <1>1, <1>2, <1>3

LEMMA ReserveFreshKeeps ==
    ASSUME NEW b \in Book, NEW id \in ReservationIds, NEW req \in BudgetRequests, NEW now \in Nat
    PROVE  Keeps(b, ReserveFresh(b, id, req, now).book)
<1>1. CASE id \in Retained(b) \/ SweepFails(b, now)
  <2>1. ReserveFresh(b, id, req, now).book = b
    BY <1>1 DEF ReserveFresh, Result
  <2> QED
    BY <2>1, KeepsItself
<1>2. CASE ~(id \in Retained(b) \/ SweepFails(b, now))
  <2>1. ReserveFresh(b, id, req, now).book = InsertReservation(Sweep(b, now), id, req, now).book
    BY <1>2 DEF ReserveFresh
  <2>2. b.reservations[id] = NoRecord
    BY <1>2 DEF Retained
  <2>3. id \notin Due(b, now)
    BY <2>2 DEF Due, InState, NoRecord
  <2>4. Sweep(b, now).reservations[id] = NoRecord
    BY <2>2, <2>3 DEF Sweep
  <2> QED
    BY <1>2, <2>1, <2>4, SweepInsertKeeps
<1> QED
  BY <1>1, <1>2

-----------------------------------------------------------------------------

\* A newly published book is empty, and exact.
LEMMA NewBookOK ==
    ASSUME NEW policies \in PolicySet
    PROVE  /\ NewBook(policies) \in Book /\ BookWithinLimits(NewBook(policies))
           /\ BookExact(NewBook(policies))
<1> DEFINE b == NewBook(policies)
<1>1. /\ b.policies = policies /\ policies \in PolicySet
      /\ b.reserved = [s \in Scopes |-> 0] /\ b.committed = [s \in Scopes |-> 0]
      /\ b.reservations = [id \in ReservationIds |-> NoRecord]
      /\ b = [policies |-> b.policies, reserved |-> b.reserved,
              committed |-> b.committed, reservations |-> b.reservations]
  BY DEF NewBook
<1> HIDE DEF b
<1>2. b \in Book
  BY <1>1 DEF Book
<1>3. BookWithinLimits(b)
  <2> SUFFICES ASSUME NEW s \in DOMAIN b.policies
               PROVE  b.committed[s] + b.reserved[s] <= b.policies[s].limit
    BY DEF BookWithinLimits
  <2>1. s \in Scopes /\ b.policies[s].limit \in Nat
    BY <1>2, PolicyFacts, BudgetAssumption DEF Policy
  <2> QED
    BY <1>1, <2>1
<1>4. BookExact(b)
  <2>1. Retained(b) = {}
    BY <1>1 DEF Retained
  <2>2. IsFiniteSet(Retained(b))
    BY <2>1, FS_EmptySet
  <2>3. PICK g : Adds(g, Amounts(b), Retained(b))
    <3>1. Amounts(b) \in [Retained(b) -> Nat]
      BY <2>1 DEF Amounts
    <3> QED BY <2>2, <3>1, AddsExists
  <2>4. \A s : /\ On(b, InState(b, "Reserved"), s) = {} /\ On(b, InState(b, "Committed"), s) = {}
               /\ On(b, Unreported(b, s), s) = {}
    BY <1>2, <2>1, StatesRetained DEF On, Unreported
  <2>5. g[{}] = 0
    BY <2>3 DEF Adds
  <2>6. \A s \in DOMAIN b.policies : b.policies[s].limit \in Nat
    BY <1>2, PolicyFacts, BudgetAssumption DEF Policy
  <2>7. \A s \in Scopes : b.reserved[s] = 0 /\ b.committed[s] = 0
    BY <1>1
  <2>8. \A s \in DOMAIN b.policies : g[On(b, Unreported(b, s), s)] <= b.policies[s].limit
    BY <2>4, <2>5, <2>6
  <2> QED BY <2>2, <2>3, <2>4, <2>5, <2>7, <2>8 DEF Exact, BookExact
<1> QED
  BY <1>2, <1>3, <1>4 DEF b

\* What a step may do to the books that exist before it.
Evolution == \A g \in Held, id \in ReservationIds :
                RecordEvolves(books[g].reservations[id], books'[g].reservations[id])

\* A call that keeps its book preserves the invariant.
LEMMA CallKeeps ==
    ASSUME BudgetIInv, NEW g \in Held, NEW result, Keeps(books[g], result.book), Call(g, result)
    PROVE  BudgetIInv' /\ Evolution
<1>1. /\ generation' = generation
      /\ books \in [0..generation -> Book]
      /\ books' = [books EXCEPT ![g] = result.book]
  BY DEF BudgetIInv, BudgetTypeOK, Call
<1>2. result.book \in Book
  BY DEF Keeps
<1>3. BudgetTypeOK'
  BY <1>1, <1>2 DEF BudgetIInv, BudgetTypeOK
<1>4. ASSUME NEW h \in Held
      PROVE  BookWithinLimits(books'[h])
  <2>1. BookWithinLimits(books[h])
    BY DEF BudgetIInv, HardLimitsHold, BookWithinLimits
  <2>2. CASE h = g
    BY <1>1, <2>1, <2>2 DEF Keeps, Held
  <2>3. CASE h # g
    BY <1>1, <2>1, <2>3 DEF Held
  <2> QED
    BY <2>2, <2>3
<1>5. HardLimitsHold'
  BY <1>1, <1>4 DEF HardLimitsHold, BookWithinLimits, Held
<1>7. ASSUME NEW h \in Held
      PROVE  BookExact(books'[h])
  <2>1. BookExact(books[h])
    BY DEF BudgetIInv, UsageIsExact
  <2>2. CASE h = g
    BY <1>1, <2>1, <2>2 DEF Keeps, Held
  <2>3. CASE h # g
    BY <1>1, <2>1, <2>3 DEF Held
  <2> QED
    BY <2>2, <2>3
<1>8. UsageIsExact'
  BY <1>1, <1>7 DEF UsageIsExact, Held
<1>6. ASSUME NEW h \in Held, NEW id \in ReservationIds
      PROVE  RecordEvolves(books[h].reservations[id], books'[h].reservations[id])
  <2>1. CASE h = g
    BY <1>1, <2>1 DEF Keeps, Held
  <2>2. CASE h # g
    <3>1. books'[h] = books[h] /\ books[h] \in Book
      BY <1>1, <2>2 DEF Held
    <3> QED
      BY <3>1, KeepsItself DEF Keeps
  <2> QED
    BY <2>1, <2>2
<1> QED
  BY <1>3, <1>5, <1>6, <1>8 DEF BudgetIInv, Evolution

LEMMA PublishKeeps ==
    ASSUME BudgetIInv, NEW expected, NEW policies \in PolicySets, Publish(expected, policies)
    PROVE  BudgetIInv' /\ Evolution
<1>1. books \in [0..generation -> Book] /\ generation \in 0..MaxGeneration
  BY DEF BudgetIInv, BudgetTypeOK
<1>2. ASSUME NEW h \in Held, NEW id \in ReservationIds
      PROVE  RecordEvolves(books[h].reservations[id], books[h].reservations[id])
  <2>1. books[h] \in Book
    BY <1>1 DEF Held
  <2> QED
    BY <2>1, KeepsItself DEF Keeps
<1>3. CASE expected = generation /\ generation < MaxGeneration
  <2>1. /\ generation' = generation + 1
        /\ books' = [g \in 0..generation + 1 |->
                        IF g = generation + 1 THEN NewBook(policies) ELSE books[g]]
    BY <1>3 DEF Publish
  <2>2. /\ NewBook(policies) \in Book /\ BookWithinLimits(NewBook(policies))
        /\ BookExact(NewBook(policies))
    BY NewBookOK, LedgerAssumption DEF LedgerAssumption
  <2>3. BudgetTypeOK'
    BY <1>1, <1>3, <2>1, <2>2, LedgerAssumption DEF BudgetTypeOK
  <2>4. ASSUME NEW h \in 0..generation + 1
        PROVE  BookWithinLimits(books'[h]) /\ BookExact(books'[h])
    <3>1. CASE h = generation + 1
      BY <1>1, <2>1, <2>2, <3>1
    <3>2. CASE h # generation + 1
      <4>1. h \in 0..generation /\ books'[h] = books[h]
        BY <1>1, <2>1, <3>2
      <4> QED
        BY <4>1 DEF BudgetIInv, HardLimitsHold, BookWithinLimits, UsageIsExact, Held
    <3> QED
      BY <3>1, <3>2
  <2>5. HardLimitsHold'
    BY <2>1, <2>4 DEF HardLimitsHold, BookWithinLimits, Held
  <2>6. UsageIsExact'
    BY <2>1, <2>4 DEF UsageIsExact, Held
  <2>7. \A h \in Held : books'[h] = books[h]
    BY <1>1, <2>1 DEF Held
  <2> QED
    BY <1>2, <2>3, <2>5, <2>6, <2>7 DEF BudgetIInv, Evolution
<1>4. CASE ~(expected = generation /\ generation < MaxGeneration)
  <2>1. UNCHANGED <<generation, books>>
    BY <1>4 DEF Publish
  <2> QED
    BY <1>2, <2>1 DEF BudgetIInv, BudgetTypeOK, HardLimitsHold, UsageIsExact, Held, Evolution
<1> QED
  BY <1>3, <1>4

LEMMA StepKeeps ==
    ASSUME BudgetIInv, [BudgetNext]_budgetVars
    PROVE  BudgetIInv' /\ Evolution
<1>0. /\ \A g \in Held : books[g] \in Book
      /\ Time \subseteq Nat
  BY LedgerAssumption DEF BudgetIInv, BudgetTypeOK, Held
<1>1. ASSUME NEW g \in Held, NEW id \in ReservationIds, Commit(g, id)
      PROVE  BudgetIInv' /\ Evolution
  BY <1>0, <1>1, TransitionKeeps, CallKeeps DEF Commit
<1>2. ASSUME NEW g \in Held, NEW id \in ReservationIds, Release(g, id)
      PROVE  BudgetIInv' /\ Evolution
  BY <1>0, <1>2, TransitionKeeps, CallKeeps DEF Release
<1>3. ASSUME NEW g \in Held, NEW id \in ReservationIds, NEW req \in BudgetRequests,
             NEW now \in Time, ReserveCall(g, id, req, now)
      PROVE  BudgetIInv' /\ Evolution
  BY <1>0, <1>3, ReserveKeeps, CallKeeps DEF ReserveCall
<1>4. ASSUME NEW g \in Held, NEW id \in ReservationIds, NEW req \in BudgetRequests,
             NEW now \in Time, ReserveFreshCall(g, id, req, now)
      PROVE  BudgetIInv' /\ Evolution
  BY <1>0, <1>4, ReserveFreshKeeps, CallKeeps DEF ReserveFreshCall
<1>5. ASSUME NEW g \in Held, NEW now \in Time, Expire(g, now)
      PROVE  BudgetIInv' /\ Evolution
  BY <1>0, <1>5, ExpireKeeps, CallKeeps DEF Expire
<1>6. ASSUME NEW expected, NEW policies \in PolicySets, Publish(expected, policies)
      PROVE  BudgetIInv' /\ Evolution
  BY <1>6, PublishKeeps
<1>7. CASE UNCHANGED budgetVars
  <2>1. ASSUME NEW h \in Held, NEW id \in ReservationIds
        PROVE  RecordEvolves(books[h].reservations[id], books[h].reservations[id])
    BY <1>0, KeepsItself DEF Keeps
  <2> QED
    BY <1>7, <2>1 DEF budgetVars, BudgetIInv, BudgetTypeOK, HardLimitsHold, UsageIsExact, Held, Evolution
<1> QED
  BY <1>1, <1>2, <1>3, <1>4, <1>5, <1>6, <1>7 DEF BudgetNext

\* The invariant of the ledger: typed books, each within its hard limits and with
\* counters that are the sums of its reservations.
THEOREM BudgetInvariant == BudgetSpec => []BudgetIInv
<1>1. BudgetInit => BudgetIInv
  <2> SUFFICES ASSUME BudgetInit
               PROVE  BudgetIInv
    OBVIOUS
  <2>1. PICK policies \in PolicySets : books = [g \in {0} |-> NewBook(policies)]
    BY DEF BudgetInit
  <2>2. /\ NewBook(policies) \in Book /\ BookWithinLimits(NewBook(policies))
        /\ BookExact(NewBook(policies))
    BY NewBookOK, LedgerAssumption DEF LedgerAssumption
  <2>3. generation = 0 /\ 0..generation = {0} /\ books[0] = NewBook(policies)
    BY <2>1 DEF BudgetInit
  <2>4. BudgetTypeOK
    BY <2>1, <2>2, <2>3, LedgerAssumption DEF BudgetTypeOK
  <2>5. HardLimitsHold
    BY <2>2, <2>3 DEF HardLimitsHold, BookWithinLimits, Held
  <2>6. UsageIsExact
    BY <2>2, <2>3 DEF UsageIsExact, Held
  <2> QED
    BY <2>4, <2>5, <2>6 DEF BudgetIInv
<1>2. BudgetIInv /\ [BudgetNext]_budgetVars => BudgetIInv'
  BY StepKeeps
<1> QED
  BY <1>1, <1>2, PTL DEF BudgetSpec

\* Every book a snapshot may hold stays well typed; in particular no counter
\* of reserved or committed usage ever goes below zero.
THEOREM BudgetTyped == BudgetSpec => []BudgetTypeOK
<1>1. BudgetIInv => BudgetTypeOK
  BY DEF BudgetIInv
<1> QED
  BY <1>1, BudgetInvariant, PTL

\* Whatever the callers do, committed and reserved usage together stay within
\* every hard limit of the book.
THEOREM HardLimitsAreKept == BudgetSpec => []HardLimitsHold
<1>1. BudgetIInv => HardLimitsHold
  BY DEF BudgetIInv
<1> QED
  BY <1>1, BudgetInvariant, PTL

\* The counters are exactly what the reserved and the committed reservations hold,
\* and a soft limit is over only while some reservation has the breach on its receipt
\* (reserve_capacity, apply_transition_usage, expire_records).
THEOREM UsageIsAlwaysReported == BudgetSpec => []UsageIsReported
<1>1. BudgetIInv => UsageIsReported
  <2> SUFFICES ASSUME BudgetIInv, NEW g \in Held
               PROVE  /\ \A s \in Scopes :
                            /\ books[g].reserved[s] = AmountOn(books[g], InState(books[g], "Reserved"), s)
                            /\ books[g].committed[s] = AmountOn(books[g], InState(books[g], "Committed"), s)
                      /\ \A s \in DOMAIN books[g].policies :
                            books[g].committed[s] + books[g].reserved[s] > books[g].policies[s].limit
                            => \E id \in InState(books[g], "Reserved") \cup InState(books[g], "Committed") :
                                    s \in books[g].reservations[id].breaches
    BY DEF UsageIsReported, UsageIsAccounted, SoftOverrunsAreReported
  <2>1. books[g] \in Book /\ BookExact(books[g])
    BY DEF BudgetIInv, BudgetTypeOK, UsageIsExact, Held
  <2> QED
    BY <2>1, ExactMeans
<1> QED
  BY <1>1, BudgetInvariant, PTL

\* expiry_decrements and validate_expiry_decrements never refuse a sweep: their
\* ArithmeticOverflow is unreachable, whatever is due at whatever time.
THEOREM ExpiryNeverFails == BudgetSpec => [](\A g \in Held, now \in Time : ~SweepFails(books[g], now))
<1>1. BudgetIInv => \A g \in Held, now \in Time : ~SweepFails(books[g], now)
  <2> SUFFICES ASSUME BudgetIInv, NEW g \in Held, NEW now \in Time
               PROVE  ~SweepFails(books[g], now)
    OBVIOUS
  <2>1. books[g] \in Book /\ BookExact(books[g])
    BY DEF BudgetIInv, BudgetTypeOK, UsageIsExact, Held
  <2> QED
    BY <2>1, ExactSweeps
<1> QED
  BY <1>1, BudgetInvariant, PTL

\* Finalized reservations never change and retained identities are never
\* reused, so no retry recreates consumed capacity.
THEOREM FinalizedRecordsStay == BudgetSpec => FinalizedIsFinal
<1>1. BudgetIInv /\ [BudgetNext]_budgetVars =>
        [\A g \in Held, id \in ReservationIds :
            LET before == books[g].reservations[id]
                after  == books'[g].reservations[id]
            IN /\ before.state \notin {"Absent", "Reserved"} => after = before
               /\ before.state = "Reserved" =>
                      after # NoRecord /\ after.request = before.request]_budgetVars
  BY StepKeeps DEF Evolution, RecordEvolves
<1> QED
  BY <1>1, BudgetInvariant, PTL DEF BudgetSpec, FinalizedIsFinal


-----------------------------------------------------------------------------
(* RoutingAdmission.  The shared book: which state each reservation is in. *)

StateIn(b, id) == b.reservations[id].state

Final == {"Committed", "Released", "Expired"}

\* No counter of a book can overflow.
BookFits(b) == \A s \in Scopes : b.committed[s] + b.reserved[s] <= MaxUnits

BookSound(b) == b \in Book /\ BookExact(b) /\ BookFits(b)

LEMMA StateTypes ==
    ASSUME NEW b \in Book, NEW id \in ReservationIds
    PROVE  /\ StateIn(b, id) \in {"Absent", "Reserved"} \cup Final
           /\ StateIn(b, id) = "Absent" <=> b.reservations[id] = NoRecord
           /\ b.reservations[id] # NoRecord => b.reservations[id] \in Record
<1>1. b.reservations[id] \in Record \cup {NoRecord}
  BY DEF Book
<1> QED BY <1>1 DEF StateIn, Record, NoRecord, Final

LEMMA NewBookSound == BookSound(NewBook(Policies)) /\ \A id \in ReservationIds : StateIn(NewBook(Policies), id) = "Absent"
<1>1. NewBook(Policies) \in Book /\ BookExact(NewBook(Policies))
  BY NewBookOK, RoutingAssumption DEF RoutingAssumption
<1>2. BookFits(NewBook(Policies))
  BY BudgetAssumption DEF NewBook, BookFits
<1>3. \A id \in ReservationIds : StateIn(NewBook(Policies), id) = "Absent"
  BY DEF NewBook, StateIn, NoRecord
<1> QED BY <1>1, <1>2, <1>3 DEF BookSound

\* A sweep expires, and that is all.
LEMMA SweepMoves ==
    ASSUME NEW b, BookSound(b), NEW now \in Nat
    PROVE  /\ ~SweepFails(b, now)
           /\ BookSound(Sweep(b, now))
           /\ \A id \in ReservationIds :
                \/ Sweep(b, now).reservations[id] = b.reservations[id]
                \/ StateIn(b, id) = "Reserved" /\ StateIn(Sweep(b, now), id) = "Expired"
<1>1. b \in Book /\ BookExact(b) /\ BookFits(b)
  BY DEF BookSound
<1>2. ~SweepFails(b, now)
  BY <1>1, ExactSweeps
<1>3. Sweep(b, now) \in Book /\ BookExact(Sweep(b, now))
  BY <1>1, <1>2, SweepKeeps DEF Keeps
<1>4. BookFits(Sweep(b, now))
  <2> SUFFICES ASSUME NEW s \in Scopes
               PROVE  Sweep(b, now).committed[s] + Sweep(b, now).reserved[s] <= MaxUnits
    BY DEF BookFits
  <2>1. AmountOn(b, Due(b, now), s) \in 0..b.reserved[s]
    BY <1>2 DEF SweepFails
  <2>2. b.reserved[s] \in Nat /\ b.committed[s] \in Nat /\ b.committed[s] + b.reserved[s] <= MaxUnits
    BY <1>1 DEF Book, BookFits
  <2>3. /\ Sweep(b, now).committed[s] = b.committed[s]
        /\ Sweep(b, now).reserved[s] = b.reserved[s] - AmountOn(b, Due(b, now), s)
    BY DEF Sweep
  <2> QED BY <2>1, <2>2, <2>3, BudgetAssumption DEF BudgetAssumption
<1>5. ASSUME NEW id \in ReservationIds
      PROVE  \/ Sweep(b, now).reservations[id] = b.reservations[id]
             \/ StateIn(b, id) = "Reserved" /\ StateIn(Sweep(b, now), id) = "Expired"
  <2>1. CASE id \notin Due(b, now)
    BY <2>1 DEF Sweep
  <2>2. CASE id \in Due(b, now)
    <3>1. StateIn(b, id) = "Reserved" /\ b.reservations[id] \in Record
      BY <1>1, <2>2, StateTypes DEF Due, InState, StateIn
    <3>2. Sweep(b, now).reservations[id] = [b.reservations[id] EXCEPT !.state = "Expired"]
      BY <2>2 DEF Sweep
    <3> QED BY <3>1, <3>2 DEF StateIn, Record
  <2> QED BY <2>1, <2>2
<1> QED BY <1>2, <1>3, <1>4, <1>5 DEF BookSound

\* What the other reservations of a book may do meanwhile.
Drifts(b, c, id) ==
    \/ StateIn(c, id) = StateIn(b, id)
    \/ StateIn(b, id) = "Reserved" /\ StateIn(c, id) = "Expired"

\* reserve_fresh makes a reservation of an identity that had none, or none.
LEMMA ReserveMoves ==
    ASSUME NEW b, BookSound(b), NEW id \in ReservationIds, NEW req \in BudgetRequests, NEW now \in Nat,
           NEW r, r = ReserveFresh(b, id, req, now)
    PROVE  /\ BookSound(r.book)
           /\ \A i \in ReservationIds \ {id} : Drifts(b, r.book, i)
           /\ r.code = "Ok" => StateIn(b, id) = "Absent" /\ StateIn(r.book, id) = "Reserved"
           /\ r.code # "Ok" => Drifts(b, r.book, id)
<1> DEFINE c == Sweep(b, now)
<1>1. b \in Book /\ BookExact(b)
  BY DEF BookSound
<1>2. CASE id \in Retained(b)
  BY <1>2 DEF ReserveFresh, Result, Drifts
<1>3. CASE id \notin Retained(b)
  <2>1. r = InsertReservation(c, id, req, now)
    BY <1>3, SweepMoves DEF ReserveFresh
  <2>2. StateIn(b, id) = "Absent" /\ b.reservations[id] = NoRecord
    BY <1>1, <1>3, StateTypes DEF Retained
  <2>3. c.reservations[id] = NoRecord
    BY <2>2, SweepMoves
  <2>4. BookSound(c) /\ \A i \in ReservationIds : Drifts(b, c, i)
    BY SweepMoves DEF Drifts, StateIn
  <2> HIDE DEF c
  <2>5. CASE Refusal(c, req, now) # "Ok"
    BY <2>1, <2>4, <2>5 DEF InsertReservation, Result
  <2>6. CASE Refusal(c, req, now) = "Ok"
    <3> DEFINE d == Charge(c, id, req)
    <3>1. r = Result(d, "Ok")
      BY <2>1, <2>6 DEF InsertReservation
    <3>2. r.book = d /\ r.code = "Ok"
      BY <3>1 DEF Result
    <3>3. d \in Book /\ BookExact(d)
      <4>1. c \in Book /\ BookExact(c)
        BY <2>4 DEF BookSound
      <4>2. Keeps(c, InsertReservation(c, id, req, now).book)
        BY <2>3, <4>1, InsertKeeps
      <4> HIDE DEF d
      <4> QED BY <2>1, <3>2, <4>1, <4>2 DEF Keeps
    <3>4. BookFits(d)
      <4> SUFFICES ASSUME NEW s \in Scopes PROVE d.committed[s] + d.reserved[s] <= MaxUnits
        BY DEF BookFits
      <4>1. c.reserved[s] \in Nat /\ c.committed[s] \in Nat /\ c.committed[s] + c.reserved[s] <= MaxUnits
        BY <2>4 DEF Book, BookFits, BookSound
      <4>2. req.amount \in Nat
        BY BudgetAssumption DEF BudgetAssumption, BudgetRequest
      <4>3. d.committed[s] = c.committed[s]
        BY DEF Charge
      <4>4. CASE s \in Applicable(c, req)
        <5>1. ~(Projected(c, s, req.amount) > MaxUnits)
          BY <2>6, <4>4 DEF Refusal
        <5>2. d.reserved[s] = c.reserved[s] + req.amount
          BY <4>4 DEF Charge
        <5> HIDE DEF d
        <5> QED BY <4>1, <4>2, <4>3, <5>1, <5>2, BudgetAssumption DEF Projected, BudgetAssumption
      <4>5. CASE s \notin Applicable(c, req)
        <5>1. d.reserved[s] = c.reserved[s]
          BY <4>5 DEF Charge
        <5> HIDE DEF d
        <5> QED BY <4>1, <4>3, <5>1
      <4> QED BY <4>4, <4>5
    <3>5. StateIn(d, id) = "Reserved" /\ \A i \in ReservationIds \ {id} : StateIn(d, i) = StateIn(c, i)
      BY <2>4 DEF Charge, StateIn, BookSound, Book
    <3> HIDE DEF d
    <3> QED BY <2>2, <2>4, <3>2, <3>3, <3>4, <3>5 DEF BookSound, Drifts
  <2> QED BY <2>5, <2>6
<1> QED BY <1>2, <1>3

\* What is reserved can be settled, either way, and nothing else changes.
LEMMA SettleMoves ==
    ASSUME NEW b, BookSound(b), NEW id \in ReservationIds, NEW target \in {"Committed", "Released"},
           StateIn(b, id) # "Absent", NEW r, r = Transition(b, id, target)
    PROVE  /\ BookSound(r.book)
           /\ \A i \in ReservationIds \ {id} : StateIn(r.book, i) = StateIn(b, i)
           /\ StateIn(b, id) = "Reserved" => r.code = "Ok" /\ StateIn(r.book, id) = target
           /\ StateIn(b, id) # "Reserved" => StateIn(r.book, id) = StateIn(b, id)
           /\ r.code = "Ok" <=> StateIn(r.book, id) = target
<1>1. b \in Book /\ BookExact(b) /\ BookFits(b)
  BY DEF BookSound
<1> DEFINE record == b.reservations[id]
<1>2. record \in Record /\ record # NoRecord
  BY <1>1, StateTypes
<1>3. CASE record.state # "Reserved"
  BY <1>2, <1>3 DEF Transition, Result, StateIn
<1>4. CASE record.state = "Reserved"
  <2>1. /\ record.applied \subseteq Scopes
        /\ record.request.amount \in Nat /\ record.request.amount > 0
    BY <1>2, BudgetAssumption DEF Record, BudgetAssumption, BudgetRequest
  <2>2. ASSUME NEW s \in record.applied
        PROVE  record.request.amount <= b.reserved[s]
    <3>1. PICK g : Exact(b, g)
      BY <1>1 DEF BookExact
    <3> DEFINE R == On(b, InState(b, "Reserved"), s)
    <3>2. /\ IsFiniteSet(Retained(b)) /\ Adds(g, Amounts(b), Retained(b)) /\ b.reserved[s] = g[R]
      BY <2>1, <3>1 DEF Exact
    <3>3. id \in R /\ R \in SUBSET Retained(b) /\ id \in Retained(b)
      BY <1>1, <1>2, <1>4, StatesRetained DEF On, InState, Retained
    <3>4. Amounts(b)[id] = record.request.amount
      BY <3>3 DEF Amounts
    <3> HIDE DEF R, record
    <3>5. R = (R \ {id}) \cup {id} /\ R \ {id} \in SUBSET Retained(b) /\ id \notin R \ {id}
      BY <3>3
    <3>6. g[(R \ {id}) \cup {id}] = Amounts(b)[id] + g[R \ {id}]
      BY <3>2, <3>3, <3>5, AddsOne
    <3>7. g[R \ {id}] \in Nat
      BY <3>2, <3>5 DEF Adds
    <3> QED BY <2>1, <3>2, <3>4, <3>5, <3>6, <3>7
  <2>3. ~TransitionOverflows(b, record, target)
    <3> SUFFICES ASSUME NEW s \in record.applied
                 PROVE  /\ ~(b.reserved[s] < record.request.amount)
                        /\ ~(b.committed[s] + record.request.amount > MaxUnits)
      BY DEF TransitionOverflows
    <3>1. b.reserved[s] \in Nat /\ b.committed[s] \in Nat /\ b.committed[s] + b.reserved[s] <= MaxUnits
      BY <1>1, <2>1 DEF Book, BookFits
    <3> QED BY <2>1, <2>2, <3>1, BudgetAssumption DEF BudgetAssumption
  <2> DEFINE c == Settle(b, id, target)
  <2>4. r = Result(c, "Ok")
    BY <1>2, <1>4, <2>3 DEF Transition
  <2>5. r.book = c /\ r.code = "Ok"
    BY <2>4 DEF Result
  <2>6. c \in Book /\ BookExact(c)
    <3>1. Keeps(b, Transition(b, id, target).book)
      BY <1>1, TransitionKeeps
    <3> HIDE DEF c
    <3> QED BY <1>1, <2>5, <3>1 DEF Keeps
  <2>7. BookFits(c)
    <3> SUFFICES ASSUME NEW s \in Scopes PROVE c.committed[s] + c.reserved[s] <= MaxUnits
      BY DEF BookFits
    <3>1. b.reserved[s] \in Nat /\ b.committed[s] \in Nat /\ b.committed[s] + b.reserved[s] <= MaxUnits
      BY <1>1 DEF Book, BookFits
    <3>2. /\ c.reserved[s] = IF s \in record.applied THEN b.reserved[s] - record.request.amount
                                                     ELSE b.reserved[s]
          /\ c.committed[s] = IF s \in record.applied /\ target = "Committed"
                              THEN b.committed[s] + record.request.amount ELSE b.committed[s]
      BY DEF Settle
    <3> HIDE DEF c, record
    <3> QED BY <2>1, <2>2, <3>1, <3>2, BudgetAssumption DEF BudgetAssumption
  <2>8. StateIn(c, id) = target /\ \A i \in ReservationIds \ {id} : StateIn(c, i) = StateIn(b, i)
    BY <1>1, <1>2 DEF Settle, StateIn, Book, Record
  <2> HIDE DEF c
  <2> QED BY <1>4, <2>5, <2>6, <2>7, <2>8 DEF BookSound, StateIn
<1> QED BY <1>3, <1>4

-----------------------------------------------------------------------------
(* The shared controller: which leases are on record, and which of them    *)
(* are charged.                                                            *)

LeaseShape(l) ==
    l = [id |-> l.id, keys |-> l.keys, units |-> l.units, expires |-> l.expires,
         charged |-> l.charged]

CtlShape(c) ==
    /\ c = [lastNow |-> c.lastNow, identity |-> c.identity, windows |-> c.windows,
            active |-> c.active, leases |-> c.leases]
    /\ c.identity \in Nat
    /\ \A l \in c.leases : LeaseShape(l)

\* d has no lease that c did not have, and none that is no longer charged.
Ages(c, d) ==
    /\ CtlShape(d)
    /\ d.identity >= c.identity
    /\ \A m \in d.leases : \E l \in c.leases : l.id = m.id /\ (l.charged => m.charged)

Charged(c, id) == \A l \in LeaseOf(c, id) : l.charged

LEMMA AgesItself ==
    ASSUME NEW c, CtlShape(c)
    PROVE  Ages(c, c)
BY DEF Ages, CtlShape

LEMMA AgesComposes ==
    ASSUME NEW c, CtlShape(c), NEW d, NEW e, Ages(c, d), Ages(d, e)
    PROVE  Ages(c, e)
<1>1. e.identity >= c.identity
  BY DEF Ages, CtlShape
<1>2. ASSUME NEW m \in e.leases
      PROVE  \E l \in c.leases : l.id = m.id /\ (l.charged => m.charged)
  <2>1. PICK k \in d.leases : k.id = m.id /\ (k.charged => m.charged)
    BY DEF Ages
  <2>2. PICK l \in c.leases : l.id = k.id /\ (l.charged => k.charged)
    BY DEF Ages
  <2> QED BY <2>1, <2>2
<1> QED BY <1>1, <1>2 DEF Ages

\* What is charged stays charged, and what is gone stays gone.
LEMMA AgesCharged ==
    ASSUME NEW c, NEW d, Ages(c, d), NEW id
    PROVE  /\ Charged(c, id) => Charged(d, id)
           /\ LeaseOf(c, id) = {} => LeaseOf(d, id) = {}
BY DEF Ages, Charged, LeaseOf

LEMMA RemoveAges ==
    ASSUME NEW c, CtlShape(c), NEW gone, NEW d, d = RemoveLeases(c, gone)
    PROVE  Ages(c, d) /\ d.leases = c.leases \ gone /\ d.identity = c.identity
<1> DEFINE a == [k \in LimitKeys |-> Monus(c.active[k], Permits(gone, k))]
           w == [k \in LimitKeys |->
                   [c.windows[k] EXCEPT !.pending = Monus(@, PendingUnits(gone, k))]]
           n == c.leases \ gone
<1>1. d = [c EXCEPT !.active = a, !.windows = w, !.leases = n]
  BY DEF RemoveLeases
<1> HIDE DEF a, w, n
<1>2. d = [lastNow |-> c.lastNow, identity |-> c.identity, windows |-> w, active |-> a,
           leases |-> n]
  BY <1>1 DEF CtlShape
<1>3. d.leases = n /\ d.identity = c.identity /\ n \subseteq c.leases
      /\ d = [lastNow |-> d.lastNow, identity |-> d.identity, windows |-> d.windows,
              active |-> d.active, leases |-> d.leases]
  BY <1>2 DEF n
<1>4. CtlShape(d)
  BY <1>3 DEF CtlShape
<1> QED BY <1>3, <1>4 DEF Ages, CtlShape, n

LEMMA ObserveAges ==
    ASSUME NEW c, CtlShape(c), NEW now
    PROVE  /\ Ages(c, Observe(c, now)) /\ Observe(c, now).leases \subseteq c.leases
           /\ Observe(c, now).identity = c.identity
<1>1. PICK d : d = RemoveLeases(c, {l \in c.leases : l.expires <= now})
  OBVIOUS
<1>2. PICK e : e = Observe(c, now)
  OBVIOUS
<1>3. Ages(c, d) /\ d.leases \subseteq c.leases /\ d.identity = c.identity
  BY <1>1, RemoveAges
<1>4. e = [d EXCEPT !.lastNow = now]
  BY <1>1, <1>2 DEF Observe
<1>5. e = [lastNow |-> now, identity |-> d.identity, windows |-> d.windows, active |-> d.active,
           leases |-> d.leases]
  BY <1>3, <1>4 DEF Ages, CtlShape
<1>6. /\ e.leases = d.leases /\ e.identity = d.identity
      /\ e = [lastNow |-> e.lastNow, identity |-> e.identity, windows |-> e.windows,
              active |-> e.active, leases |-> e.leases]
  BY <1>5
<1> QED BY <1>2, <1>3, <1>6 DEF Ages, CtlShape

LEMMA PrepareAges ==
    ASSUME NEW c, CtlShape(c), NEW keys, NEW now
    PROVE  /\ Ages(c, PrepareWindows(c, keys, now))
           /\ PrepareWindows(c, keys, now).leases = c.leases
           /\ PrepareWindows(c, keys, now).identity = c.identity
<1> DEFINE w == [k \in LimitKeys |->
                   IF k \in Rated(keys) /\ c.windows[k].ends <= now
                   THEN [ends |-> now + RateWindow[k], committed |-> 0, pending |-> 0]
                   ELSE c.windows[k]]
<1>1. PICK d : d = PrepareWindows(c, keys, now)
  OBVIOUS
<1>2. d = [c EXCEPT !.windows = w]
  BY <1>1 DEF PrepareWindows
<1> HIDE DEF w
<1>3. d = [lastNow |-> c.lastNow, identity |-> c.identity, windows |-> w, active |-> c.active,
           leases |-> c.leases]
  BY <1>2 DEF CtlShape
<1>4. /\ d.leases = c.leases /\ d.identity = c.identity
      /\ d = [lastNow |-> d.lastNow, identity |-> d.identity, windows |-> d.windows,
              active |-> d.active, leases |-> d.leases]
  BY <1>3
<1> QED BY <1>1, <1>4 DEF Ages, CtlShape

LEMMA AllocateAges ==
    ASSUME NEW c, CtlShape(c)
    PROVE  Ages(c, Allocate(c)) /\ Allocate(c).leases = c.leases /\ Allocate(c).identity = c.identity + 2
<1>1. PICK d : d = Allocate(c)
  OBVIOUS
<1>2. d = [lastNow |-> c.lastNow, identity |-> c.identity + 2, windows |-> c.windows,
           active |-> c.active, leases |-> c.leases]
  BY <1>1 DEF CtlShape, Allocate
<1>3. /\ d.leases = c.leases /\ d.identity = c.identity + 2
      /\ d = [lastNow |-> d.lastNow, identity |-> d.identity, windows |-> d.windows,
              active |-> d.active, leases |-> d.leases]
  BY <1>2
<1> QED BY <1>1, <1>3 DEF Ages, CtlShape

\* An admission makes at most one lease, of an identity nobody had.
LEMMA AdmitAges ==
    ASSUME NEW c, CtlShape(c), NEW req, NEW now, NEW a, a = TryAdmit(c, req, now)
    PROVE  /\ a.code # "Ok" => Ages(c, a.ctl)
           /\ a.code = "Ok" => /\ CtlShape(a.ctl) /\ a.ctl.identity = c.identity + 2
                               /\ \A m \in a.ctl.leases : m.id = a.ctl.identity \/ m \in c.leases
           /\ a.code # "Committed"
<1>1. PICK o : o = Observe(c, now)
  OBVIOUS
<1>2. PICK p : p = PrepareWindows(o, req.keys, now)
  OBVIOUS
<1>3. PICK n : n = Allocate(p)
  OBVIOUS
<1>4. PICK x : x = LeaseExpiry(p, req.keys, now)
  OBVIOUS
<1>5. PICK d : d = Grant(n, req, x)
  OBVIOUS
<1>6. Ages(c, o) /\ o.leases \subseteq c.leases /\ o.identity = c.identity
  BY <1>1, ObserveAges
<1>7. Ages(o, p) /\ p.leases = o.leases /\ p.identity = c.identity
  BY <1>2, <1>6, PrepareAges DEF Ages
<1>8. Ages(p, n) /\ n.leases = o.leases /\ n.identity = c.identity + 2
  BY <1>3, <1>7, AllocateAges DEF Ages
<1>9. Ages(c, p)
  BY <1>6, <1>7, AgesComposes
<1>10. Ages(c, n)
  BY <1>8, <1>9, AgesComposes
<1>11. /\ CtlShape(d) /\ d.identity = c.identity + 2
       /\ \A m \in d.leases : m.id = d.identity \/ m \in c.leases
  <2> DEFINE w == [k \in LimitKeys |->
                     IF k \in Rated(req.keys) THEN [n.windows[k] EXCEPT !.pending = @ + req.units]
                     ELSE n.windows[k]]
             v == [k \in LimitKeys |-> IF k \in Permitted(req.keys) THEN n.active[k] + 1 ELSE n.active[k]]
             l == [id |-> n.identity, keys |-> req.keys, units |-> req.units, expires |-> x,
                   charged |-> FALSE]
             ls == n.leases \cup {l}
  <2>1. d = [n EXCEPT !.windows = w, !.active = v, !.leases = ls]
    BY <1>5 DEF Grant
  <2>2. LeaseShape(l) /\ l.id = n.identity
    BY DEF LeaseShape
  <2> HIDE DEF w, v, ls
  <2>3. d = [lastNow |-> n.lastNow, identity |-> n.identity, windows |-> w, active |-> v, leases |-> ls]
    BY <1>8, <2>1 DEF Ages, CtlShape
  <2>4. /\ d.leases = ls /\ d.identity = n.identity
        /\ d = [lastNow |-> d.lastNow, identity |-> d.identity, windows |-> d.windows,
                active |-> d.active, leases |-> d.leases]
    BY <2>3
  <2> HIDE DEF l
  <2>5. \A m \in d.leases : LeaseShape(m) /\ (m.id = d.identity \/ m \in c.leases)
    BY <1>6, <1>8, <2>2, <2>4 DEF Ages, CtlShape, ls
  <2> QED BY <1>8, <2>4, <2>5 DEF Ages, CtlShape
<1>12. Ages(c, c)
  BY AgesItself
<1>13. \/ a.code # "Ok" /\ a.code # "Committed" /\ a.ctl \in {c, o, p, n}
       \/ a.code = "Ok" /\ a.ctl = d
  BY <1>1, <1>2, <1>3, <1>4, <1>5 DEF TryAdmit, Answer
<1> QED BY <1>6, <1>9, <1>10, <1>11, <1>12, <1>13

\* commit_rate, once the lease is on record or not.
LEMMA ChargeAges ==
    ASSUME NEW c, CtlShape(c), NEW id, NEW d, d = ChargeUnits(c, id)
    PROVE  Ages(c, d) /\ Charged(d, id)
<1> DEFINE w == [k \in LimitKeys |->
            IF \E l \in LeaseOf(c, id) : ~l.charged /\ k \in Rated(l.keys)
            THEN LET units == (CHOOSE l \in LeaseOf(c, id) : TRUE).units
                 IN [c.windows[k] EXCEPT !.pending = Monus(@, units), !.committed = @ + units]
            ELSE c.windows[k]]
           mark(l) == IF l.id = id THEN [l EXCEPT !.charged = TRUE] ELSE l
           ls == {mark(l) : l \in c.leases}
<1>1. d = [c EXCEPT !.windows = w, !.leases = ls]
  BY DEF ChargeUnits
<1>2. ASSUME NEW l \in c.leases
      PROVE  /\ LeaseShape(mark(l)) /\ mark(l).id = l.id /\ (l.charged => mark(l).charged)
             /\ l.id = id => mark(l).charged
  <2>1. LeaseShape(l)
    BY DEF CtlShape
  <2>2. CASE l.id = id
    <3>1. mark(l) = [id |-> l.id, keys |-> l.keys, units |-> l.units, expires |-> l.expires,
                     charged |-> TRUE]
      BY <2>1, <2>2 DEF LeaseShape
    <3> HIDE DEF mark
    <3> QED BY <3>1 DEF LeaseShape
  <2>3. CASE l.id # id
    BY <2>1, <2>3
  <2> QED BY <2>2, <2>3
<1> HIDE DEF w, mark
<1>3. d = [lastNow |-> c.lastNow, identity |-> c.identity, windows |-> w, active |-> c.active,
           leases |-> ls]
  <2> HIDE DEF ls
  <2> QED BY <1>1 DEF CtlShape
<1>4. /\ d.leases = ls /\ d.identity = c.identity
      /\ d = [lastNow |-> d.lastNow, identity |-> d.identity, windows |-> d.windows,
              active |-> d.active, leases |-> d.leases]
  <2> HIDE DEF ls
  <2> QED BY <1>3
<1>5. \A m \in d.leases : /\ LeaseShape(m)
                          /\ \E l \in c.leases : l.id = m.id /\ (l.charged => m.charged)
                          /\ m.id = id => m.charged
  <2> SUFFICES ASSUME NEW l \in c.leases, NEW m, m = mark(l)
               PROVE  /\ LeaseShape(m)
                      /\ \E k \in c.leases : k.id = m.id /\ (k.charged => m.charged)
                      /\ m.id = id => m.charged
    BY <1>4
  <2> QED BY <1>2
<1> QED BY <1>4, <1>5 DEF Ages, CtlShape, Charged, LeaseOf

\* Closing leaves nothing of the lease, once time is observed.
LEMMA ObservedClose ==
    ASSUME NEW c, CtlShape(c), NEW id, NEW d, d = RemoveLeases(c, LeaseOf(c, id))
    PROVE  Ages(c, d) /\ LeaseOf(d, id) = {}
BY RemoveAges DEF LeaseOf

LEMMA CloseAges ==
    ASSUME NEW c, CtlShape(c), NEW id, NEW now, NEW a, a = CloseLease(c, id, now)
    PROVE  /\ Ages(c, a.ctl)
           /\ a.code # "ClockRegressed" => LeaseOf(a.ctl, id) = {}
           /\ a.code \in {"ClockRegressed", "LeaseExpired", "Ok"}
<1>1. PICK o : o = Observe(c, now)
  OBVIOUS
<1>2. PICK d : d = RemoveLeases(o, LeaseOf(o, id))
  OBVIOUS
<1>3. Ages(c, o)
  BY <1>1, ObserveAges
<1>4. Ages(o, d) /\ LeaseOf(d, id) = {}
  BY <1>2, <1>3, ObservedClose DEF Ages
<1>5. Ages(c, d) /\ Ages(c, c)
  BY <1>3, <1>4, AgesComposes, AgesItself
<1>6. \/ a.code = "ClockRegressed" /\ a.ctl = c
      \/ a.code = "LeaseExpired" /\ a.ctl = o /\ LeaseOf(o, id) = {}
      \/ a.code = "Ok" /\ a.ctl = d
  BY <1>1, <1>2 DEF CloseLease, Answer
<1> QED BY <1>3, <1>4, <1>5, <1>6

LEMMA FinalizeAges ==
    ASSUME NEW c, CtlShape(c), NEW id, NEW now, NEW a, a = FinalizeAccepted(c, id, now)
    PROVE  /\ Ages(c, a.ctl) /\ Charged(a.ctl, id)
           /\ a.code \in {"LeaseExpired", "Completed"} => LeaseOf(a.ctl, id) = {}
           /\ a.code \in {"LeaseExpired", "Completed", "ReconciliationRequired"}
<1>1. PICK g : g = ChargeUnits(c, id)
  OBVIOUS
<1>2. PICK o : o = Observe(g, now)
  OBVIOUS
<1>3. PICK d : d = RemoveLeases(o, LeaseOf(o, id))
  OBVIOUS
<1>4. Ages(c, g) /\ Charged(g, id)
  BY <1>1, ChargeAges
<1>5. Ages(g, o)
  BY <1>2, <1>4, ObserveAges DEF Ages
<1>6. Ages(o, d) /\ LeaseOf(d, id) = {}
  BY <1>3, <1>5, ObservedClose DEF Ages
<1>7. Ages(c, o) /\ Ages(c, c)
  BY <1>4, <1>5, AgesComposes, AgesItself
<1>8. Ages(c, d)
  BY <1>6, <1>7, AgesComposes
<1>9. \/ a.code = "LeaseExpired" /\ a.ctl = c /\ LeaseOf(c, id) = {}
      \/ a.code = "ReconciliationRequired" /\ a.ctl = g
      \/ a.code = "LeaseExpired" /\ a.ctl = o /\ LeaseOf(o, id) = {}
      \/ a.code = "Completed" /\ a.ctl = d
  BY <1>1, <1>2, <1>3 DEF FinalizeAccepted, Answer
<1>10. ASSUME NEW e, LeaseOf(e, id) = {} PROVE Charged(e, id)
  BY <1>10 DEF Charged
<1> QED BY <1>4, <1>6, <1>7, <1>8, <1>9, <1>10

LEMMA FinalizeUntimedAges ==
    ASSUME NEW c, CtlShape(c), NEW id, NEW a, a = FinalizeUntimed(c, id)
    PROVE  /\ Ages(c, a.ctl) /\ Charged(a.ctl, id)
           /\ a.code \in {"LeaseExpired", "ReconciliationRequired"}
<1>1. PICK g : g = ChargeUnits(c, id)
  OBVIOUS
<1>2. Ages(c, g) /\ Charged(g, id)
  BY <1>1, ChargeAges
<1>3. \/ a.code = "LeaseExpired" /\ a.ctl = c /\ LeaseOf(c, id) = {}
      \/ a.code = "ReconciliationRequired" /\ a.ctl = g
  BY <1>1 DEF FinalizeUntimed, Answer
<1>4. Ages(c, c) /\ (LeaseOf(c, id) = {} => Charged(c, id))
  BY AgesItself DEF Charged
<1> QED BY <1>2, <1>3, <1>4

LEMMA RetainAges ==
    ASSUME NEW c, CtlShape(c), NEW id, NEW now, NEW a, a = RetainDispatched(c, id, now)
    PROVE  Ages(c, a.ctl) /\ Charged(a.ctl, id)
<1>1. PICK g : g = ChargeUnits(c, id)
  OBVIOUS
<1>2. PICK o : o = Observe(g, now)
  OBVIOUS
<1>3. Ages(c, g) /\ Charged(g, id)
  BY <1>1, ChargeAges
<1>4. Ages(g, o)
  BY <1>2, <1>3, ObserveAges DEF Ages
<1>5. Ages(c, o) /\ Charged(o, id)
  BY <1>3, <1>4, AgesComposes, AgesCharged
<1>6. Ages(c, c) /\ (LeaseOf(c, id) = {} => Charged(c, id))
  BY AgesItself DEF Charged
<1>7. a.ctl \in {g, o} \/ (a.ctl = c /\ LeaseOf(c, id) = {})
  BY <1>1, <1>2 DEF RetainDispatched, Answer
<1> QED BY <1>3, <1>5, <1>6, <1>7

LEMMA InspectAges ==
    ASSUME NEW c, CtlShape(c), NEW k, NEW now
    PROVE  Ages(c, Inspect(c, k, now).ctl)
<1>1. PICK o : o = Observe(c, now)
  OBVIOUS
<1>2. PICK p : p = PrepareWindows(o, {k}, now)
  OBVIOUS
<1>3. Ages(c, o)
  BY <1>1, ObserveAges
<1>4. Ages(o, p)
  BY <1>2, <1>3, PrepareAges DEF Ages
<1>5. Ages(c, p) /\ Ages(c, c)
  BY <1>3, <1>4, AgesComposes, AgesItself
<1>6. Inspect(c, k, now).ctl \in {c, o, p}
  BY <1>1, <1>2 DEF Inspect, Answer
<1> QED BY <1>3, <1>5, <1>6

-----------------------------------------------------------------------------
(* The coupled leases.                                                     *)

Places == {"Idle", "Reserving", "RollingBack", "Open", "RateStep", "DropBudget", "DropRate",
           "Rejected", "Done"}
Operations == {"None", "Commit", "Accept", "Unknown", "Release"}

LeaseFields == {"pc", "op", "req", "rid", "id", "seen", "budgetOk", "kept", "closeFailed", "result"}

CoupledLease(l) ==
    /\ DOMAIN l = LeaseFields
    /\ l.pc \in Places /\ l.op \in Operations /\ l.id \in Nat

\* Whoever is here has a reservation to settle.
Owing(l) == l.pc \in {"Open", "DropBudget"}

Over(l) == l.pc \in {"Idle", "Rejected", "Done"}

\* A request and the book: what is owed is reserved or has expired, what was settled
\* is settled, what was accepted is not refunded.
BudgetFits(l, b) ==
    /\ l.pc = "Idle" => ~l.kept
    /\ l.pc = "Reserving" => l.rid \in ReservationIds /\ l.req \in BudgetRequests
    /\ Owing(l) => l.rid \in ReservationIds /\ StateIn(b, l.rid) \in {"Reserved", "Expired"}
    /\ l.pc = "RateStep" =>
         /\ l.rid \in ReservationIds /\ l.op # "None"
         /\ StateIn(b, l.rid) \in Final
         /\ l.budgetOk => StateIn(b, l.rid) = SettlesBudgetBy(l.op)
    /\ l.op \in {"Accept", "Unknown"} =>
         /\ l.rid \in ReservationIds /\ StateIn(b, l.rid) \in {"Committed", "Expired"}
         /\ l.pc \in {"RateStep", "Done"}
    /\ l.result = "Committed" =>
         l.rid \in ReservationIds /\ StateIn(b, l.rid) = "Committed" /\ l.pc = "Done"

\* A request and the controller: its identity was given out, and if it is told that
\* it is committed its units are charged.
RateFits(l, c) ==
    /\ l.id <= c.identity
    /\ l.result = "Committed" => Charged(c, l.id)

LeasesTyped ==
    /\ lease = [h \in Handles |-> lease[h]]
    /\ \A h \in Handles : CoupledLease(lease[h])
StoresSound == BookSound(book) /\ CtlShape(ctl)
RequestsFit == \A h \in Handles : BudgetFits(lease[h], book) /\ RateFits(lease[h], ctl)
OwnersDiffer ==
    \A h, k \in Handles : Owing(lease[h]) /\ Owing(lease[k]) /\ lease[h].rid = lease[k].rid => h = k
ReservedIsOwed ==
    \A rid \in ReservationIds : StateIn(book, rid) = "Reserved" =>
        \E h \in Handles : Owing(lease[h]) /\ lease[h].rid = rid

AdmissionIInv ==
    /\ LeasesTyped /\ StoresSound /\ RequestsFit /\ OwnersDiffer /\ ReservedIsOwed
    /\ RateLeasesHaveAnOwner

\* The books of other requests: nothing but their own steps, and time, touches them.
LEMMA FitsDrift ==
    ASSUME NEW l, NEW b, BudgetFits(l, b), NEW c, l.rid \in ReservationIds => Drifts(b, c, l.rid)
    PROVE  BudgetFits(l, c)
BY DEF BudgetFits, Drifts, Final

\* The leases of other requests age.
LEMMA FitsAge ==
    ASSUME NEW l, CoupledLease(l), RateFits(l, ctl), Ages(ctl, ctl'), CtlShape(ctl)
    PROVE  RateFits(l, ctl')
<1>1. l.id \in Nat /\ ctl.identity \in Nat /\ ctl'.identity \in Nat /\ ctl'.identity >= ctl.identity
  BY DEF CoupledLease, CtlShape, Ages
<1> QED BY <1>1, AgesCharged DEF RateFits

\* A step of one request that ages the controller.
LEMMA OwnersAge ==
    ASSUME RateLeasesHaveAnOwner, LeasesTyped, Ages(ctl, ctl'), NEW h \in Handles, NEW r, CoupledLease(r),
           Move(h, r), r.id = lease[h].id,
           \/ ~Over(r)
           \/ r.kept /\ Charged(ctl', r.id)
           \/ LeaseOf(ctl', r.id) = {}
    PROVE  RateLeasesHaveAnOwner'
<1>1. lease'[h] = r /\ \A k \in Handles \ {h} : lease'[k] = lease[k]
  BY DEF Move, LeasesTyped
<1> SUFFICES ASSUME NEW m \in ctl'.leases
             PROVE  \E k \in Handles : lease'[k].id = m.id /\ (~Over(lease'[k]) \/ (lease'[k].kept /\ m.charged))
  BY DEF RateLeasesHaveAnOwner, Ended, Over
<1>2. PICK l \in ctl.leases : l.id = m.id /\ (l.charged => m.charged)
  BY DEF Ages
<1>3. PICK k \in Handles : lease[k].id = l.id /\ (~Over(lease[k]) \/ (lease[k].kept /\ l.charged))
  BY DEF RateLeasesHaveAnOwner, Ended, Over
<1>4. CASE k # h
  BY <1>1, <1>2, <1>3, <1>4
<1>5. CASE k = h
  <2>1. m \in LeaseOf(ctl', r.id) /\ lease'[h].id = m.id
    BY <1>1, <1>2, <1>3, <1>5 DEF LeaseOf
  <2>2. ~Over(r) \/ (r.kept /\ m.charged)
    BY <2>1 DEF Charged
  <2> QED BY <1>1, <2>1, <2>2
<1> QED BY <1>4, <1>5

\* The rate half of an operation, or a step of neither store.
LEMMA RateMove ==
    ASSUME AdmissionIInv, NEW h \in Handles, NEW r, CoupledLease(r), Move(h, r), UNCHANGED book,
           Ages(ctl, ctl'), r.id = lease[h].id, r.rid = lease[h].rid,
           Owing(r) <=> Owing(lease[h]), BudgetFits(r, book), RateFits(r, ctl'),
           \/ ~Over(r)
           \/ r.kept /\ Charged(ctl', r.id)
           \/ LeaseOf(ctl', r.id) = {}
    PROVE  AdmissionIInv'
<1>1. /\ lease' = [k \in Handles |-> lease'[k]]
      /\ lease'[h] = r /\ \A k \in Handles \ {h} : lease'[k] = lease[k]
  BY DEF Move, AdmissionIInv, LeasesTyped
<1>2. LeasesTyped'
  BY <1>1 DEF AdmissionIInv, LeasesTyped
<1>3. StoresSound'
  BY DEF AdmissionIInv, StoresSound, Ages
<1>4. RequestsFit'
  <2>1. \A k \in Handles \ {h} : RateFits(lease[k], ctl')
    BY FitsAge DEF AdmissionIInv, LeasesTyped, StoresSound, RequestsFit
  <2> QED BY <1>1, <2>1 DEF AdmissionIInv, RequestsFit
<1>5. \A k \in Handles : (Owing(lease'[k]) <=> Owing(lease[k])) /\ lease'[k].rid = lease[k].rid
  BY <1>1
<1>6. OwnersDiffer' /\ ReservedIsOwed'
  BY <1>5 DEF AdmissionIInv, OwnersDiffer, ReservedIsOwed
<1>7. RateLeasesHaveAnOwner'
  BY OwnersAge DEF AdmissionIInv
<1> QED BY <1>2, <1>3, <1>4, <1>6, <1>7 DEF AdmissionIInv

\* The budget half of an operation: the reservation is settled, by its owner.
LEMMA BudgetMove ==
    ASSUME AdmissionIInv, NEW h \in Handles, Owing(lease[h]), NEW target \in {"Committed", "Released"},
           NEW t, t = Transition(book, lease[h].rid, target), book' = t.book, UNCHANGED ctl,
           NEW r, CoupledLease(r), Move(h, r), r.id = lease[h].id, r.rid = lease[h].rid, ~Over(r),
           BudgetFits(r, book'), RateFits(r, ctl)
    PROVE  AdmissionIInv'
<1>1. /\ lease' = [k \in Handles |-> lease'[k]]
      /\ lease'[h] = r /\ \A k \in Handles \ {h} : lease'[k] = lease[k]
  BY DEF Move, AdmissionIInv, LeasesTyped
<1>2. LeasesTyped'
  BY <1>1 DEF AdmissionIInv, LeasesTyped
<1> DEFINE rid == lease[h].rid
<1>3. rid \in ReservationIds /\ StateIn(book, rid) \in {"Reserved", "Expired"}
  BY DEF AdmissionIInv, RequestsFit, BudgetFits
<1>4. /\ BookSound(book') /\ \A i \in ReservationIds \ {rid} : StateIn(book', i) = StateIn(book, i)
      /\ StateIn(book, rid) = "Reserved" => StateIn(book', rid) = target
      /\ StateIn(book, rid) # "Reserved" => StateIn(book', rid) = StateIn(book, rid)
  BY <1>3, SettleMoves DEF AdmissionIInv, StoresSound
<1>5. StoresSound' /\ Ages(ctl, ctl')
  BY <1>4, AgesItself DEF AdmissionIInv, StoresSound
<1>6. ASSUME NEW k \in Handles \ {h}
      PROVE  BudgetFits(lease[k], book')
  <2>1. BudgetFits(lease[k], book)
    BY DEF AdmissionIInv, RequestsFit
  <2>2. CASE lease[k].rid # rid
    BY <1>4, <2>1, <2>2, FitsDrift DEF Drifts
  <2>3. CASE lease[k].rid = rid /\ StateIn(book, rid) # "Reserved"
    BY <1>4, <2>1, <2>3, FitsDrift DEF Drifts
  <2>4. CASE lease[k].rid = rid /\ StateIn(book, rid) = "Reserved"
    <3>1. ~Owing(lease[k])
      BY <2>4 DEF AdmissionIInv, OwnersDiffer
    <3> QED BY <2>1, <2>4, <3>1 DEF BudgetFits, Final
  <2> QED BY <2>2, <2>3, <2>4
<1>7. RequestsFit'
  BY <1>1, <1>6 DEF AdmissionIInv, RequestsFit
<1>8. OwnersDiffer'
  BY <1>1 DEF AdmissionIInv, OwnersDiffer
<1>9. ReservedIsOwed'
  <2> SUFFICES ASSUME NEW i \in ReservationIds, StateIn(book', i) = "Reserved"
               PROVE  \E k \in Handles : Owing(lease'[k]) /\ lease'[k].rid = i
    BY DEF ReservedIsOwed
  <2>1. i # rid /\ StateIn(book, i) = "Reserved"
    BY <1>3, <1>4
  <2>2. PICK k \in Handles : Owing(lease[k]) /\ lease[k].rid = i
    BY <2>1 DEF AdmissionIInv, ReservedIsOwed
  <2> QED BY <1>1, <2>1, <2>2
<1>10. RateLeasesHaveAnOwner'
  BY <1>5, OwnersAge DEF AdmissionIInv
<1> QED BY <1>2, <1>5, <1>7, <1>8, <1>9, <1>10 DEF AdmissionIInv

\* The record of a request after an EXCEPT.
LEMMA LeaseNow ==
    ASSUME AdmissionIInv, NEW h \in Handles
    PROVE  CoupledLease(lease[h]) /\ BudgetFits(lease[h], book) /\ RateFits(lease[h], ctl)
BY DEF AdmissionIInv, LeasesTyped, RequestsFit

LEMMA AdmitRateKeeps ==
    ASSUME AdmissionIInv, NEW h \in Handles, NEW req \in RoutingRequests, NEW rid \in ReservationIds,
           NEW now \in Instant, AdmitRate(h, req, rid, now)
    PROVE  AdmissionIInv'
<1>1. PICK a : a = TryAdmit(ctl, req.rate, now)
  OBVIOUS
<1>2. req.budget \in BudgetRequests
  BY RoutingAssumption DEF RoutingAssumption, RoutingRequest
<1>3. /\ lease[h].pc = "Idle" /\ ctl' = a.ctl /\ book' = book
  BY <1>1 DEF AdmitRate, At
<1>4. CtlShape(ctl)
  BY DEF AdmissionIInv, StoresSound
<1>5. /\ a.code # "Ok" => Ages(ctl, a.ctl)
      /\ a.code = "Ok" => /\ CtlShape(a.ctl) /\ a.ctl.identity = ctl.identity + 2
                          /\ \A m \in a.ctl.leases : m.id = a.ctl.identity \/ m \in ctl.leases
      /\ a.code # "Committed"
  BY <1>1, <1>4, AdmitAges
<1> DEFINE good == [NoLease EXCEPT !.pc = "Reserving", !.rid = rid, !.req = req.budget,
                                   !.id = a.ctl.identity, !.seen = now]
           bad == [NoLease EXCEPT !.pc = "Rejected", !.result = a.code]
           r == IF a.code = "Ok" THEN good ELSE bad
<1>6. Move(h, r)
  BY <1>1 DEF AdmitRate
<1>7. /\ good.pc = "Reserving" /\ good.rid = rid /\ good.req = req.budget /\ good.id = a.ctl.identity
      /\ good.op = "None" /\ good.result = "None"
      /\ bad.pc = "Rejected" /\ bad.id = 0 /\ bad.op = "None" /\ bad.result = a.code
      /\ a.ctl.identity \in Nat => CoupledLease(good)
      /\ CoupledLease(bad)
  <2>1. DOMAIN NoLease = LeaseFields /\ NoLease.op = "None" /\ NoLease.result = "None" /\ NoLease.id = 0
    BY DEF NoLease, LeaseFields
  <2> HIDE DEF NoLease
  <2>3. /\ good.pc = "Reserving" /\ good.rid = rid /\ good.req = req.budget
        /\ good.id = a.ctl.identity /\ good.op = "None" /\ good.result = "None"
        /\ a.ctl.identity \in Nat => CoupledLease(good)
    BY <2>1 DEF CoupledLease, Places, Operations, LeaseFields
  <2>4. /\ bad.pc = "Rejected" /\ bad.id = 0 /\ bad.op = "None" /\ bad.result = a.code
        /\ CoupledLease(bad)
    BY <2>1 DEF CoupledLease, Places, Operations, LeaseFields
  <2> QED BY <2>3, <2>4
<1> HIDE DEF good, bad
<1>8. CtlShape(ctl') /\ ctl'.identity \in Nat /\ ctl.identity \in Nat /\ ctl'.identity >= ctl.identity
  BY <1>3, <1>4, <1>5 DEF Ages, CtlShape
<1>9. CoupledLease(r) /\ ~Owing(r) /\ BudgetFits(r, book) /\ RateFits(r, ctl')
  BY <1>2, <1>3, <1>5, <1>7, <1>8 DEF Owing, BudgetFits, RateFits
<1>10. /\ lease' = [k \in Handles |-> lease'[k]]
       /\ lease'[h] = r /\ \A k \in Handles \ {h} : lease'[k] = lease[k]
  BY <1>6 DEF Move, AdmissionIInv, LeasesTyped
<1> HIDE DEF r
<1>11. LeasesTyped'
  BY <1>9, <1>10 DEF AdmissionIInv, LeasesTyped
<1>12. StoresSound'
  BY <1>3, <1>8 DEF AdmissionIInv, StoresSound
<1>13. ASSUME NEW k \in Handles \ {h} PROVE RateFits(lease[k], ctl')
  <2>1. CoupledLease(lease[k]) /\ RateFits(lease[k], ctl)
    BY LeaseNow
  <2>2. CASE a.code # "Ok"
    BY <1>3, <1>4, <1>5, <2>1, <2>2, FitsAge
  <2>3. CASE a.code = "Ok"
    <3>1. lease[k].id \in Nat /\ lease[k].id <= ctl.identity /\ ctl'.identity = ctl.identity + 2
      BY <1>3, <1>5, <2>1, <2>3 DEF CoupledLease, RateFits
    <3>2. lease[k].id <= ctl'.identity /\ lease[k].id # ctl'.identity
      BY <1>8, <3>1
    <3>3. Charged(ctl, lease[k].id) => Charged(ctl', lease[k].id)
      BY <1>3, <1>5, <2>3, <3>2 DEF Charged, LeaseOf
    <3> QED BY <2>1, <3>2, <3>3 DEF RateFits
  <2> QED BY <2>2, <2>3
<1>14. RequestsFit'
  BY <1>3, <1>9, <1>10, <1>13 DEF AdmissionIInv, RequestsFit
<1>15. ~Owing(lease[h])
  BY <1>3 DEF Owing
<1>16. OwnersDiffer' /\ ReservedIsOwed'
  BY <1>3, <1>9, <1>10, <1>15 DEF AdmissionIInv, OwnersDiffer, ReservedIsOwed
<1>17. RateLeasesHaveAnOwner'
  <2> SUFFICES ASSUME NEW m \in ctl'.leases
               PROVE  \E k \in Handles : lease'[k].id = m.id /\ (~Over(lease'[k]) \/ (lease'[k].kept /\ m.charged))
    BY DEF RateLeasesHaveAnOwner, Ended, Over
  <2>1. CASE a.code = "Ok" /\ m.id = a.ctl.identity
    BY <1>7, <1>10, <2>1 DEF r, Over
  <2>2. CASE ~(a.code = "Ok" /\ m.id = a.ctl.identity)
    <3>1. PICK l \in ctl.leases : l.id = m.id /\ (l.charged => m.charged)
      BY <1>3, <1>5, <2>2 DEF Ages
    <3>2. PICK k \in Handles : lease[k].id = l.id /\ (~Over(lease[k]) \/ (lease[k].kept /\ l.charged))
      BY DEF AdmissionIInv, RateLeasesHaveAnOwner, Ended, Over
    <3>3. CASE k # h
      BY <1>10, <3>1, <3>2, <3>3
    <3>4. CASE k = h
      <4>1. lease[h].kept
        BY <1>3, <3>2, <3>4 DEF Over
      <4> QED BY <1>3, <4>1, LeaseNow DEF BudgetFits
    <3> QED BY <3>3, <3>4
  <2> QED BY <2>1, <2>2
<1> QED BY <1>11, <1>12, <1>14, <1>16, <1>17 DEF AdmissionIInv

LEMMA AdmitBudgetKeeps ==
    ASSUME AdmissionIInv, NEW h \in Handles, NEW utc \in Utc, AdmitBudget(h, utc)
    PROVE  AdmissionIInv'
<1>1. PICK t : t = ReserveFresh(book, lease[h].rid, lease[h].req, utc)
  OBVIOUS
<1> DEFINE rid == lease[h].rid
           p == IF t.code = "Ok" THEN "Open" ELSE "RollingBack"
           r == [lease[h] EXCEPT !.pc = p, !.req = "None"]
<1>2. lease[h].pc = "Reserving" /\ book' = t.book /\ ctl' = ctl /\ Move(h, r)
  BY <1>1 DEF AdmitBudget, At
<1>3. CoupledLease(lease[h]) /\ BudgetFits(lease[h], book) /\ RateFits(lease[h], ctl)
  BY LeaseNow
<1>4. rid \in ReservationIds /\ lease[h].req \in BudgetRequests /\ utc \in Nat
  BY <1>2, <1>3, RoutingAssumption DEF BudgetFits, RoutingAssumption
<1>5. /\ BookSound(book')
      /\ \A i \in ReservationIds \ {rid} : Drifts(book, book', i)
      /\ t.code = "Ok" => StateIn(book, rid) = "Absent" /\ StateIn(book', rid) = "Reserved"
      /\ t.code # "Ok" => Drifts(book, book', rid)
  BY <1>1, <1>2, <1>4, ReserveMoves DEF AdmissionIInv, StoresSound
<1>6. /\ CoupledLease(r) /\ r.id = lease[h].id /\ r.rid = rid /\ r.op = lease[h].op
      /\ r.result = lease[h].result /\ r.pc = p
  <2>1. p \in Places
    BY DEF Places
  <2> HIDE DEF p
  <2> QED BY <1>3, <2>1 DEF CoupledLease, LeaseFields
<1> HIDE DEF r
<1>7. ~Over(r) /\ BudgetFits(r, book') /\ RateFits(r, ctl)
  BY <1>2, <1>3, <1>4, <1>5, <1>6 DEF Over, BudgetFits, RateFits, Owing
<1>8. /\ lease' = [k \in Handles |-> lease'[k]]
      /\ lease'[h] = r /\ \A k \in Handles \ {h} : lease'[k] = lease[k]
  BY <1>2 DEF Move, AdmissionIInv, LeasesTyped
<1>9. LeasesTyped'
  BY <1>6, <1>8 DEF AdmissionIInv, LeasesTyped
<1>10. StoresSound' /\ Ages(ctl, ctl')
  BY <1>2, <1>5, AgesItself DEF AdmissionIInv, StoresSound
<1>11. ASSUME NEW k \in Handles \ {h}
       PROVE  /\ BudgetFits(lease[k], book')
              /\ t.code = "Ok" /\ Owing(lease[k]) => lease[k].rid # rid
  <2>1. BudgetFits(lease[k], book)
    BY LeaseNow
  <2>2. CASE lease[k].rid # rid \/ t.code # "Ok"
    BY <1>5, <2>1, <2>2, FitsDrift
  <2>3. CASE lease[k].rid = rid /\ t.code = "Ok"
    BY <1>5, <2>1, <2>3 DEF BudgetFits, Final
  <2> QED BY <2>2, <2>3
<1>12. RequestsFit'
  BY <1>2, <1>7, <1>8, <1>11 DEF AdmissionIInv, RequestsFit
<1>13. OwnersDiffer'
  BY <1>6, <1>8, <1>11 DEF AdmissionIInv, OwnersDiffer, Owing
<1>14. ReservedIsOwed'
  <2> SUFFICES ASSUME NEW i \in ReservationIds, StateIn(book', i) = "Reserved"
               PROVE  \E k \in Handles : Owing(lease'[k]) /\ lease'[k].rid = i
    BY DEF ReservedIsOwed
  <2>1. CASE i = rid /\ t.code = "Ok"
    BY <1>6, <1>8, <2>1 DEF Owing
  <2>2. CASE ~(i = rid /\ t.code = "Ok")
    <3>1. StateIn(book, i) = "Reserved"
      BY <1>5, <2>2 DEF Drifts
    <3>2. PICK k \in Handles : Owing(lease[k]) /\ lease[k].rid = i
      BY <3>1 DEF AdmissionIInv, ReservedIsOwed
    <3>3. k # h
      BY <1>2, <3>2 DEF Owing
    <3> QED BY <1>8, <3>2, <3>3
  <2> QED BY <2>1, <2>2
<1>15. RateLeasesHaveAnOwner'
  BY <1>2, <1>6, <1>7, <1>10, OwnersAge DEF AdmissionIInv
<1> QED BY <1>9, <1>10, <1>12, <1>13, <1>14, <1>15 DEF AdmissionIInv

LEMMA RollBackKeeps ==
    ASSUME AdmissionIInv, NEW h \in Handles, RollBack(h)
    PROVE  AdmissionIInv'
<1>1. PICK a : a = CloseLease(ctl, lease[h].id, lease[h].seen)
  OBVIOUS
<1> DEFINE x == IF a.code = "Ok" THEN "BudgetRejected" ELSE "RollbackFailed"
           record == [lease[h] EXCEPT !.result = x]
           r == IF a.code = "ClockRegressed"
                THEN [record EXCEPT !.pc = "DropRate", !.closeFailed = TRUE]
                ELSE [record EXCEPT !.pc = "Rejected"]
<1>2. lease[h].pc = "RollingBack" /\ ctl' = a.ctl /\ book' = book /\ Move(h, r)
  BY <1>1 DEF RollBack, At
<1>3. CoupledLease(lease[h]) /\ BudgetFits(lease[h], book) /\ RateFits(lease[h], ctl) /\ CtlShape(ctl)
  BY LeaseNow DEF AdmissionIInv, StoresSound
<1>4. Ages(ctl, a.ctl) /\ (a.code # "ClockRegressed" => LeaseOf(a.ctl, lease[h].id) = {})
  BY <1>1, <1>3, CloseAges
<1>5. /\ CoupledLease(r) /\ r.id = lease[h].id /\ r.rid = lease[h].rid /\ r.op = lease[h].op
      /\ r.result = x
      /\ r.pc = IF a.code = "ClockRegressed" THEN "DropRate" ELSE "Rejected"
  <2>1. /\ CoupledLease(record) /\ record.id = lease[h].id /\ record.rid = lease[h].rid
        /\ record.op = lease[h].op /\ record.result = x
    BY <1>3 DEF CoupledLease
  <2> HIDE DEF record, x
  <2> QED BY <2>1 DEF CoupledLease, Places
<1>6. x # "Committed"
  OBVIOUS
<1> HIDE DEF r, x
<1>7. BudgetFits(r, book)
  BY <1>2, <1>3, <1>5, <1>6 DEF BudgetFits, Owing
<1>8. RateFits(r, ctl')
  BY <1>2, <1>3, <1>4, <1>5, <1>6, FitsAge DEF RateFits
<1>9. /\ Owing(r) <=> Owing(lease[h])
      /\ ~Over(r) \/ LeaseOf(ctl', r.id) = {}
  BY <1>2, <1>4, <1>5 DEF Owing, Over
<1> QED BY <1>2, <1>4, <1>5, <1>7, <1>8, <1>9, RateMove

\* finalize_accepted and commit_dispatch_unknown, after the budget: told to be
\* committed only when both stores are.
LEMMA RateStepKeeps ==
    ASSUME AdmissionIInv, NEW h \in Handles, lease[h].pc = "RateStep", NEW a, Ages(ctl, a.ctl),
           NEW r, CoupledLease(r), Move(h, r), r.pc = "Done", r.op = lease[h].op, r.id = lease[h].id,
           r.rid = lease[h].rid, ctl' = a.ctl, UNCHANGED book, lease[h].op # "Release",
           r.result = FinalResult(h, a.code),
           Charged(a.ctl, r.id), r.kept \/ LeaseOf(a.ctl, r.id) = {}
    PROVE  AdmissionIInv'
<1>1. CoupledLease(lease[h]) /\ BudgetFits(lease[h], book) /\ RateFits(lease[h], ctl) /\ CtlShape(ctl)
  BY LeaseNow DEF AdmissionIInv, StoresSound
<1>2. BudgetFits(r, book)
  <2>1. r.result = "Committed" => lease[h].budgetOk
    BY DEF FinalResult
  <2>2. /\ lease[h].rid \in ReservationIds /\ lease[h].op # "None"
        /\ lease[h].budgetOk => StateIn(book, lease[h].rid) = SettlesBudgetBy(lease[h].op)
        /\ SettlesBudgetBy(lease[h].op) = "Committed"
    BY <1>1 DEF BudgetFits, SettlesBudgetBy
  <2> QED BY <1>1, <2>1, <2>2 DEF BudgetFits, Owing
<1>3. RateFits(r, ctl')
  <2>1. r.id \in Nat /\ r.id <= ctl.identity /\ ctl.identity \in Nat /\ ctl'.identity \in Nat
        /\ ctl'.identity >= ctl.identity
    BY <1>1 DEF CoupledLease, RateFits, CtlShape, Ages
  <2> QED BY <2>1 DEF RateFits
<1>4. Owing(r) <=> Owing(lease[h])
  BY DEF Owing
<1> QED BY <1>2, <1>3, <1>4, RateMove

LEMMA FinalizeRateKeeps ==
    ASSUME AdmissionIInv, NEW h \in Handles, NEW now, FinalizeRate(h, now)
    PROVE  AdmissionIInv'
<1>1. PICK a : a = FinalizeAccepted(ctl, lease[h].id, now)
  OBVIOUS
<1> DEFINE x == FinalResult(h, a.code)
           y == a.code = "ReconciliationRequired"
           r == [lease[h] EXCEPT !.pc = "Done", !.seen = now, !.result = x, !.kept = y]
<1>2. /\ lease[h].pc = "RateStep" /\ ctl' = a.ctl /\ book' = book /\ Move(h, r)
      /\ lease[h].op \in {"Commit", "Accept"}
  BY <1>1 DEF FinalizeRate, At
<1>3. CoupledLease(lease[h]) /\ CtlShape(ctl)
  BY LeaseNow DEF AdmissionIInv, StoresSound
<1>4. /\ Ages(ctl, a.ctl) /\ Charged(a.ctl, lease[h].id)
      /\ y \/ LeaseOf(a.ctl, lease[h].id) = {}
  BY <1>1, <1>3, FinalizeAges
<1> HIDE DEF x, y
<1>5. /\ CoupledLease(r) /\ r.id = lease[h].id /\ r.rid = lease[h].rid /\ r.op = lease[h].op
      /\ r.pc = "Done" /\ r.result = x /\ r.kept = y
  BY <1>3 DEF CoupledLease, LeaseFields, Places
<1> HIDE DEF r
<1> QED BY <1>2, <1>4, <1>5, RateStepKeeps DEF x

LEMMA FinalizeRateUntimedKeeps ==
    ASSUME AdmissionIInv, NEW h \in Handles, FinalizeRateUntimed(h)
    PROVE  AdmissionIInv'
<1>1. PICK a : a = FinalizeUntimed(ctl, lease[h].id)
  OBVIOUS
<1> DEFINE x == FinalResult(h, a.code)
           r == [lease[h] EXCEPT !.pc = "Done", !.kept = TRUE, !.result = x]
<1>2. /\ lease[h].pc = "RateStep" /\ ctl' = a.ctl /\ book' = book /\ Move(h, r)
      /\ lease[h].op = "Accept"
  BY <1>1 DEF FinalizeRateUntimed, At
<1>3. CoupledLease(lease[h]) /\ CtlShape(ctl)
  BY LeaseNow DEF AdmissionIInv, StoresSound
<1>4. Ages(ctl, a.ctl) /\ Charged(a.ctl, lease[h].id)
  BY <1>1, <1>3, FinalizeUntimedAges
<1> HIDE DEF x
<1>5. /\ CoupledLease(r) /\ r.id = lease[h].id /\ r.rid = lease[h].rid /\ r.op = lease[h].op
      /\ r.pc = "Done" /\ r.result = x /\ r.kept
  BY <1>3 DEF CoupledLease, LeaseFields, Places
<1> HIDE DEF r
<1> QED BY <1>2, <1>4, <1>5, RateStepKeeps DEF x

LEMMA RetainRateKeeps ==
    ASSUME AdmissionIInv, NEW h \in Handles, NEW now, RetainRate(h, now)
    PROVE  AdmissionIInv'
<1>1. PICK a : a = RetainDispatched(ctl, lease[h].id, now)
  OBVIOUS
<1> DEFINE x == FinalResult(h, a.code)
           r == [lease[h] EXCEPT !.pc = "Done", !.seen = now, !.kept = TRUE, !.result = x]
<1>2. /\ lease[h].pc = "RateStep" /\ ctl' = a.ctl /\ book' = book /\ Move(h, r)
      /\ lease[h].op = "Unknown"
  BY <1>1 DEF RetainRate, At
<1>3. CoupledLease(lease[h]) /\ CtlShape(ctl)
  BY LeaseNow DEF AdmissionIInv, StoresSound
<1>4. Ages(ctl, a.ctl) /\ Charged(a.ctl, lease[h].id)
  BY <1>1, <1>3, RetainAges
<1> HIDE DEF x
<1>5. /\ CoupledLease(r) /\ r.id = lease[h].id /\ r.rid = lease[h].rid /\ r.op = lease[h].op
      /\ r.pc = "Done" /\ r.result = x /\ r.kept
  BY <1>3 DEF CoupledLease, LeaseFields, Places
<1> HIDE DEF r
<1> QED BY <1>2, <1>4, <1>5, RateStepKeeps DEF x

\* What closes the rate lease, or leaves the closing to the drop.
LEMMA CloseKeepsAll ==
    ASSUME AdmissionIInv, NEW h \in Handles, lease[h].pc \in {"RateStep", "DropRate", "Open"},
           lease[h].op \notin {"Accept", "Unknown"},
           NEW r, CoupledLease(r), Move(h, r), r.op = lease[h].op, r.id = lease[h].id,
           r.rid = lease[h].rid, r.result # "Committed", UNCHANGED book, Ages(ctl, ctl'),
           IF lease[h].pc = "Open" THEN r.pc = "DropBudget"
           ELSE r.pc = "DropRate" \/ (r.pc \in {"Rejected", "Done"} /\ LeaseOf(ctl', r.id) = {})
    PROVE  AdmissionIInv'
<1>1. CoupledLease(lease[h]) /\ BudgetFits(lease[h], book) /\ RateFits(lease[h], ctl) /\ CtlShape(ctl)
  BY LeaseNow DEF AdmissionIInv, StoresSound
<1>2. BudgetFits(r, book)
  BY <1>1 DEF BudgetFits, Owing
<1>3. RateFits(r, ctl')
  BY <1>1, FitsAge DEF RateFits
<1>4. (Owing(r) <=> Owing(lease[h])) /\ (~Over(r) \/ LeaseOf(ctl', r.id) = {})
  BY DEF Owing, Over
<1> QED BY <1>2, <1>3, <1>4, RateMove

LEMMA ReleaseRateKeeps ==
    ASSUME AdmissionIInv, NEW h \in Handles, NEW now, ReleaseRate(h, now)
    PROVE  AdmissionIInv'
<1>1. PICK a : a = CloseLease(ctl, lease[h].id, now)
  OBVIOUS
<1> DEFINE record == [lease[h] EXCEPT !.seen = now, !.result = a.code]
           r == IF a.code = "ClockRegressed"
                THEN [record EXCEPT !.pc = "DropRate", !.closeFailed = TRUE]
                ELSE [record EXCEPT !.pc = "Done"]
<1>2. /\ lease[h].pc = "RateStep" /\ ctl' = a.ctl /\ book' = book /\ Move(h, r)
      /\ lease[h].op = "Release"
  BY <1>1 DEF ReleaseRate, At
<1>3. CoupledLease(lease[h]) /\ CtlShape(ctl)
  BY LeaseNow DEF AdmissionIInv, StoresSound
<1>4. /\ Ages(ctl, a.ctl) /\ (a.code # "ClockRegressed" => LeaseOf(a.ctl, lease[h].id) = {})
      /\ a.code # "Committed"
  BY <1>1, <1>3, CloseAges
<1>5. /\ CoupledLease(r) /\ r.id = lease[h].id /\ r.rid = lease[h].rid /\ r.op = lease[h].op
      /\ r.result = a.code
      /\ r.pc = IF a.code = "ClockRegressed" THEN "DropRate" ELSE "Done"
  <2>1. /\ CoupledLease(record) /\ record.id = lease[h].id /\ record.rid = lease[h].rid
        /\ record.op = lease[h].op /\ record.result = a.code
    BY <1>3 DEF CoupledLease, LeaseFields
  <2> HIDE DEF record
  <2> QED BY <2>1 DEF CoupledLease, Places, LeaseFields
<1> HIDE DEF r
<1> QED BY <1>2, <1>4, <1>5, CloseKeepsAll

LEMMA DropOpenKeeps ==
    ASSUME AdmissionIInv, NEW h \in Handles, DropOpen(h)
    PROVE  AdmissionIInv'
<1> DEFINE r == [lease[h] EXCEPT !.pc = "DropBudget"]
<1>1. lease[h].pc = "Open" /\ ctl' = ctl /\ book' = book /\ Move(h, r)
  BY DEF DropOpen, At
<1>2. CoupledLease(lease[h]) /\ CtlShape(ctl) /\ BudgetFits(lease[h], book)
  BY LeaseNow DEF AdmissionIInv, StoresSound
<1>3. /\ CoupledLease(r) /\ r.id = lease[h].id /\ r.rid = lease[h].rid /\ r.op = lease[h].op
      /\ r.result = lease[h].result /\ r.pc = "DropBudget"
  BY <1>2 DEF CoupledLease, LeaseFields, Places
<1>4. r.result # "Committed" /\ lease[h].op \notin {"Accept", "Unknown"}
  BY <1>1, <1>2, <1>3 DEF BudgetFits
<1>5. Ages(ctl, ctl')
  BY <1>1, <1>2, AgesItself
<1> HIDE DEF r
<1> QED BY <1>1, <1>3, <1>4, <1>5, CloseKeepsAll

LEMMA DropRateKeeps ==
    ASSUME AdmissionIInv, NEW h \in Handles, DropRate(h)
    PROVE  AdmissionIInv'
<1> DEFINE x == IF lease[h].result = "RollbackFailed" THEN "Rejected" ELSE "Done"
           r == [lease[h] EXCEPT !.pc = x]
<1>1. lease[h].pc = "DropRate" /\ ctl' = CloseUntimed(ctl, lease[h].id) /\ book' = book /\ Move(h, r)
  BY DEF DropRate, At
<1>2. CoupledLease(lease[h]) /\ CtlShape(ctl) /\ BudgetFits(lease[h], book)
  BY LeaseNow DEF AdmissionIInv, StoresSound
<1>3. x \in {"Rejected", "Done"}
  OBVIOUS
<1> HIDE DEF x
<1>4. /\ CoupledLease(r) /\ r.id = lease[h].id /\ r.rid = lease[h].rid /\ r.op = lease[h].op
      /\ r.result = lease[h].result /\ r.pc = x
  BY <1>2, <1>3 DEF CoupledLease, LeaseFields, Places
<1>5. r.result # "Committed" /\ lease[h].op \notin {"Accept", "Unknown"}
  BY <1>1, <1>2, <1>4 DEF BudgetFits
<1>6. Ages(ctl, ctl') /\ LeaseOf(ctl', lease[h].id) = {}
  BY <1>1, <1>2, ObservedClose DEF CloseUntimed
<1> HIDE DEF r
<1> QED BY <1>1, <1>3, <1>4, <1>5, <1>6, CloseKeepsAll

LEMMA DropBudgetKeeps ==
    ASSUME AdmissionIInv, NEW h \in Handles, DropBudget(h)
    PROVE  AdmissionIInv'
<1> DEFINE r == [lease[h] EXCEPT !.pc = "DropRate"]
<1>1. /\ lease[h].pc = "DropBudget" /\ ctl' = ctl /\ Move(h, r)
      /\ book' = Transition(book, lease[h].rid, "Released").book
  BY DEF DropBudget, At
<1>2. CoupledLease(lease[h]) /\ BudgetFits(lease[h], book) /\ RateFits(lease[h], ctl)
  BY LeaseNow
<1>3. /\ CoupledLease(r) /\ r.id = lease[h].id /\ r.rid = lease[h].rid /\ r.op = lease[h].op
      /\ r.result = lease[h].result /\ r.pc = "DropRate"
  BY <1>2 DEF CoupledLease, LeaseFields, Places
<1> HIDE DEF r
<1>4. BudgetFits(r, book') /\ RateFits(r, ctl) /\ ~Over(r) /\ Owing(lease[h])
  BY <1>1, <1>2, <1>3 DEF BudgetFits, RateFits, Over, Owing
<1> QED BY <1>1, <1>3, <1>4, BudgetMove

LEMMA BudgetStepKeeps ==
    ASSUME AdmissionIInv, NEW h \in Handles, NEW op \in {"Commit", "Accept", "Unknown", "Release"},
           BudgetStep(h, op)
    PROVE  AdmissionIInv'
<1>1. PICK t : t = Transition(book, lease[h].rid, SettlesBudgetBy(op))
  OBVIOUS
<1>2. lease[h].pc = "Open" /\ Owing(lease[h]) /\ book' = t.book /\ ctl' = ctl
  BY <1>1 DEF BudgetStep, At, Owing
<1>3. CoupledLease(lease[h]) /\ BudgetFits(lease[h], book) /\ RateFits(lease[h], ctl)
  BY LeaseNow
<1> DEFINE target == SettlesBudgetBy(op)
           rid == lease[h].rid
<1>4. target \in {"Committed", "Released"} /\ (op # "Release" => target = "Committed")
  BY DEF SettlesBudgetBy
<1>5. /\ rid \in ReservationIds /\ StateIn(book, rid) \in {"Reserved", "Expired"}
      /\ lease[h].op \notin {"Accept", "Unknown"} /\ lease[h].result # "Committed"
  BY <1>2, <1>3 DEF BudgetFits
<1>6. /\ StateIn(book', rid) \in {target, "Expired"}
      /\ t.code = "Ok" <=> StateIn(book', rid) = target
  BY <1>1, <1>2, <1>4, <1>5, SettleMoves DEF AdmissionIInv, StoresSound
<1>7. ASSUME NEW r, CoupledLease(r), Move(h, r), r.id = lease[h].id, r.rid = rid, ~Over(r),
             BudgetFits(r, book'), RateFits(r, ctl)
      PROVE  AdmissionIInv'
  BY <1>1, <1>2, <1>4, <1>7, BudgetMove
<1>8. CASE /\ t.code = "Ok" \/ op \in {"Accept", "Unknown"}
           /\ Move(h, [lease[h] EXCEPT !.pc = "RateStep", !.op = op, !.budgetOk = (t.code = "Ok")])
  <2> DEFINE ok == t.code = "Ok"
             r == [lease[h] EXCEPT !.pc = "RateStep", !.op = op, !.budgetOk = ok]
  <2>1. Move(h, r)
    BY <1>8
  <2>2. ok <=> StateIn(book', rid) = target
    BY <1>6
  <2>3. ok \/ op \in {"Accept", "Unknown"}
    BY <1>8
  <2> HIDE DEF ok
  <2>4. /\ CoupledLease(r) /\ r.id = lease[h].id /\ r.rid = rid /\ r.op = op
        /\ r.result = lease[h].result /\ r.pc = "RateStep" /\ r.budgetOk = ok
    BY <1>3 DEF CoupledLease, LeaseFields, Places, Operations
  <2> HIDE DEF r
  <2>5. BudgetFits(r, book')
    <3>1. SettlesBudgetBy(r.op) = target
      BY <2>4
    <3> HIDE DEF target
    <3> QED BY <1>4, <1>5, <1>6, <2>2, <2>3, <2>4, <3>1 DEF BudgetFits, Owing, Final
  <2>6. RateFits(r, ctl) /\ ~Over(r)
    BY <1>3, <1>5, <2>4 DEF RateFits, Over
  <2> QED BY <1>7, <2>1, <2>4, <2>5, <2>6
<1>9. CASE /\ ~(t.code = "Ok") /\ op = "Commit"
           /\ Move(h, [lease[h] EXCEPT !.result = "LeaseClosed"])
  <2> DEFINE r == [lease[h] EXCEPT !.result = "LeaseClosed"]
  <2>1. /\ CoupledLease(r) /\ r.id = lease[h].id /\ r.rid = rid /\ r.op = lease[h].op
        /\ r.result = "LeaseClosed" /\ r.pc = "Open" /\ Move(h, r)
    BY <1>2, <1>3, <1>9 DEF CoupledLease, LeaseFields, Places
  <2> HIDE DEF r, target
  <2>2. BudgetFits(r, book') /\ RateFits(r, ctl) /\ ~Over(r)
    BY <1>3, <1>5, <1>6, <1>9, <2>1 DEF BudgetFits, RateFits, Over, Owing
  <2> QED BY <1>7, <2>1, <2>2
<1>10. CASE /\ ~(t.code = "Ok") /\ op = "Release"
            /\ Move(h, [lease[h] EXCEPT !.pc = "DropBudget", !.result = "LeaseClosed"])
  <2> DEFINE r == [lease[h] EXCEPT !.pc = "DropBudget", !.result = "LeaseClosed"]
  <2>1. /\ CoupledLease(r) /\ r.id = lease[h].id /\ r.rid = rid /\ r.op = lease[h].op
        /\ r.result = "LeaseClosed" /\ r.pc = "DropBudget" /\ Move(h, r)
    BY <1>2, <1>3, <1>10 DEF CoupledLease, LeaseFields, Places
  <2> HIDE DEF r, target
  <2>2. BudgetFits(r, book') /\ RateFits(r, ctl) /\ ~Over(r)
    BY <1>3, <1>5, <1>6, <1>10, <2>1 DEF BudgetFits, RateFits, Over, Owing
  <2> QED BY <1>7, <2>1, <2>2
<1> QED BY <1>1, <1>8, <1>9, <1>10 DEF BudgetStep

LEMMA SweepBudgetsKeeps ==
    ASSUME AdmissionIInv, NEW utc \in Utc, SweepBudgets(utc)
    PROVE  AdmissionIInv'
<1>1. utc \in Nat /\ BookSound(book)
  BY RoutingAssumption DEF RoutingAssumption, AdmissionIInv, StoresSound
<1>2. book' = Sweep(book, utc) /\ ctl' = ctl /\ lease' = lease
  BY <1>1, SweepMoves DEF SweepBudgets, ExpireBook, Result
<1>3. BookSound(book') /\ \A id \in ReservationIds : Drifts(book, book', id)
  BY <1>1, <1>2, SweepMoves DEF Drifts, StateIn
<1>4. RequestsFit'
  BY <1>2, <1>3, FitsDrift DEF AdmissionIInv, RequestsFit
<1>5. ReservedIsOwed'
  BY <1>2, <1>3 DEF AdmissionIInv, ReservedIsOwed, Drifts
<1> QED BY <1>2, <1>3, <1>4, <1>5
    DEF AdmissionIInv, LeasesTyped, StoresSound, OwnersDiffer, RateLeasesHaveAnOwner, Ended

LEMMA ObserveLimitsKeeps ==
    ASSUME AdmissionIInv, NEW k, NEW now, ObserveLimits(k, now)
    PROVE  AdmissionIInv'
<1>1. CtlShape(ctl) /\ ctl' = Inspect(ctl, k, now).ctl /\ book' = book /\ lease' = lease
  BY DEF AdmissionIInv, StoresSound, ObserveLimits
<1>2. Ages(ctl, ctl')
  BY <1>1, InspectAges
<1>3. RequestsFit'
  BY <1>1, <1>2, FitsAge DEF AdmissionIInv, RequestsFit, LeasesTyped
<1>4. RateLeasesHaveAnOwner'
  BY <1>1, <1>2 DEF AdmissionIInv, RateLeasesHaveAnOwner, Ended, Ages
<1>5. StoresSound'
  BY <1>1, <1>2 DEF AdmissionIInv, StoresSound, Ages
<1> QED BY <1>1, <1>3, <1>4, <1>5 DEF AdmissionIInv, LeasesTyped, OwnersDiffer, ReservedIsOwed

LEMMA AdmissionInvariant == Spec => []AdmissionIInv
<1>1. Init => AdmissionIInv
  <2> SUFFICES ASSUME Init PROVE AdmissionIInv
    OBVIOUS
  <2>1. /\ ctl = NewController(0) /\ book = NewBook(Policies)
        /\ lease = [h \in Handles |-> lease[h]] /\ \A h \in Handles : lease[h] = NoLease
    BY DEF Init
  <2>2. CoupledLease(NoLease) /\ NoLease.pc = "Idle" /\ NoLease.op = "None" /\ ~NoLease.kept
        /\ NoLease.result = "None" /\ NoLease.id = 0
    BY DEF NoLease, CoupledLease, LeaseFields, Places, Operations
  <2>3. CtlShape(ctl) /\ ctl.leases = {} /\ ctl.identity = 0
    BY <2>1 DEF NewController, CtlShape
  <2>4. LeasesTyped /\ StoresSound
    BY <2>1, <2>2, <2>3, NewBookSound DEF LeasesTyped, StoresSound
  <2>5. RequestsFit
    BY <2>1, <2>2, <2>3 DEF RequestsFit, BudgetFits, RateFits, Owing
  <2>6. OwnersDiffer
    BY <2>1, <2>2 DEF OwnersDiffer, Owing
  <2>7. ReservedIsOwed
    BY <2>1, NewBookSound DEF ReservedIsOwed
  <2>8. RateLeasesHaveAnOwner
    BY <2>3 DEF RateLeasesHaveAnOwner
  <2> QED BY <2>4, <2>5, <2>6, <2>7, <2>8 DEF AdmissionIInv
<1>2. AdmissionIInv /\ [Next]_vars => AdmissionIInv'
  <2> SUFFICES ASSUME AdmissionIInv, [Next]_vars PROVE AdmissionIInv'
    OBVIOUS
  <2>1. CASE UNCHANGED vars
    BY <2>1 DEF vars, AdmissionIInv, LeasesTyped, StoresSound, RequestsFit, OwnersDiffer,
       ReservedIsOwed, RateLeasesHaveAnOwner, Ended
  <2>2. ASSUME NEW h \in Handles, NEW req \in RoutingRequests, NEW rid \in ReservationIds,
               NEW now \in Instant, AdmitRate(h, req, rid, now)
        PROVE  AdmissionIInv'
    BY <2>2, AdmitRateKeeps
  <2>3. ASSUME NEW h \in Handles, NEW utc \in Utc, AdmitBudget(h, utc) PROVE AdmissionIInv'
    BY <2>3, AdmitBudgetKeeps
  <2>4. ASSUME NEW h \in Handles, RollBack(h) PROVE AdmissionIInv'
    BY <2>4, RollBackKeeps
  <2>5. ASSUME NEW h \in Handles, NEW op \in {"Commit", "Accept", "Unknown", "Release"},
               BudgetStep(h, op)
        PROVE  AdmissionIInv'
    BY <2>5, BudgetStepKeeps
  <2>6. ASSUME NEW h \in Handles, NEW now, FinalizeRate(h, now) \/ RetainRate(h, now) \/ ReleaseRate(h, now)
        PROVE  AdmissionIInv'
    BY <2>6, FinalizeRateKeeps, RetainRateKeeps, ReleaseRateKeeps
  <2>7. ASSUME NEW h \in Handles, FinalizeRateUntimed(h) PROVE AdmissionIInv'
    BY <2>7, FinalizeRateUntimedKeeps
  <2>8. ASSUME NEW h \in Handles, DropOpen(h) \/ DropBudget(h) \/ DropRate(h) PROVE AdmissionIInv'
    BY <2>8, DropOpenKeeps, DropBudgetKeeps, DropRateKeeps
  <2>9. ASSUME NEW utc \in Utc, SweepBudgets(utc) PROVE AdmissionIInv'
    BY <2>9, SweepBudgetsKeeps
  <2>10. ASSUME NEW k \in LimitKeys, NEW now \in Instant, ObserveLimits(k, now) PROVE AdmissionIInv'
    BY <2>10, ObserveLimitsKeeps
  <2> QED BY <2>1, <2>2, <2>3, <2>4, <2>5, <2>6, <2>7, <2>8, <2>9, <2>10 DEF Next
<1> QED BY <1>1, <1>2, PTL DEF Spec

\* The two stores agree between any two of their locks, for any requests, limits,
\* policies and clocks and whatever comes in between: every reservation has exactly
\* one request that will settle it, every rate lease an owner, and what a caller is
\* told holds in both.
THEOREM StoresAlwaysAgree == Spec => []BothStoresAgree
<1>1. AdmissionIInv => BothStoresAgree
  <2> SUFFICES ASSUME AdmissionIInv PROVE BothStoresAgree
    OBVIOUS
  <2>1. ReservationsHaveOneOwner
    <3> SUFFICES ASSUME NEW rid \in InState(book, "Reserved")
                 PROVE  Cardinality({h \in Handles : Owing(lease[h]) /\ lease[h].rid = rid}) = 1
      BY DEF ReservationsHaveOneOwner, Owing
    <3>1. PICK h \in Handles : Owing(lease[h]) /\ lease[h].rid = rid
      BY DEF AdmissionIInv, ReservedIsOwed, InState, StateIn
    <3>2. {k \in Handles : Owing(lease[k]) /\ lease[k].rid = rid} = {h}
      BY <3>1 DEF AdmissionIInv, OwnersDiffer
    <3> QED BY <3>2, FS_Singleton
  <2>2. CommittedOnBothSides /\ AcceptedIsNotRefunded
    BY DEF AdmissionIInv, RequestsFit, BudgetFits, RateFits, Charged, StateIn, CommittedOnBothSides,
       AcceptedIsNotRefunded
  <2> QED BY <2>1, <2>2 DEF BothStoresAgree, AdmissionIInv
<1> QED BY <1>1, AdmissionInvariant, PTL

-----------------------------------------------------------------------------
(* RoutingAdmission and RateLimit.  The instance has the operations of the *)
(* controller under names of its own; they are the same operations.        *)

LEMMA SameSums ==
    ASSUME NEW S, NEW k
    PROVE  /\ Controller!PendingUnits(S, k) = PendingUnits(S, k)
           /\ Controller!Permits(S, k) = Permits(S, k)
<1>1. Controller!PendingUnits(S, k) = PendingUnits(S, k)
  BY Zenon DEF Controller!PendingUnits, PendingUnits, Controller!MapThenSumSet, MapThenSumSet,
       Controller!MapThenFoldSet, MapThenFoldSet, Controller!Rated, Rated
<1>2. Controller!Permits(S, k) = Permits(S, k)
  BY Zenon DEF Controller!Permits, Permits,
       Controller!Permitted, Permitted, Controller!Cardinality, Cardinality
<1> QED BY <1>1, <1>2

LEMMA SameRemoval ==
    ASSUME NEW c, NEW S
    PROVE  Controller!RemoveLeases(c, S) = RemoveLeases(c, S)
<1>1. /\ \A k \in LimitKeys : Controller!PendingUnits(S, k) = PendingUnits(S, k)
      /\ \A k \in LimitKeys : Controller!Permits(S, k) = Permits(S, k)
  BY SameSums
<1> QED BY <1>1 DEF Controller!RemoveLeases, RemoveLeases, Controller!Monus, Monus

LEMMA SameObservation ==
    ASSUME NEW c, NEW now
    PROVE  /\ Controller!Observe(c, now) = Observe(c, now)
           /\ Controller!Regresses(c, now) <=> Regresses(c, now)
BY SameRemoval DEF Controller!Observe, Observe, Controller!Regresses, Regresses

LEMMA SameWindows ==
    ASSUME NEW c, NEW keys, NEW now
    PROVE  /\ Controller!PrepareWindows(c, keys, now) = PrepareWindows(c, keys, now)
           /\ Controller!WindowsOverflow(keys, now) <=> WindowsOverflow(keys, now)
BY DEF Controller!PrepareWindows, PrepareWindows, Controller!WindowsOverflow, WindowsOverflow,
       Controller!Rated, Rated

LEMMA SameCharge ==
    ASSUME NEW c, NEW id
    PROVE  /\ Controller!LeaseOf(c, id) = LeaseOf(c, id)
           /\ Controller!ChargeUnits(c, id) = ChargeUnits(c, id)
<1>1. Controller!LeaseOf(c, id) = LeaseOf(c, id)
  BY Zenon DEF Controller!LeaseOf, LeaseOf
<1>2. Controller!ChargeUnits(c, id) = ChargeUnits(c, id)
  BY Zenon DEF Controller!ChargeUnits, ChargeUnits, Controller!Rated, Rated, Controller!LeaseOf, LeaseOf,
     Controller!Monus, Monus
<1> QED BY <1>1, <1>2

LEMMA SameAdmission ==
    ASSUME NEW c, NEW req, NEW now
    PROVE  Controller!TryAdmit(c, req, now) = TryAdmit(c, req, now)
<1>1. /\ Controller!Observe(c, now) = Observe(c, now)
      /\ Controller!Regresses(c, now) <=> Regresses(c, now)
  BY SameObservation
<1> DEFINE o == Observe(c, now)
           p == PrepareWindows(o, req.keys, now)
           a == Allocate(p)
<1>2. Controller!PrepareWindows(o, req.keys, now) = p /\ Controller!Allocate(p) = a
  BY SameWindows DEF Controller!Allocate, Allocate
<1>3. Controller!WindowsOverflow(req.keys, now) <=> WindowsOverflow(req.keys, now)
  BY SameWindows
<1>4. /\ Controller!RateExceeded(p, req) <=> RateExceeded(p, req)
      /\ Controller!ConcurrencyExceeded(p, req) <=> ConcurrencyExceeded(p, req)
  BY Zenon DEF Controller!RateExceeded, RateExceeded, Controller!ConcurrencyExceeded, ConcurrencyExceeded,
     Controller!Rated, Rated, Controller!Permitted, Permitted, Controller!Monus, Monus
<1>5. /\ Controller!LeaseExpiry(p, req.keys, now) = LeaseExpiry(p, req.keys, now)
      /\ \A e : Controller!Grant(a, req, e) = Grant(a, req, e)
      /\ Controller!Permitted(req.keys) = Permitted(req.keys)
  BY Zenon DEF Controller!LeaseExpiry, LeaseExpiry, Controller!Rated, Rated, Controller!Permitted, Permitted,
     Controller!Min, Min, Controller!Grant, Grant
<1>6. \A d, x : Controller!Answer(d, x) = Answer(d, x)
  BY DEF Controller!Answer, Answer
<1> HIDE DEF o, p, a
<1> QED BY <1>1, <1>2, <1>3, <1>4, <1>5, <1>6, Zenon DEF Controller!TryAdmit, TryAdmit, o, p, a

LEMMA SameEndings ==
    ASSUME NEW c, NEW id, NEW now
    PROVE  /\ Controller!FinalizeAccepted(c, id, now) = FinalizeAccepted(c, id, now)
           /\ Controller!FinalizeUntimed(c, id) = FinalizeUntimed(c, id)
           /\ Controller!RetainDispatched(c, id, now) = RetainDispatched(c, id, now)
           /\ Controller!CloseLease(c, id, now) = CloseLease(c, id, now)
           /\ Controller!CloseUntimed(c, id) = CloseUntimed(c, id)
<1>1. /\ \A d : Controller!Observe(d, now) = Observe(d, now) /\ (Controller!Regresses(d, now) <=> Regresses(d, now))
      /\ \A d : Controller!LeaseOf(d, id) = LeaseOf(d, id) /\ Controller!ChargeUnits(d, id) = ChargeUnits(d, id)
      /\ \A d, S : Controller!RemoveLeases(d, S) = RemoveLeases(d, S)
      /\ \A d, x : Controller!Answer(d, x) = Answer(d, x)
  BY SameObservation, SameCharge, SameRemoval DEF Controller!Answer, Answer
<1> QED BY <1>1 DEF Controller!FinalizeAccepted, FinalizeAccepted, Controller!FinalizeUntimed, FinalizeUntimed,
           Controller!RetainDispatched, RetainDispatched, Controller!CloseLease, CloseLease,
           Controller!CloseUntimed, CloseUntimed

LEMMA SameInspection ==
    ASSUME NEW c, NEW k, NEW now
    PROVE  Controller!Inspect(c, k, now) = Inspect(c, k, now)
BY SameObservation, SameWindows DEF Controller!Inspect, Inspect, Controller!Answer, Answer

LEMMA SameStart == Controller!NewController(0) = NewController(0) /\ Controller!Instant = Instant
BY DEF Controller!NewController, NewController, Controller!NoWindow, NoWindow, Controller!Instant, Instant

-----------------------------------------------------------------------------
(* Which identities the controller's specification sees in whose hands.    *)

InHand(l) == \/ l.pc \in {"Reserving", "RollingBack", "Open", "RateStep", "DropBudget"}
             \/ l.pc = "DropRate" /\ ~l.closeFailed
InDrop(l) == l.pc = "DropRate" /\ l.closeFailed

InHands(f) == {f[h].id : h \in {x \in Handles : InHand(f[x])}}
InDrops(f) == {f[h].id : h \in {x \in Handles : InDrop(f[x])}}
Keeping(f) == {f[h].id : h \in {x \in Handles : f[x].kept}}

\* What the record of one request says of its rate lease.
HandOK(l) ==
    /\ l.seen \in Instant
    /\ l.closeFailed => l.pc \in {"DropRate", "Rejected", "Done"}
    /\ l.kept => l.pc = "Done"

HandsOK ==
    /\ \A h \in Handles : HandOK(lease[h])
    /\ \A h, k \in Handles :
         ~Over(lease[h]) /\ ~Over(lease[k]) /\ lease[h].id = lease[k].id => h = k

LEMMA HandOrDrop ==
    ASSUME NEW l, CoupledLease(l)
    PROVE  /\ InHand(l) \/ InDrop(l) <=> ~Over(l)
           /\ ~(InHand(l) /\ InDrop(l))
BY DEF CoupledLease, Places, InHand, InDrop, Over

\* A step of a request that has a rate lease moves this identity and no other.
LEMMA HandsMove ==
    ASSUME LeasesTyped, HandsOK, NEW h \in Handles, ~Over(lease[h]),
           NEW r, Move(h, r), CoupledLease(r), HandOK(r), r.id = lease[h].id
    PROVE  /\ HandsOK'
           /\ InHands(lease') = IF InHand(r) THEN InHands(lease) \cup {r.id} ELSE InHands(lease) \ {r.id}
           /\ InDrops(lease') = IF InDrop(r) THEN InDrops(lease) \cup {r.id} ELSE InDrops(lease) \ {r.id}
           /\ Keeping(lease') = IF r.kept THEN Keeping(lease) \cup {r.id} ELSE Keeping(lease)
           /\ IF InHand(lease[h]) THEN r.id \in InHands(lease) /\ r.id \notin InDrops(lease)
                                  ELSE r.id \in InDrops(lease) /\ r.id \notin InHands(lease)
<1>1. /\ lease' = [k \in Handles |-> lease'[k]]
      /\ lease'[h] = r /\ \A k \in Handles \ {h} : lease'[k] = lease[k]
  BY DEF Move, LeasesTyped
<1>2. \A k \in Handles : CoupledLease(lease[k])
  BY DEF LeasesTyped
<1>3. \A k \in Handles \ {h} : InHand(lease[k]) \/ InDrop(lease[k]) => lease[k].id # r.id
  BY <1>2, HandOrDrop DEF HandsOK
<1>4. HandsOK'
  <2>1. \A k \in Handles : HandOK(lease'[k])
    BY <1>1 DEF HandsOK
  <2>2. \A k \in Handles : lease'[k].id = lease[k].id /\ (~Over(lease'[k]) => ~Over(lease[k]))
    BY <1>1
  <2> QED BY <2>1, <2>2 DEF HandsOK
<1>5. InHands(lease') = IF InHand(r) THEN InHands(lease) \cup {r.id} ELSE InHands(lease) \ {r.id}
  <2>1. CASE InHand(r)
    BY <1>1, <1>3, <2>1 DEF InHands
  <2>2. CASE ~InHand(r)
    BY <1>1, <1>3, <2>2 DEF InHands
  <2> QED BY <2>1, <2>2
<1>6. InDrops(lease') = IF InDrop(r) THEN InDrops(lease) \cup {r.id} ELSE InDrops(lease) \ {r.id}
  <2>1. CASE InDrop(r)
    BY <1>1, <1>3, <2>1 DEF InDrops
  <2>2. CASE ~InDrop(r)
    BY <1>1, <1>3, <2>2 DEF InDrops
  <2> QED BY <2>1, <2>2
<1>7. ~lease[h].kept
  BY DEF HandsOK, HandOK, Over
<1>8. Keeping(lease') = IF r.kept THEN Keeping(lease) \cup {r.id} ELSE Keeping(lease)
  BY <1>1, <1>7 DEF Keeping
<1>9. IF InHand(lease[h]) THEN r.id \in InHands(lease) /\ r.id \notin InDrops(lease)
                          ELSE r.id \in InDrops(lease) /\ r.id \notin InHands(lease)
  <2>1. CASE InHand(lease[h])
    BY <2>1, <1>2, <1>3, HandOrDrop DEF InHands, InDrops
  <2>2. CASE ~InHand(lease[h])
    BY <2>2, <1>2, <1>3, HandOrDrop DEF InHands, InDrops
  <2> QED BY <2>1, <2>2
<1> QED BY <1>4, <1>5, <1>6, <1>8, <1>9

\* A step of the controller's specification, or none.
Sanctioned == Controller!RateNext \/ UNCHANGED <<ctl, InHands(lease), InDrops(lease), Keeping(lease)>>

\* A step that leaves the controller alone.
LEMMA BudgetOnly ==
    ASSUME LeasesTyped, HandsOK, NEW h \in Handles, ~Over(lease[h]), InHand(lease[h]), UNCHANGED ctl,
           NEW r, Move(h, r), CoupledLease(r), HandOK(r), InHand(r), ~r.kept, r.id = lease[h].id
    PROVE  HandsOK' /\ Sanctioned
<1>1. /\ HandsOK' /\ InHands(lease') = InHands(lease) \cup {r.id}
      /\ InDrops(lease') = InDrops(lease) \ {r.id} /\ Keeping(lease') = Keeping(lease)
      /\ r.id \in InHands(lease) /\ r.id \notin InDrops(lease)
  <2>1. ~InDrop(r)
    BY HandOrDrop
  <2> QED BY <2>1, HandsMove
<1> QED BY <1>1 DEF Sanctioned

\* How a change of the controller and of the three sets is a step of RateLimit.
LEMMA IsClose ==
    ASSUME NEW id \in InHands(lease), NEW now \in Instant, NEW a, a = CloseLease(ctl, id, now),
           ctl' = a.ctl, InHands(lease') = InHands(lease) \ {id}, Keeping(lease') = Keeping(lease),
           InDrops(lease') = IF a.code = "ClockRegressed" THEN InDrops(lease) \cup {id} ELSE InDrops(lease)
    PROVE  Sanctioned
<1>1. Controller!Close(id, now)
  BY SameEndings, Zenon DEF Controller!Close, InHands, InDrops, Keeping, InHand, InDrop
<1>2. now \in Controller!Instant
  BY SameStart
<1> QED BY <1>1, <1>2, Zenon DEF Sanctioned, Controller!RateNext, InHands, InHand

LEMMA IsFinalize ==
    ASSUME NEW id \in InHands(lease), NEW now \in Instant, NEW a, a = FinalizeAccepted(ctl, id, now),
           ctl' = a.ctl, InHands(lease') = InHands(lease) \ {id}, InDrops(lease') = InDrops(lease),
           Keeping(lease') = IF a.code = "ReconciliationRequired" THEN Keeping(lease) \cup {id}
                                                                  ELSE Keeping(lease)
    PROVE  Sanctioned
<1>1. Controller!Finalize(id, now)
  BY SameEndings, Zenon DEF Controller!Finalize, InHands, InDrops, Keeping, InHand, InDrop
<1>2. now \in Controller!Instant
  BY SameStart
<1> QED BY <1>1, <1>2, Zenon DEF Sanctioned, Controller!RateNext, InHands, InHand

LEMMA IsUntimed ==
    ASSUME NEW id \in InHands(lease), ctl' = FinalizeUntimed(ctl, id).ctl,
           InHands(lease') = InHands(lease) \ {id}, InDrops(lease') = InDrops(lease),
           Keeping(lease') = Keeping(lease) \cup {id}
    PROVE  Sanctioned
<1>1. Controller!FinalizeWithoutClock(id)
  BY SameEndings, Zenon DEF Controller!FinalizeWithoutClock, InHands, InDrops, Keeping, InHand, InDrop
<1> QED BY <1>1, Zenon DEF Sanctioned, Controller!RateNext, InHands, InHand

LEMMA IsRetain ==
    ASSUME NEW id \in InHands(lease), NEW now \in Instant, ctl' = RetainDispatched(ctl, id, now).ctl,
           InHands(lease') = InHands(lease) \ {id}, InDrops(lease') = InDrops(lease),
           Keeping(lease') = Keeping(lease) \cup {id}
    PROVE  Sanctioned
<1>1. Controller!Retain(id, now)
  BY SameEndings, Zenon DEF Controller!Retain, InHands, InDrops, Keeping, InHand, InDrop
<1>2. now \in Controller!Instant
  BY SameStart
<1> QED BY <1>1, <1>2, Zenon DEF Sanctioned, Controller!RateNext, InHands, InHand

LEMMA IsDrop ==
    ASSUME NEW id \in InHands(lease) \cup InDrops(lease), ctl' = CloseUntimed(ctl, id),
           InHands(lease') = InHands(lease) \ {id}, InDrops(lease') = InDrops(lease) \ {id},
           Keeping(lease') = Keeping(lease)
    PROVE  Sanctioned
<1>1. Controller!DropHandle(id)
  BY SameEndings, Zenon DEF Controller!DropHandle, InHands, InDrops, Keeping, InHand, InDrop
<1> QED BY <1>1, Zenon DEF Sanctioned, Controller!RateNext, InHands, InDrops, InHand, InDrop

LEMMA IsAdmit ==
    ASSUME NEW req \in RateRequests, NEW now \in Instant, NEW a, a = TryAdmit(ctl, req, now),
           ctl' = a.ctl, InDrops(lease') = InDrops(lease), Keeping(lease') = Keeping(lease),
           InHands(lease') = IF a.code = "Ok" THEN InHands(lease) \cup {a.ctl.identity} ELSE InHands(lease)
    PROVE  Sanctioned
<1>1. Controller!Admit(req, now)
  BY SameAdmission, Zenon DEF Controller!Admit, InHands, InDrops, Keeping, InHand, InDrop
<1>2. now \in Controller!Instant
  BY SameStart
<1> QED BY <1>1, <1>2, Zenon DEF Sanctioned, Controller!RateNext

LEMMA IsSnapshot ==
    ASSUME NEW k \in LimitKeys, NEW now \in Instant, ctl' = Inspect(ctl, k, now).ctl, UNCHANGED lease
    PROVE  Sanctioned
<1>1. Controller!Snapshot(k, now)
  BY SameInspection, Zenon DEF Controller!Snapshot
<1>2. now \in Controller!Instant
  BY SameStart
<1> QED BY <1>1, <1>2, Zenon DEF Sanctioned, Controller!RateNext

-----------------------------------------------------------------------------
(* Each step of the admission is a step of the controller's, or none.      *)

LEMMA AdmitRateUses ==
    ASSUME AdmissionIInv, HandsOK, NEW h \in Handles, NEW req \in RoutingRequests,
           NEW rid \in ReservationIds, NEW now \in Instant, AdmitRate(h, req, rid, now)
    PROVE  HandsOK' /\ Sanctioned
<1>1. PICK a : a = TryAdmit(ctl, req.rate, now)
  OBVIOUS
<1> DEFINE good == [NoLease EXCEPT !.pc = "Reserving", !.rid = rid, !.req = req.budget,
                                   !.id = a.ctl.identity, !.seen = now]
           bad == [NoLease EXCEPT !.pc = "Rejected", !.result = a.code]
           r == IF a.code = "Ok" THEN good ELSE bad
<1>2. lease[h].pc = "Idle" /\ ctl' = a.ctl /\ Move(h, r)
  BY <1>1 DEF AdmitRate, At
<1>3. /\ good.pc = "Reserving" /\ good.id = a.ctl.identity /\ good.seen = now /\ good.kept = FALSE
      /\ good.closeFailed = FALSE
      /\ bad.pc = "Rejected" /\ bad.seen = 0 /\ bad.kept = FALSE /\ bad.closeFailed = FALSE
  BY DEF NoLease
<1>4. HandOK(r) /\ ~r.kept /\ ~InDrop(r) /\ (InHand(r) <=> a.code = "Ok") /\ (Over(r) <=> a.code # "Ok")
  <2>1. 0 \in Instant
    BY RateAssumption DEF Instant, RateAssumption
  <2>2. CASE a.code = "Ok"
    BY <1>3, <2>2 DEF HandOK, InHand, InDrop, Over
  <2>3. CASE a.code # "Ok"
    BY <1>3, <2>1, <2>3 DEF HandOK, InHand, InDrop, Over
  <2> QED BY <2>2, <2>3
<1>5. a.code = "Ok" => r.id = a.ctl.identity
  BY <1>3
<1> HIDE DEF r
<1>6. CtlShape(ctl) /\ req.rate \in RateRequests
  BY RoutingAssumption DEF AdmissionIInv, StoresSound, RoutingAssumption, RoutingRequest
<1>7. \A k \in Handles : a.code = "Ok" => lease[k].id # r.id
  <2> SUFFICES ASSUME NEW k \in Handles, a.code = "Ok" PROVE lease[k].id # r.id
    OBVIOUS
  <2>1. a.ctl.identity = ctl.identity + 2
    BY <1>1, <1>6, AdmitAges
  <2>2. ctl.identity \in Nat /\ lease[k].id \in Nat /\ lease[k].id <= ctl.identity
    BY <1>6, LeaseNow DEF CtlShape, RateFits, CoupledLease
  <2> QED BY <1>5, <2>1, <2>2
<1>8. /\ lease' = [k \in Handles |-> lease'[k]]
      /\ lease'[h] = r /\ \A k \in Handles \ {h} : lease'[k] = lease[k]
  BY <1>2 DEF Move, AdmissionIInv, LeasesTyped
<1>9. ~InHand(lease[h]) /\ ~InDrop(lease[h]) /\ ~lease[h].kept
  BY <1>2 DEF InHand, InDrop, HandsOK, HandOK
<1>10. HandsOK'
  BY <1>4, <1>7, <1>8 DEF HandsOK
<1>11. InDrops(lease') = InDrops(lease) /\ Keeping(lease') = Keeping(lease)
  BY <1>4, <1>8, <1>9 DEF InDrops, Keeping
<1>12. InHands(lease') = IF a.code = "Ok" THEN InHands(lease) \cup {a.ctl.identity} ELSE InHands(lease)
  <2>1. CASE a.code = "Ok"
    BY <1>4, <1>5, <1>8, <1>9, <2>1 DEF InHands
  <2>2. CASE a.code # "Ok"
    BY <1>4, <1>8, <1>9, <2>2 DEF InHands
  <2> QED BY <2>1, <2>2
<1> QED BY <1>1, <1>2, <1>6, <1>10, <1>11, <1>12, IsAdmit

LEMMA CloseUses ==
    ASSUME AdmissionIInv, HandsOK, NEW h \in Handles, NEW now \in Instant, NEW a,
           a = CloseLease(ctl, lease[h].id, now), ctl' = a.ctl, InHand(lease[h]), NEW r, Move(h, r),
           CoupledLease(r), r.id = lease[h].id, ~r.kept, r.seen \in Instant,
           IF a.code = "ClockRegressed" THEN r.pc = "DropRate" /\ r.closeFailed
                                        ELSE r.pc \in {"Rejected", "Done"}
    PROVE  HandsOK' /\ Sanctioned
<1>1. ~Over(lease[h]) /\ LeasesTyped
  BY LeaseNow, HandOrDrop DEF AdmissionIInv
<1>2. HandOK(r) /\ ~InHand(r) /\ (InDrop(r) <=> a.code = "ClockRegressed")
  BY DEF HandOK, InHand, InDrop
<1>3. /\ HandsOK' /\ InHands(lease') = InHands(lease) \ {r.id} /\ Keeping(lease') = Keeping(lease)
      /\ InDrops(lease') = IF InDrop(r) THEN InDrops(lease) \cup {r.id} ELSE InDrops(lease) \ {r.id}
      /\ r.id \in InHands(lease) /\ r.id \notin InDrops(lease)
  BY <1>1, <1>2, HandsMove
<1>4. InDrops(lease') = IF a.code = "ClockRegressed" THEN InDrops(lease) \cup {r.id} ELSE InDrops(lease)
  BY <1>2, <1>3
<1> QED BY <1>3, <1>4, IsClose

LEMMA RollBackUses ==
    ASSUME AdmissionIInv, HandsOK, NEW h \in Handles, RollBack(h)
    PROVE  HandsOK' /\ Sanctioned
<1>1. PICK a : a = CloseLease(ctl, lease[h].id, lease[h].seen)
  OBVIOUS
<1>2. PICK x : x = IF a.code = "Ok" THEN "BudgetRejected" ELSE "RollbackFailed"
  OBVIOUS
<1> DEFINE r == IF a.code = "ClockRegressed"
                THEN [[lease[h] EXCEPT !.result = x] EXCEPT !.pc = "DropRate", !.closeFailed = TRUE]
                ELSE [[lease[h] EXCEPT !.result = x] EXCEPT !.pc = "Rejected"]
<1>3. lease[h].pc = "RollingBack" /\ ctl' = a.ctl /\ Move(h, r)
  BY <1>1, <1>2 DEF RollBack, At
<1>4. CoupledLease(lease[h]) /\ HandOK(lease[h]) /\ InHand(lease[h]) /\ ~lease[h].kept
  BY <1>3, LeaseNow DEF HandsOK, InHand, HandOK
<1>5. /\ CoupledLease(r) /\ r.id = lease[h].id /\ r.kept = lease[h].kept /\ r.seen = lease[h].seen
      /\ IF a.code = "ClockRegressed" THEN r.pc = "DropRate" /\ r.closeFailed ELSE r.pc = "Rejected"
  BY <1>4 DEF CoupledLease, LeaseFields, Places
<1> HIDE DEF r
<1>6. lease[h].seen \in Instant
  BY <1>4 DEF HandOK
<1> QED BY <1>1, <1>3, <1>4, <1>5, <1>6, CloseUses

LEMMA ReleaseRateUses ==
    ASSUME AdmissionIInv, HandsOK, NEW h \in Handles, NEW now \in Instant, ReleaseRate(h, now)
    PROVE  HandsOK' /\ Sanctioned
<1>1. PICK a : a = CloseLease(ctl, lease[h].id, now)
  OBVIOUS
<1> DEFINE s == [lease[h] EXCEPT !.seen = now, !.result = a.code]
           r == IF a.code = "ClockRegressed" THEN [s EXCEPT !.pc = "DropRate", !.closeFailed = TRUE]
                                             ELSE [s EXCEPT !.pc = "Done"]
<1>3. lease[h].pc = "RateStep" /\ ctl' = a.ctl /\ Move(h, r)
  BY <1>1 DEF ReleaseRate, At
<1>4. CoupledLease(lease[h]) /\ InHand(lease[h]) /\ ~lease[h].kept
  BY <1>3, LeaseNow DEF HandsOK, InHand, HandOK
<1>5. /\ CoupledLease(r) /\ r.id = lease[h].id /\ r.kept = lease[h].kept /\ r.seen = now
      /\ IF a.code = "ClockRegressed" THEN r.pc = "DropRate" /\ r.closeFailed ELSE r.pc = "Done"
  BY <1>4 DEF CoupledLease, LeaseFields, Places
<1> HIDE DEF r
<1> QED BY <1>1, <1>3, <1>4, <1>5, CloseUses

\* finalize_accepted and commit_dispatch_unknown consume the rate lease.
LEMMA ConsumeMoves ==
    ASSUME AdmissionIInv, HandsOK, NEW h \in Handles, lease[h].pc = "RateStep", NEW r, Move(h, r),
           CoupledLease(r), r.id = lease[h].id, r.pc = "Done", r.seen \in Instant
    PROVE  /\ HandsOK' /\ InHands(lease') = InHands(lease) \ {r.id} /\ InDrops(lease') = InDrops(lease)
           /\ Keeping(lease') = IF r.kept THEN Keeping(lease) \cup {r.id} ELSE Keeping(lease)
           /\ r.id \in InHands(lease)
<1>1. ~Over(lease[h]) /\ InHand(lease[h]) /\ LeasesTyped
  BY DEF AdmissionIInv, Over, InHand
<1>2. HandOK(r) /\ ~InHand(r) /\ ~InDrop(r)
  BY DEF HandOK, InHand, InDrop
<1>3. /\ HandsOK' /\ InHands(lease') = InHands(lease) \ {r.id}
      /\ Keeping(lease') = IF r.kept THEN Keeping(lease) \cup {r.id} ELSE Keeping(lease)
      /\ InDrops(lease') = InDrops(lease) \ {r.id}
      /\ r.id \in InHands(lease) /\ r.id \notin InDrops(lease)
  BY <1>1, <1>2, HandsMove
<1> QED BY <1>3

LEMMA FinalizeRateUses ==
    ASSUME AdmissionIInv, HandsOK, NEW h \in Handles, NEW now \in Instant, FinalizeRate(h, now)
    PROVE  HandsOK' /\ Sanctioned
<1>1. PICK a : a = FinalizeAccepted(ctl, lease[h].id, now)
  OBVIOUS
<1> DEFINE x == FinalResult(h, a.code)
           y == a.code = "ReconciliationRequired"
           r == [lease[h] EXCEPT !.pc = "Done", !.seen = now, !.result = x, !.kept = y]
<1>2. lease[h].pc = "RateStep" /\ ctl' = a.ctl /\ Move(h, r)
  BY <1>1 DEF FinalizeRate, At
<1>3. CoupledLease(lease[h])
  BY LeaseNow
<1> HIDE DEF x, y
<1>4. CoupledLease(r) /\ r.id = lease[h].id /\ r.pc = "Done" /\ r.kept = y /\ r.seen = now
  BY <1>3 DEF CoupledLease, LeaseFields, Places
<1> HIDE DEF r
<1>5. /\ HandsOK' /\ InHands(lease') = InHands(lease) \ {r.id} /\ InDrops(lease') = InDrops(lease)
      /\ Keeping(lease') = IF y THEN Keeping(lease) \cup {r.id} ELSE Keeping(lease)
      /\ r.id \in InHands(lease)
  BY <1>2, <1>4, ConsumeMoves
<1> QED BY <1>1, <1>2, <1>4, <1>5, IsFinalize DEF y

LEMMA FinalizeRateUntimedUses ==
    ASSUME AdmissionIInv, HandsOK, NEW h \in Handles, FinalizeRateUntimed(h)
    PROVE  HandsOK' /\ Sanctioned
<1>1. PICK a : a = FinalizeUntimed(ctl, lease[h].id)
  OBVIOUS
<1> DEFINE x == FinalResult(h, a.code)
           r == [lease[h] EXCEPT !.pc = "Done", !.kept = TRUE, !.result = x]
<1>2. lease[h].pc = "RateStep" /\ ctl' = a.ctl /\ Move(h, r)
  BY <1>1 DEF FinalizeRateUntimed, At
<1>3. CoupledLease(lease[h]) /\ lease[h].seen \in Instant
  BY LeaseNow DEF HandsOK, HandOK
<1> HIDE DEF x
<1>4. CoupledLease(r) /\ r.id = lease[h].id /\ r.pc = "Done" /\ r.kept = TRUE /\ r.seen = lease[h].seen
  BY <1>3 DEF CoupledLease, LeaseFields, Places
<1> HIDE DEF r
<1>5. /\ HandsOK' /\ InHands(lease') = InHands(lease) \ {r.id} /\ InDrops(lease') = InDrops(lease)
      /\ Keeping(lease') = Keeping(lease) \cup {r.id} /\ r.id \in InHands(lease)
  BY <1>2, <1>3, <1>4, ConsumeMoves
<1> QED BY <1>1, <1>2, <1>4, <1>5, IsUntimed

LEMMA RetainRateUses ==
    ASSUME AdmissionIInv, HandsOK, NEW h \in Handles, NEW now \in Instant, RetainRate(h, now)
    PROVE  HandsOK' /\ Sanctioned
<1>1. PICK a : a = RetainDispatched(ctl, lease[h].id, now)
  OBVIOUS
<1> DEFINE x == FinalResult(h, a.code)
           r == [lease[h] EXCEPT !.pc = "Done", !.seen = now, !.kept = TRUE, !.result = x]
<1>2. lease[h].pc = "RateStep" /\ ctl' = a.ctl /\ Move(h, r)
  BY <1>1 DEF RetainRate, At
<1>3. CoupledLease(lease[h])
  BY LeaseNow
<1> HIDE DEF x
<1>4. CoupledLease(r) /\ r.id = lease[h].id /\ r.pc = "Done" /\ r.kept = TRUE /\ r.seen = now
  BY <1>3 DEF CoupledLease, LeaseFields, Places
<1> HIDE DEF r
<1>5. /\ HandsOK' /\ InHands(lease') = InHands(lease) \ {r.id} /\ InDrops(lease') = InDrops(lease)
      /\ Keeping(lease') = Keeping(lease) \cup {r.id} /\ r.id \in InHands(lease)
  BY <1>2, <1>4, ConsumeMoves
<1> QED BY <1>1, <1>2, <1>4, <1>5, IsRetain

LEMMA DropRateUses ==
    ASSUME AdmissionIInv, HandsOK, NEW h \in Handles, DropRate(h)
    PROVE  HandsOK' /\ Sanctioned
<1>1. PICK x : x = IF lease[h].result = "RollbackFailed" THEN "Rejected" ELSE "Done"
  OBVIOUS
<1> DEFINE r == [lease[h] EXCEPT !.pc = x]
<1>2. lease[h].pc = "DropRate" /\ ctl' = CloseUntimed(ctl, lease[h].id) /\ Move(h, r)
  BY <1>1 DEF DropRate, At
<1>3. CoupledLease(lease[h]) /\ HandOK(lease[h]) /\ LeasesTyped /\ ~Over(lease[h])
  BY <1>2, LeaseNow DEF HandsOK, AdmissionIInv, Over
<1>4. /\ CoupledLease(r) /\ r.id = lease[h].id /\ r.pc = x /\ r.kept = lease[h].kept
      /\ r.seen = lease[h].seen
  BY <1>1, <1>3 DEF CoupledLease, LeaseFields, Places
<1> HIDE DEF r
<1>5. HandOK(r) /\ ~InHand(r) /\ ~InDrop(r) /\ ~r.kept
  BY <1>1, <1>2, <1>3, <1>4 DEF HandOK, InHand, InDrop
<1>6. /\ HandsOK' /\ InHands(lease') = InHands(lease) \ {r.id} /\ InDrops(lease') = InDrops(lease) \ {r.id}
      /\ Keeping(lease') = Keeping(lease) /\ r.id \in InHands(lease) \cup InDrops(lease)
  BY <1>2, <1>3, <1>4, <1>5, HandsMove
<1> QED BY <1>2, <1>4, <1>6, IsDrop

LEMMA BudgetHalfUses ==
    ASSUME AdmissionIInv, HandsOK, NEW h \in Handles,
           \/ \E utc \in Utc : AdmitBudget(h, utc)
           \/ \E op \in {"Commit", "Accept", "Unknown", "Release"} : BudgetStep(h, op)
           \/ DropOpen(h) \/ DropBudget(h)
    PROVE  HandsOK' /\ Sanctioned
<1>1. CoupledLease(lease[h]) /\ HandOK(lease[h]) /\ LeasesTyped
  BY LeaseNow DEF HandsOK, AdmissionIInv
<1>2. ctl' = ctl /\ lease[h].pc \in {"Reserving", "Open", "DropBudget"}
  BY DEF AdmitBudget, BudgetStep, DropOpen, DropBudget, At
<1>3. InHand(lease[h]) /\ ~Over(lease[h]) /\ ~lease[h].kept /\ ~lease[h].closeFailed
  BY <1>1, <1>2 DEF InHand, Over, HandOK
<1>4. ASSUME NEW r, Move(h, r), CoupledLease(r), r.id = lease[h].id, r.seen = lease[h].seen,
             r.kept = lease[h].kept, r.closeFailed = lease[h].closeFailed, ~Over(r)
      PROVE  HandsOK' /\ Sanctioned
  <2>1. HandOK(r) /\ InHand(r)
    BY <1>1, <1>3, <1>4 DEF HandOK, InHand, CoupledLease, Places, Over
  <2> QED BY <1>1, <1>2, <1>3, <1>4, <2>1, BudgetOnly
<1>5. ASSUME NEW utc \in Utc, AdmitBudget(h, utc) PROVE HandsOK' /\ Sanctioned
  <2>1. PICK x : x \in {"Open", "RollingBack"} /\ Move(h, [lease[h] EXCEPT !.pc = x, !.req = "None"])
    BY <1>5 DEF AdmitBudget
  <2> QED BY <1>1, <1>4, <2>1 DEF CoupledLease, LeaseFields, Places, Over
<1>6. ASSUME NEW op \in {"Commit", "Accept", "Unknown", "Release"}, BudgetStep(h, op)
      PROVE  HandsOK' /\ Sanctioned
  <2>1. PICK ok : ok = (Transition(book, lease[h].rid, SettlesBudgetBy(op)).code = "Ok")
    OBVIOUS
  <2>2. \/ Move(h, [lease[h] EXCEPT !.pc = "RateStep", !.op = op, !.budgetOk = ok])
        \/ Move(h, [lease[h] EXCEPT !.result = "LeaseClosed"])
        \/ Move(h, [lease[h] EXCEPT !.pc = "DropBudget", !.result = "LeaseClosed"])
    BY <1>6, <2>1 DEF BudgetStep
  <2>3. CASE Move(h, [lease[h] EXCEPT !.pc = "RateStep", !.op = op, !.budgetOk = ok])
    BY <1>1, <1>4, <2>3 DEF CoupledLease, LeaseFields, Places, Operations, Over
  <2>4. CASE Move(h, [lease[h] EXCEPT !.result = "LeaseClosed"])
    BY <1>1, <1>3, <1>4, <2>4 DEF CoupledLease, LeaseFields, Places, Over
  <2>5. CASE Move(h, [lease[h] EXCEPT !.pc = "DropBudget", !.result = "LeaseClosed"])
    BY <1>1, <1>4, <2>5 DEF CoupledLease, LeaseFields, Places, Over
  <2> QED BY <2>2, <2>3, <2>4, <2>5
<1>7. ASSUME DropOpen(h) \/ DropBudget(h) PROVE HandsOK' /\ Sanctioned
  <2>1. PICK x : x \in {"DropBudget", "DropRate"} /\ Move(h, [lease[h] EXCEPT !.pc = x])
    BY <1>7 DEF DropOpen, DropBudget
  <2> QED BY <1>1, <1>4, <2>1 DEF CoupledLease, LeaseFields, Places, Over
<1> QED BY <1>5, <1>6, <1>7

\* What the routing admission does to the shared controller is what the specification
\* of the controller allows its holders, for any requests, limits, policies and
\* clocks: an identity is closed, finalized, retained or dropped once and by the one
\* that holds it, also after a close that failed.
THEOREM AdmissionRefinesTheController == Spec => UsesTheController
<1>1. Init => Controller!RateInit /\ HandsOK
  <2> SUFFICES ASSUME Init PROVE Controller!RateInit /\ HandsOK
    OBVIOUS
  <2>1. \A h \in Handles : lease[h] = NoLease
    BY DEF Init
  <2>2. /\ NoLease.pc = "Idle" /\ NoLease.kept = FALSE /\ NoLease.closeFailed = FALSE /\ NoLease.seen = 0
    BY DEF NoLease
  <2>3. HandsOK
    BY <2>1, <2>2, RateAssumption DEF HandsOK, HandOK, Over, Instant, RateAssumption
  <2>4. Controller!RateInit
    BY <2>1, <2>2, SameStart DEF Init, Controller!RateInit
  <2> QED BY <2>3, <2>4
<1>2. ASSUME AdmissionIInv, HandsOK, [Next]_vars PROVE HandsOK' /\ Sanctioned
  <2>1. CASE UNCHANGED vars
    BY <1>2, <2>1 DEF vars, HandsOK, Sanctioned, InHands, InDrops, Keeping
  <2>2. ASSUME NEW h \in Handles, NEW req \in RoutingRequests, NEW rid \in ReservationIds,
               NEW now \in Instant, AdmitRate(h, req, rid, now)
        PROVE  HandsOK' /\ Sanctioned
    BY <1>2, <2>2, AdmitRateUses
  <2>3. ASSUME NEW h \in Handles, NEW now \in Later(h),
               FinalizeRate(h, now) \/ RetainRate(h, now) \/ ReleaseRate(h, now)
        PROVE  HandsOK' /\ Sanctioned
    <3>1. now \in Instant
      BY DEF Later
    <3> QED BY <1>2, <2>3, <3>1, FinalizeRateUses, RetainRateUses, ReleaseRateUses
  <2>4. ASSUME NEW h \in Handles, RollBack(h) \/ FinalizeRateUntimed(h) \/ DropRate(h)
        PROVE  HandsOK' /\ Sanctioned
    BY <1>2, <2>4, RollBackUses, FinalizeRateUntimedUses, DropRateUses
  <2>5. ASSUME NEW h \in Handles,
               \/ \E utc \in Utc : AdmitBudget(h, utc)
               \/ \E op \in {"Commit", "Accept", "Unknown", "Release"} : BudgetStep(h, op)
               \/ DropOpen(h) \/ DropBudget(h)
        PROVE  HandsOK' /\ Sanctioned
    BY <1>2, <2>5, BudgetHalfUses
  <2>6. ASSUME NEW utc \in Utc, SweepBudgets(utc) PROVE HandsOK' /\ Sanctioned
    BY <1>2, <2>6 DEF SweepBudgets, HandsOK, Sanctioned, InHands, InDrops, Keeping
  <2>7. ASSUME NEW k \in LimitKeys, NEW now \in Instant, ObserveLimits(k, now) PROVE HandsOK' /\ Sanctioned
    <3>1. ctl' = Inspect(ctl, k, now).ctl /\ lease' = lease
      BY <2>7 DEF ObserveLimits
    <3>2. HandsOK'
      BY <1>2, <3>1 DEF HandsOK
    <3> QED BY <3>1, <3>2, IsSnapshot
  <2> QED BY <1>2, <2>1, <2>2, <2>3, <2>4, <2>5, <2>6, <2>7 DEF Next
<1>3. Sanctioned => [vars # vars' => Controller!RateNext]_(Controller!rateVars)
  BY Zenon DEF Sanctioned, Controller!rateVars, InHands, InDrops, Keeping, InHand, InDrop
<1> QED BY <1>1, <1>2, <1>3, AdmissionInvariant, PTL DEF Spec, UsesTheController

-----------------------------------------------------------------------------
(* AccountBatch: a batch answers for what it did.                          *)

\* A sequence of any elements.
IsSeq(s) == \E S : s \in Seq(S)

\* Appending to a sequence of any elements.
LEMMA AppendFacts ==
    ASSUME NEW s, IsSeq(s), NEW x
    PROVE  /\ IsSeq(Append(s, x)) /\ Len(Append(s, x)) = Len(s) + 1
           /\ Len(s) \in Nat /\ DOMAIN s = 1..Len(s)
           /\ DOMAIN Append(s, x) = 1..(Len(s) + 1)
           /\ \A i \in 1..Len(s) : Append(s, x)[i] = s[i]
           /\ Append(s, x)[Len(s) + 1] = x
<1>1. PICK S : s \in Seq(S)
  BY DEF IsSeq
<1>2. s \in Seq(S \cup {x}) /\ x \in S \cup {x}
  BY <1>1
<1>3. Append(s, x) \in Seq(S \cup {x})
  BY <1>2
<1> QED BY <1>2, <1>3 DEF IsSeq

\* BatchLifecycle.
BatchStates == {"Planned", "Running", "Cancelling"} \cup Terminals

\* The columns of an item.
RowFields == {"state", "attempt", "claim", "revision", "lease", "by", "outcome", "at"}

\* Shapes: one receipt for each mutation, one row for each item of the plan.
BatchTypes ==
    /\ IsSeq(mutations) /\ IsSeq(receipts) /\ IsSeq(events)
    /\ Len(receipts) = Len(mutations)
    /\ plan \in Plans \cup {Absent}
    /\ batch \in [state : BatchStates, revision : Nat, completed : Nat, failed : Nat]
    /\ \A p \in Plans : \A o \in Ordinals(p) : p.items[o].account \in DOMAIN accounts
    /\ \A a \in DOMAIN accounts : accounts[a] # Absent => accounts[a].version \in Nat
    /\ plan = Absent => mutations = <<>> /\ events = <<>>
    /\ plan # Absent => DOMAIN items = Ordinals(plan)
    /\ plan # Absent => \A o \in DOMAIN items :
          /\ DOMAIN items[o] = RowFields
          /\ items[o].state \in {"pending", "claimed", "completed"}

\* Mutation k is a claim.
IsClaim(k) == k \in DOMAIN mutations /\ mutations[k].command.kind = "claim"

\* Mutation k handed out item o as its row says.
HandedBy(o, k) ==
    /\ IsClaim(k)
    /\ mutations[k].command.claim = items[o].claim /\ mutations[k].command.lease = items[o].lease
    /\ mutations[k].status.revision = items[o].revision
    /\ o \in DOMAIN mutations[k].assigned /\ mutations[k].assigned[o] = items[o].attempt

\* A row that was claimed names its claim; one that is completed holds an outcome
\* that its own columns decide again.
RowIsSound(o) ==
    /\ items[o].state # "pending" => /\ batch.state # "Planned"
                                     /\ \E k \in DOMAIN mutations : HandedBy(o, k)
    /\ items[o].state = "completed" => /\ items[o].outcome.kind \in {"rejected", Success(plan.intent)}
                                       /\ Redecided(items[o], plan.items[o]) = {items[o].outcome}

\* The item a row was handed out as.
RowClaimed(o) ==
    [ordinal |-> o, attempt |-> items[o].attempt, claim |-> items[o].claim, revision |-> items[o].revision,
     lease |-> items[o].lease]

\* What each kind of entry keeps so that its receipt can be rebuilt.
SubmissionEntry(id) ==
    LET m == mutations[id] IN
    /\ m.command.kind = "submission" /\ (m.disposition = "created" => m.status = Planned)
    /\ receipts[id] = [kind |-> "submission", disposition |-> m.disposition, status |-> m.status]

ClaimEntry(id) ==
    LET m == mutations[id] IN
    /\ m.command.kind = "claim" /\ receipts[id].kind = "claim"
    /\ m.status.revision \in Nat /\ m.status.revision <= batch.revision
    /\ ReconstructedClaim(m) = {receipts[id]}

CompletionEntry(id) ==
    LET m == mutations[id]
        o == m.command.claimed.ordinal
    IN /\ m.command.kind = "item_completion" /\ o \in DOMAIN items
       /\ items[o].state = "completed" /\ items[o].by = id /\ ~(items[o].revision >= m.status.revision)
       /\ receipts[id] = [kind |-> "item_completion", claimed |-> RowClaimed(o), result |-> items[o].outcome,
                          at |-> items[o].at, status |-> m.status]

TransitionEntry(id) ==
    LET m == mutations[id] IN
    /\ m.command.kind = "transition" /\ m.status.revision = m.command.expected + 1
    /\ m.status.state \in Reached(m.disposition)
    /\ receipts[id] = [kind |-> "transition", status |-> m.status, at |-> m.at]

EntryIsSound(id) == SubmissionEntry(id) \/ ClaimEntry(id) \/ CompletionEntry(id) \/ TransitionEntry(id)

\* No two claims made the same revision of the batch.
ClaimsDiffer ==
    \A j, k \in DOMAIN mutations :
        IsClaim(j) /\ IsClaim(k) /\ mutations[j].status.revision = mutations[k].status.revision => j = k

\* What every committed command leaves true.
BatchIInv ==
    /\ BatchTypes
    /\ \A id \in DOMAIN mutations : EntryIsSound(id)
    /\ ClaimsDiffer
    /\ plan # Absent => \A o \in DOMAIN items : RowIsSound(o)
    /\ BatchAccountsForItems

\* The invariant holds before the first command.
LEMMA BatchInitIInv == BatchInit => BatchIInv
<1> SUFFICES ASSUME BatchInit PROVE BatchIInv
  OBVIOUS
<1>1. IsSeq(<<>>) /\ Len(<<>>) = 0 /\ DOMAIN <<>> = {}
  <2>1. <<>> \in Seq({})
    OBVIOUS
  <2> QED BY <2>1 DEF IsSeq
<1>2. BatchTypes
  BY <1>1, BatchAssumption DEF BatchInit, BatchTypes, Planned, BatchStates, Ordinals
<1> QED BY <1>1, <1>2, BatchAssumption DEF BatchInit, BatchIInv, ClaimsDiffer, BatchAccountsForItems

-----------------------------------------------------------------------------
(* From the invariant to the receipts.                                     *)

\* A plan has finitely many items.
LEMMA OrdinalsFinite ==
    ASSUME plan \in Plans
    PROVE  /\ IsFiniteSet(Ordinals(plan)) /\ Cardinality(Ordinals(plan)) = Len(plan.items)
           /\ Len(plan.items) \in Nat
<1>1. Len(plan.items) \in Nat /\ Ordinals(plan) = 1..Len(plan.items)
  BY BatchAssumption DEF Ordinals
<1>2. IsFiniteSet(1..Len(plan.items)) /\ Cardinality(1..Len(plan.items)) = Len(plan.items)
  BY <1>1, FS_Interval
<1> QED BY <1>1, <1>2

\* A completion is rebuilt from the row of its item and the claim the row names.
LEMMA CompletionStands ==
    ASSUME BatchIInv, NEW id \in DOMAIN mutations, CompletionEntry(id), plan # Absent
    PROVE  ReconstructedCompletion(id) = {receipts[id]}
<1> DEFINE o == mutations[id].command.claimed.ordinal
<1>1. o \in DOMAIN items /\ items[o].state = "completed" /\ items[o].by = id
      /\ receipts[id] = [kind |-> "item_completion", claimed |-> RowClaimed(o), result |-> items[o].outcome,
                          at |-> items[o].at, status |-> mutations[id].status]
  BY DEF CompletionEntry
<1>2. RowIsSound(o)
  BY <1>1 DEF BatchIInv
<1>3. PICK k \in DOMAIN mutations : HandedBy(o, k)
  BY <1>1, <1>2 DEF RowIsSound
<1>4. ClaimsOf(items[o]) = {k}
  BY <1>3 DEF ClaimsOf, HandedBy, IsClaim, BatchIInv, ClaimsDiffer
<1>5. Cardinality(ClaimsOf(items[o])) = 1 /\ (CHOOSE j \in ClaimsOf(items[o]) : TRUE) = k
  BY <1>4, FS_Singleton
<1>6. ClaimedBy(k, o) = {RowClaimed(o)}
  <2>1. ClaimEntry(k)
    BY <1>3 DEF BatchIInv, HandedBy, IsClaim, EntryIsSound, SubmissionEntry, CompletionEntry, TransitionEntry
  <2>2. plan.max_claim \in Nat
    BY BatchAssumption DEF BatchIInv, BatchTypes
  <2> DEFINE m == mutations[k]
  <2>3. PICK limit : /\ ValidClaim(plan, limit, m.at, m.command.lease, m.assigned)
                     /\ limit = IF m.assigned = <<>> THEN 1 ELSE Cardinality(DOMAIN m.assigned)
    BY <2>1 DEF ClaimEntry, ReconstructedClaim
  <2>4. o \in DOMAIN m.assigned /\ DOMAIN m.assigned \subseteq Ordinals(plan)
    BY <1>3, <2>3 DEF HandedBy, ValidClaim
  <2>5. IsFiniteSet(DOMAIN m.assigned)
    BY <2>4, OrdinalsFinite, FS_Subset DEF BatchIInv, BatchTypes
  <2>6. limit \in Nat /\ 1 <= limit
    <3>1. Cardinality(DOMAIN m.assigned) \in Nat /\ Cardinality(DOMAIN m.assigned) # 0
      BY <2>4, <2>5, FS_CardinalityType, FS_EmptySet
    <3> QED BY <2>3, <3>1
  <2>7. Cardinality({o}) = 1
    BY FS_Singleton
  <2>8. ValidClaim(plan, 1, m.at, m.command.lease, [q \in {o} |-> items[o].attempt])
    BY <1>3, <2>2, <2>3, <2>4, <2>6, <2>7 DEF ValidClaim, HandedBy
  <2>9. RowClaimed(o) \in Claimed(m.command.claim, m.status.revision, m.command.lease, m.assigned)
    BY <1>3 DEF HandedBy, Claimed, RowClaimed
  <2>10. \A c \in Claimed(m.command.claim, m.status.revision, m.command.lease, m.assigned) :
            c.ordinal = o => c = RowClaimed(o)
    BY <1>3 DEF HandedBy, Claimed, RowClaimed
  <2>11. RowClaimed(o).ordinal = o /\ RowClaimed(o).attempt = items[o].attempt
    BY DEF RowClaimed
  <2> QED BY <2>8, <2>9, <2>10, <2>11 DEF ClaimedBy
<1>7. /\ items[o].outcome \in Redecided(items[o], plan.items[o])
      /\ items[o].outcome.kind \in {"rejected", Success(plan.intent)}
      /\ ~(items[o].revision >= mutations[id].status.revision)
  BY <1>1, <1>2 DEF RowIsSound, CompletionEntry
<1>8. ReconstructedCompletion(id) =
        {[kind |-> "item_completion", claimed |-> c, result |-> items[o].outcome, at |-> items[o].at,
          status |-> mutations[id].status] : c \in ClaimedBy(k, o)}
  BY <1>1, <1>5, <1>7 DEF ReconstructedCompletion
<1> QED BY <1>1, <1>6, <1>8

\* Entries that are sound give back their receipts.
LEMMA InvariantAccounts == BatchIInv => BatchIsAccountable
<1> SUFFICES ASSUME BatchIInv, NEW id \in DOMAIN mutations PROVE Reconstructed(id) = {receipts[id]}
  BY DEF BatchIInv, BatchIsAccountable, BatchReceiptsStand
<1>0. plan # Absent
  BY DEF BatchIInv, BatchTypes
<1>1. CASE SubmissionEntry(id)
  BY <1>1 DEF SubmissionEntry, Reconstructed
<1>2. CASE ClaimEntry(id)
  BY <1>2 DEF ClaimEntry, Reconstructed
<1>3. CASE CompletionEntry(id)
  <2>1. mutations[id].command.kind = "item_completion"
    BY <1>3 DEF CompletionEntry
  <2> QED BY <1>0, <1>3, <2>1, CompletionStands DEF Reconstructed
<1>4. CASE TransitionEntry(id)
  BY <1>4 DEF TransitionEntry, Reconstructed
<1> QED BY <1>1, <1>2, <1>3, <1>4 DEF BatchIInv, EntryIsSound

-----------------------------------------------------------------------------
(* What every commit has in common.                                        *)

\* The log takes mutation x and receipt y.
Appended(x, y) == mutations' = Append(mutations, x) /\ receipts' = Append(receipts, y)

\* The log after a commit.
LogGrew(x, y) ==
    /\ IsSeq(mutations)' /\ IsSeq(receipts)' /\ Len(receipts)' = Len(mutations)'
    /\ Len(mutations) \in Nat /\ DOMAIN mutations = 1..Len(mutations)
    /\ DOMAIN mutations' = DOMAIN mutations \cup {NextMutation} /\ NextMutation \notin DOMAIN mutations
    /\ \A id \in DOMAIN mutations : mutations'[id] = mutations[id] /\ receipts'[id] = receipts[id]
    /\ mutations'[NextMutation] = x /\ receipts'[NextMutation] = y

\* A commit adds one entry and changes none.
LEMMA LogGrows ==
    ASSUME BatchTypes, NEW x, NEW y, Appended(x, y)
    PROVE  LogGrew(x, y)
<1>1. IsSeq(mutations) /\ IsSeq(receipts) /\ Len(receipts) = Len(mutations)
  BY DEF BatchTypes
<1>2. /\ IsSeq(Append(mutations, x)) /\ Len(Append(mutations, x)) = Len(mutations) + 1
      /\ Len(mutations) \in Nat /\ DOMAIN mutations = 1..Len(mutations)
      /\ DOMAIN Append(mutations, x) = 1..(Len(mutations) + 1)
      /\ \A i \in 1..Len(mutations) : Append(mutations, x)[i] = mutations[i]
      /\ Append(mutations, x)[Len(mutations) + 1] = x
  BY <1>1, AppendFacts
<1>3. /\ IsSeq(Append(receipts, y)) /\ Len(Append(receipts, y)) = Len(receipts) + 1
      /\ \A i \in 1..Len(receipts) : Append(receipts, y)[i] = receipts[i]
      /\ Append(receipts, y)[Len(receipts) + 1] = y
  BY <1>1, AppendFacts
<1>4. IsSeq(mutations)' /\ IsSeq(receipts)'
  BY <1>2, <1>3 DEF Appended, IsSeq
<1>5. NextMutation \notin DOMAIN mutations /\ 1..(Len(mutations) + 1) = DOMAIN mutations \cup {NextMutation}
  BY <1>2 DEF NextMutation
<1> QED BY <1>1, <1>2, <1>3, <1>4, <1>5 DEF Appended, LogGrew, NextMutation

\* Completed rows are left alone and the batch moves on: so the log stays sound.
RowsKept ==
    /\ plan # Absent /\ plan' = plan /\ DOMAIN items' = DOMAIN items
    /\ \A o \in DOMAIN items : items[o].state = "completed" => items'[o] = items[o]
    /\ batch.revision \in Nat /\ batch'.revision \in Nat /\ batch.revision <= batch'.revision

\* Entries of earlier commands stay sound.
LEMMA EntriesCarried ==
    ASSUME BatchIInv, NEW x, NEW y, LogGrew(x, y), RowsKept
    PROVE  \A id \in DOMAIN mutations : EntryIsSound(id)'
<1> SUFFICES ASSUME NEW id \in DOMAIN mutations PROVE EntryIsSound(id)'
  OBVIOUS
<1>1. mutations'[id] = mutations[id] /\ receipts'[id] = receipts[id] /\ plan' = plan
  BY DEF LogGrew, RowsKept
<1>2. CASE SubmissionEntry(id)
  BY <1>1, <1>2 DEF SubmissionEntry, EntryIsSound
<1>3. CASE ClaimEntry(id)
  <2>1. ReconstructedClaim(mutations[id])' = ReconstructedClaim(mutations[id])
    BY <1>1, Zenon DEF ReconstructedClaim
  <2>2. ClaimEntry(id)'
    BY <1>1, <1>3, <2>1 DEF ClaimEntry, RowsKept
  <2> QED BY <2>2 DEF EntryIsSound
<1>4. CASE CompletionEntry(id)
  BY <1>1, <1>4 DEF CompletionEntry, RowClaimed, EntryIsSound, RowsKept
<1>5. CASE TransitionEntry(id)
  BY <1>1, <1>5 DEF TransitionEntry, EntryIsSound
<1> QED BY <1>2, <1>3, <1>4, <1>5 DEF BatchIInv, EntryIsSound

\* A row that a command leaves alone stays sound.
LEMMA RowCarried ==
    ASSUME BatchIInv, NEW x, NEW y, LogGrew(x, y), RowsKept, NEW o \in DOMAIN items, items'[o] = items[o],
           items[o].state # "pending" => batch'.state # "Planned"
    PROVE  RowIsSound(o)'
<1>1. RowIsSound(o)
  BY DEF BatchIInv, RowsKept
<1>2. plan' = plan
  BY DEF RowsKept
<1>3. \A k \in DOMAIN mutations : HandedBy(o, k) => k \in DOMAIN mutations' /\ HandedBy(o, k)'
  BY DEF HandedBy, IsClaim, LogGrew
<1>4. (Redecided(items[o], plan.items[o]))' = Redecided(items[o], plan.items[o])
  BY <1>2, Zenon DEF Redecided
<1> QED BY <1>1, <1>2, <1>3, <1>4 DEF RowIsSound, LogGrew

\* A claim makes a revision no claim made before.
LEMMA ClaimsStayDifferent ==
    ASSUME BatchIInv, NEW x, NEW y, LogGrew(x, y), batch.revision \in Nat,
           x.command.kind = "claim" => x.status.revision = batch.revision + 1
    PROVE  ClaimsDiffer'
<1>1. \A k \in DOMAIN mutations : IsClaim(k) => mutations[k].status.revision \in Nat
                                              /\ mutations[k].status.revision <= batch.revision
  BY DEF BatchIInv, EntryIsSound, SubmissionEntry, ClaimEntry, CompletionEntry, TransitionEntry, IsClaim
<1> QED BY <1>1 DEF BatchIInv, ClaimsDiffer, IsClaim, LogGrew

\* A command that completes nothing leaves the accounts of the items as they were.
LEMMA AccountsCarried ==
    ASSUME BatchAccountsForItems, RowsKept, events' = events,
           \A o \in DOMAIN items : items'[o].state = "completed" => items[o].state = "completed",
           batch'.completed = batch.completed, batch'.failed = batch.failed,
           ValidStatus(batch', Len(plan.items))
    PROVE  BatchAccountsForItems'
<1> DEFINE done == {o \in DOMAIN items : items[o].state = "completed"}
           lost == {o \in DOMAIN items : items[o].state = "completed" /\ items[o].outcome.kind = "rejected"}
<1>1. done' = done /\ lost' = lost
  BY DEF RowsKept
<1>2. batch'.completed = Cardinality(done') /\ batch'.failed = Cardinality(lost')
  BY <1>1 DEF RowsKept, BatchAccountsForItems
<1>3. \A o \in DOMAIN items' :
        LET applied == {n \in DOMAIN events' : events'[n].source = o} IN
            IF items'[o].state = "completed" /\ items'[o].outcome.kind = "applied"
            THEN \E n \in DOMAIN events' : applied = {n} /\ events'[n].event = items'[o].outcome.event
            ELSE applied = {}
  BY DEF RowsKept, BatchAccountsForItems
<1> QED BY <1>2, <1>3 DEF BatchAccountsForItems, RowsKept

-----------------------------------------------------------------------------
(* The commands.                                                           *)

\* A claim hands out items that are pending or whose lease ran out.
LEMMA AssignmentsAre ==
    ASSUME NEW command, NEW now, NEW a \in Assignments(command, now)
    PROVE  /\ DOMAIN a \subseteq DOMAIN items
           /\ \A o \in DOMAIN a : items[o].state # "completed" /\ a[o] = items[o].attempt + 1
BY DEF Assignments, Eligible

\* The rows a claim leaves.
ClaimRow(o, assigned, command, revision) ==
    IF o \in DOMAIN assigned
    THEN [items[o] EXCEPT !.attempt = @ + 1, !.state = "claimed", !.claim = command.claim,
                          !.revision = revision, !.lease = command.lease]
    ELSE items[o]

\* What a committed claim did.
ClaimDone(command, now, assigned, status) ==
    /\ plan # Absent /\ plan' = plan /\ batch.state = "Running"
    /\ status = [batch EXCEPT !.revision = @ + 1] /\ batch' = status
    /\ assigned \in Assignments(command, now)
    /\ ValidClaim(plan, command.limit, now, command.lease, assigned)
    /\ items' = [o \in DOMAIN items |-> ClaimRow(o, assigned, command, status.revision)]
    /\ accounts' = accounts /\ events' = events
    /\ Appended(Mutation(command, "committed", status, now, assigned),
                [kind |-> "claim", status |-> status,
                 items |-> Claimed(command.claim, status.revision, command.lease, assigned)])

\* A claim that commits does exactly that.
LEMMA ClaimDoes ==
    ASSUME NEW now, Claim(now)
    PROVE  \E command, assigned, status : /\ command.kind = "claim" /\ command.limit \in Nat /\ 1 <= command.limit
                                          /\ ClaimDone(command, now, assigned, status)
<1>1. PICK r \in 1..batch.revision, l \in Instants, n \in 1..2 :
        LET command == [mutation |-> NextMutation, kind |-> "claim", expected |-> r, claim |-> "claim",
                        lease |-> l, limit |-> n]
        IN Commits(command, ClaimTx(command, now))
  BY DEF Claim
<1> DEFINE command == [mutation |-> NextMutation, kind |-> "claim", expected |-> r, claim |-> "claim",
                       lease |-> l, limit |-> n]
           status == [batch EXCEPT !.revision = @ + 1]
<1>2. command.kind = "claim" /\ command.limit \in Nat /\ 1 <= command.limit
  OBVIOUS
<1>3. Commits(command, ClaimTx(command, now))
  BY <1>1
<1> HIDE DEF command
<1>4. PICK e \in ClaimTx(command, now) :
        /\ plan' = plan
        /\ batch' = e.batch /\ items' = e.items /\ accounts' = e.accounts /\ events' = e.events
        /\ mutations' = Append(mutations, e.mutation)
        /\ receipts' = Append(receipts, e.receipt)
  BY <1>2, <1>3 DEF Commits
<1>5. plan # Absent /\ batch.state = "Running"
  BY <1>4 DEF ClaimTx
<1>6. PICK assigned \in Assignments(command, now) :
        /\ ValidClaim(plan, command.limit, now, command.lease, assigned)
        /\ e = Effect(status, [o \in DOMAIN items |-> ClaimRow(o, assigned, command, status.revision)],
                accounts, events, Mutation(command, "committed", status, now, assigned),
                [kind |-> "claim", status |-> status,
                 items |-> Claimed(command.claim, status.revision, command.lease, assigned)])
  BY <1>4 DEF ClaimTx, ClaimRow
<1>7. ClaimDone(command, now, assigned, status)
  BY <1>4, <1>5, <1>6 DEF ClaimDone, Effect, Appended
<1> QED BY <1>2, <1>7

\* Claims preserve the invariant.
LEMMA ClaimStep ==
    ASSUME BatchIInv, NEW now, Claim(now)
    PROVE  BatchIInv'
<1>1. PICK command, assigned, status :
        /\ command.kind = "claim" /\ command.limit \in Nat /\ 1 <= command.limit
        /\ ClaimDone(command, now, assigned, status)
  BY ClaimDoes
<1> DEFINE x == Mutation(command, "committed", status, now, assigned)
           y == [kind |-> "claim", status |-> status,
                 items |-> Claimed(command.claim, status.revision, command.lease, assigned)]
<1>2. BatchTypes /\ plan \in Plans /\ plan # Absent /\ plan' = plan
  BY <1>1 DEF BatchIInv, BatchTypes, ClaimDone
<1>3. /\ batch.revision \in Nat /\ status.revision = batch.revision + 1 /\ status.state = "Running"
      /\ status.completed = batch.completed /\ status.failed = batch.failed /\ batch' = status
      /\ batch.state = "Running"
      /\ batch' \in [state : BatchStates, revision : Nat, completed : Nat, failed : Nat]
  BY <1>1, <1>2 DEF BatchTypes, ClaimDone
<1>4. LogGrew(x, y)
  BY <1>1, <1>2, LogGrows DEF ClaimDone
<1>5. /\ DOMAIN assigned \subseteq DOMAIN items
      /\ \A o \in DOMAIN assigned : items[o].state # "completed" /\ assigned[o] = items[o].attempt + 1
  BY <1>1, AssignmentsAre DEF ClaimDone
<1>6. /\ DOMAIN items' = DOMAIN items
      /\ \A o \in DOMAIN items : o \notin DOMAIN assigned => items'[o] = items[o]
      /\ \A o \in DOMAIN assigned :
           /\ DOMAIN items'[o] = RowFields /\ items'[o].state = "claimed" /\ items'[o].attempt = assigned[o]
           /\ items'[o].claim = command.claim /\ items'[o].lease = command.lease
           /\ items'[o].revision = status.revision
  <2>1. /\ DOMAIN items' = DOMAIN items
        /\ \A o \in DOMAIN items : items'[o] = ClaimRow(o, assigned, command, status.revision)
    BY <1>1 DEF ClaimDone
  <2>2. \A o \in DOMAIN items : DOMAIN items[o] = RowFields
    BY <1>2 DEF BatchTypes
  <2> QED BY <1>5, <2>1, <2>2 DEF ClaimRow, RowFields
<1>7. RowsKept
  BY <1>2, <1>3, <1>5, <1>6 DEF RowsKept
<1>8. BatchTypes'
  <2>1. IsSeq(events)' /\ accounts' = accounts /\ events' = events
    BY <1>1, <1>2 DEF BatchTypes, ClaimDone
  <2>2. \A o \in DOMAIN items' : DOMAIN items'[o] = RowFields /\ items'[o].state \in {"pending", "claimed", "completed"}
    BY <1>2, <1>6 DEF BatchTypes
  <2>3. DOMAIN items' = Ordinals(plan)'
    BY <1>2, <1>6 DEF BatchTypes, Ordinals
  <2> QED BY <1>2, <1>3, <1>4, <2>1, <2>2, <2>3 DEF BatchTypes, LogGrew, Ordinals
<1>9. ReconstructedClaim(x)' = {y}
  <2>1. x.assigned = assigned /\ x.at = now /\ x.status = status /\ x.command = command
    BY DEF Mutation
  <2> DEFINE limit == IF x.assigned = <<>> THEN 1 ELSE Cardinality(DOMAIN x.assigned)
  <2>2. IsFiniteSet(DOMAIN assigned) /\ Cardinality(DOMAIN assigned) \in Nat
    BY <1>2, <1>5, OrdinalsFinite, FS_Subset, FS_CardinalityType DEF BatchTypes
  <2>3. plan.max_claim \in Nat
    BY <1>2, BatchAssumption
  <2>4. ValidClaim(plan, command.limit, now, command.lease, assigned)
    BY <1>1 DEF ClaimDone
  <2>5. limit \in Nat /\ limit <= plan.max_claim /\ Cardinality(DOMAIN assigned) <= limit
    <3>1. CASE assigned = <<>>
      <4>1. Cardinality(DOMAIN assigned) = 0
        BY <3>1, FS_EmptySet
      <4> QED BY <1>1, <2>1, <2>3, <2>4, <3>1, <4>1 DEF ValidClaim
    <3>2. CASE assigned # <<>>
      BY <1>1, <2>1, <2>2, <2>3, <2>4, <3>2 DEF ValidClaim
    <3> QED BY <3>1, <3>2
  <2>6. ValidClaim(plan, limit, now, command.lease, assigned)
    BY <2>4, <2>5 DEF ValidClaim
  <2> HIDE DEF x
  <2>7. ReconstructedClaim(x) = {y}
    BY <1>3, <2>1, <2>6 DEF ReconstructedClaim
  <2>8. ReconstructedClaim(x)' = ReconstructedClaim(x)
    BY <1>2, Zenon DEF ReconstructedClaim
  <2> QED BY <2>7, <2>8
<1> HIDE DEF x, y
<1>10. PICK new : new = NextMutation
  OBVIOUS
<1>11. ClaimEntry(new)'
  <2>1. mutations'[new] = x /\ receipts'[new] = y
    BY <1>4, <1>10 DEF LogGrew
  <2>2. x.command = command /\ x.status = status /\ y.kind = "claim"
    BY DEF x, y, Mutation
  <2> QED BY <1>1, <1>3, <1>9, <2>1, <2>2 DEF ClaimEntry
<1>12. \A id \in DOMAIN mutations' : EntryIsSound(id)'
  BY <1>4, <1>7, <1>10, <1>11, EntriesCarried DEF LogGrew, EntryIsSound
<1>13. ClaimsDiffer'
  <2>1. x.command.kind = "claim" => x.status.revision = batch.revision + 1
    BY <1>3 DEF x, Mutation
  <2> QED BY <1>3, <1>4, <2>1, ClaimsStayDifferent
<1>14. ASSUME NEW o \in DOMAIN items PROVE RowIsSound(o)'
  <2>1. CASE o \notin DOMAIN assigned
    BY <1>3, <1>4, <1>6, <1>7, <2>1, RowCarried
  <2>2. CASE o \in DOMAIN assigned
    <3>1. mutations'[new] = x /\ new \in DOMAIN mutations'
      BY <1>4, <1>10 DEF LogGrew
    <3>2. HandedBy(o, new)'
      BY <1>1, <1>6, <2>2, <3>1 DEF HandedBy, IsClaim, x, Mutation
    <3> QED BY <1>3, <1>6, <2>2, <3>1, <3>2 DEF RowIsSound
  <2> QED BY <2>1, <2>2
<1>15. BatchAccountsForItems'
  <2>1. ValidStatus(batch, Len(plan.items))
    BY <1>2 DEF BatchIInv, BatchAccountsForItems
  <2>2. ValidStatus(batch', Len(plan.items))
    BY <1>3, <2>1 DEF ValidStatus
  <2> QED BY <1>1, <1>3, <1>5, <1>6, <1>7, <2>2, AccountsCarried DEF BatchIInv, ClaimDone
<1> QED BY <1>6, <1>8, <1>12, <1>13, <1>14, <1>15 DEF BatchIInv

-----------------------------------------------------------------------------

\* What a committed transition did.
TransitionDone(command, now, status) ==
    /\ plan # Absent /\ plan' = plan /\ batch.revision = command.expected
    /\ \E l \in NextLifecycle(batch.state, command.transition, now, plan.deadline) :
          status = [batch EXCEPT !.state = l, !.revision = @ + 1]
    /\ ValidStatus(status, Len(plan.items))
    /\ batch' = status /\ items' = items /\ accounts' = accounts /\ events' = events
    /\ Appended(Mutation(command, command.transition, status, now, <<>>),
                [kind |-> "transition", status |-> status, at |-> now])

\* A transition that commits does exactly that.
LEMMA TransitionDoes ==
    ASSUME NEW now, TransitionBatch(now)
    PROVE  \E command, status : /\ command.kind = "transition" /\ command.transition \in Transitions
                                /\ TransitionDone(command, now, status)
<1>1. PICK r \in 1..batch.revision, t \in Transitions :
        LET command == [mutation |-> NextMutation, kind |-> "transition", expected |-> r, transition |-> t]
        IN Commits(command, TransitionTx(command, now))
  BY DEF TransitionBatch
<1> DEFINE command == [mutation |-> NextMutation, kind |-> "transition", expected |-> r, transition |-> t]
<1>2. command.kind = "transition" /\ command.transition \in Transitions
  OBVIOUS
<1>3. Commits(command, TransitionTx(command, now))
  BY <1>1
<1> HIDE DEF command
<1>4. PICK e \in TransitionTx(command, now) :
        /\ plan' = plan
        /\ batch' = e.batch /\ items' = e.items /\ accounts' = e.accounts /\ events' = e.events
        /\ mutations' = Append(mutations, e.mutation)
        /\ receipts' = Append(receipts, e.receipt)
  BY <1>2, <1>3 DEF Commits
<1>5. plan # Absent /\ batch.revision = command.expected
  BY <1>4 DEF TransitionTx
<1>6. PICK status :
        /\ \E l \in NextLifecycle(batch.state, command.transition, now, plan.deadline) :
             status = [batch EXCEPT !.state = l, !.revision = @ + 1]
        /\ ValidStatus(status, Len(plan.items))
        /\ e = Effect(status, items, accounts, events, Mutation(command, command.transition, status, now, <<>>),
                      [kind |-> "transition", status |-> status, at |-> now])
  BY <1>4, <1>5 DEF TransitionTx
<1>7. TransitionDone(command, now, status)
  BY <1>4, <1>5, <1>6 DEF TransitionDone, Effect, Appended
<1> QED BY <1>2, <1>7

\* No transition leads back to a planned batch.
LEMMA LifecycleReaches ==
    ASSUME NEW from \in BatchStates, NEW transition \in Transitions, NEW now, NEW deadline,
           NEW l \in NextLifecycle(from, transition, now, deadline)
    PROVE  l \in BatchStates /\ l # "Planned" /\ l \in Reached(transition)
BY DEF NextLifecycle, BatchStates, Transitions, Terminals, Reached

\* Transitions preserve the invariant.
LEMMA TransitionStep ==
    ASSUME BatchIInv, NEW now, TransitionBatch(now)
    PROVE  BatchIInv'
<1>1. PICK command, status :
        /\ command.kind = "transition" /\ command.transition \in Transitions /\ TransitionDone(command, now, status)
  BY TransitionDoes
<1> DEFINE x == Mutation(command, command.transition, status, now, <<>>)
           y == [kind |-> "transition", status |-> status, at |-> now]
<1>2. BatchTypes /\ plan \in Plans /\ plan # Absent /\ plan' = plan
  BY <1>1 DEF BatchIInv, BatchTypes, TransitionDone
<1>3. /\ batch.revision \in Nat /\ status.revision = batch.revision + 1
      /\ status.completed = batch.completed /\ status.failed = batch.failed /\ batch' = status
      /\ batch' \in [state : BatchStates, revision : Nat, completed : Nat, failed : Nat]
      /\ status.state # "Planned" /\ status.state \in Reached(command.transition)
  <2>1. PICK l \in NextLifecycle(batch.state, command.transition, now, plan.deadline) :
          status = [batch EXCEPT !.state = l, !.revision = @ + 1]
    BY <1>1 DEF TransitionDone
  <2>2. batch \in [state : BatchStates, revision : Nat, completed : Nat, failed : Nat]
    BY <1>2 DEF BatchTypes
  <2>3. l \in BatchStates /\ l # "Planned" /\ l \in Reached(command.transition)
    BY <1>1, <2>2, LifecycleReaches
  <2>4. batch' = status
    BY <1>1 DEF TransitionDone
  <2>5. status = [state |-> l, revision |-> batch.revision + 1, completed |-> batch.completed, failed |-> batch.failed]
    BY <2>1, <2>2
  <2> HIDE DEF x, y
  <2>6. batch.revision \in Nat /\ batch.completed \in Nat /\ batch.failed \in Nat
    BY <2>2
  <2> QED BY <2>3, <2>4, <2>5, <2>6
<1>4. LogGrew(x, y)
  BY <1>1, <1>2, LogGrows DEF TransitionDone
<1>5. items' = items /\ accounts' = accounts /\ events' = events
  BY <1>1 DEF TransitionDone
<1>7. RowsKept
  BY <1>2, <1>3, <1>5 DEF RowsKept
<1>8. BatchTypes'
  BY <1>2, <1>3, <1>4, <1>5 DEF BatchTypes, LogGrew, Ordinals
<1> HIDE DEF x, y
<1>10. PICK new : new = NextMutation
  OBVIOUS
<1>11. TransitionEntry(new)'
  <2>1. mutations'[new] = x /\ receipts'[new] = y
    BY <1>4, <1>10 DEF LogGrew
  <2>2. /\ x.command = command /\ x.status = status /\ x.at = now /\ x.disposition = command.transition
        /\ y = [kind |-> "transition", status |-> status, at |-> now]
    BY DEF x, y, Mutation
  <2> QED BY <1>1, <1>3, <2>1, <2>2 DEF TransitionEntry, TransitionDone
<1>12. \A id \in DOMAIN mutations' : EntryIsSound(id)'
  BY <1>4, <1>7, <1>10, <1>11, EntriesCarried DEF LogGrew, EntryIsSound
<1>13. ClaimsDiffer'
  <2>1. x.command.kind # "claim"
    BY <1>1 DEF x, Mutation
  <2> QED BY <1>3, <1>4, <2>1, ClaimsStayDifferent
<1>14. ASSUME NEW o \in DOMAIN items PROVE RowIsSound(o)'
  BY <1>3, <1>4, <1>5, <1>7, RowCarried
<1>15. BatchAccountsForItems'
  BY <1>1, <1>3, <1>5, <1>7, AccountsCarried DEF BatchIInv, TransitionDone
<1> QED BY <1>5, <1>8, <1>12, <1>13, <1>14, <1>15 DEF BatchIInv

-----------------------------------------------------------------------------

\* A transition leads to at most one status.
LEMMA NextStatusIs ==
    ASSUME NEW status, NEW action, NextStatus(status, action) # {}
    PROVE  \E s : NextStatus(status, action) = {s}
BY DEF NextStatus

\* What the transition of an item gives is what its own columns give again.
LEMMA ResultIs ==
    ASSUME NEW account, account # Absent => account.version \in Nat, NEW command, NEW intent, NEW item,
           item.outcome = authoritative_result(account, command, intent)
    PROVE  /\ item.outcome.kind \in {"rejected", Success(intent)}
           /\ Redecided(item, command) = {item.outcome}
<1>1. CASE item.outcome.kind = "rejected"
  BY <1>1 DEF Redecided
<1>2. CASE item.outcome.kind # "rejected"
  <2>1. /\ account # Absent /\ account.version = command.expected /\ NextStatus(account.status, command.action) # {}
        /\ item.outcome = [kind |-> Success(intent),
                           event |-> CHOOSE e \in Applied(account.version, account.status, command) : TRUE]
    BY <1>2 DEF authoritative_result
  <2>2. PICK s : NextStatus(account.status, command.action) = {s}
    BY <2>1, NextStatusIs
  <2> DEFINE ev == [version |-> account.version + 1, from |-> account.status, to |-> s]
  <2>3. Applied(account.version, account.status, command) = {ev}
    BY <2>1, <2>2 DEF Applied
  <2>4. item.outcome = [kind |-> Success(intent), event |-> ev]
    BY <2>1, <2>3
  <2>5. account.version \in Nat
    BY <2>1
  <2>6. Applied(item.outcome.event.version - 1, item.outcome.event.from, command) = {ev}
    <3>1. item.outcome.event.version - 1 = account.version /\ item.outcome.event.from = account.status
      BY <2>4, <2>5
    <3> QED BY <2>3, <3>1
  <2>7. Redecided(item, command) = {[kind |-> item.outcome.kind, event |-> e] : e \in {ev}}
    BY <1>2, <2>6 DEF Redecided
  <2> HIDE DEF ev
  <2>8. [kind |-> item.outcome.kind, event |-> ev] = item.outcome /\ item.outcome.kind = Success(intent)
    BY <2>4
  <2> QED BY <2>7, <2>8
<1> QED BY <1>1, <1>2

\* Only items of the plan are ever handed out.
LEMMA HandedIs ==
    ASSUME BatchIInv, NEW h \in Handed
    PROVE  /\ plan # Absent /\ h.ordinal \in DOMAIN items
           /\ h = [ordinal |-> h.ordinal, attempt |-> h.attempt, claim |-> h.claim, revision |-> h.revision,
                   lease |-> h.lease]
<1>1. PICK k \in DOMAIN receipts : receipts[k].kind = "claim" /\ h \in receipts[k].items
  BY DEF Handed
<1>2. k \in DOMAIN mutations /\ mutations # <<>>
  <2>1. DOMAIN mutations = 1..Len(mutations) /\ DOMAIN receipts = 1..Len(mutations)
    BY AppendFacts DEF BatchIInv, BatchTypes
  <2>2. k \in DOMAIN mutations
    BY <1>1, <2>1
  <2> QED BY <2>2
<1>3. plan # Absent /\ DOMAIN items = Ordinals(plan)
  BY <1>2 DEF BatchIInv, BatchTypes
<1>4. ClaimEntry(k)
  <2>1. ~SubmissionEntry(k)
    BY <1>1 DEF SubmissionEntry
  <2>2. ~CompletionEntry(k)
    BY <1>1 DEF CompletionEntry
  <2>3. ~TransitionEntry(k)
    BY <1>1 DEF TransitionEntry
  <2> QED BY <1>2, <2>1, <2>2, <2>3 DEF BatchIInv, EntryIsSound
<1> DEFINE m == mutations[k]
<1>5. /\ receipts[k].items = Claimed(m.command.claim, m.status.revision, m.command.lease, m.assigned)
      /\ DOMAIN m.assigned \subseteq Ordinals(plan)
  BY <1>4 DEF ClaimEntry, ReconstructedClaim, ValidClaim
<1>6. PICK o \in DOMAIN m.assigned :
        h = [ordinal |-> o, attempt |-> m.assigned[o], claim |-> m.command.claim, revision |-> m.status.revision,
             lease |-> m.command.lease]
  BY <1>1, <1>5 DEF Claimed
<1> QED BY <1>3, <1>5, <1>6

\* What a committed completion of item o did.
CompletionDone(command, now, o, result, status) ==
    /\ plan # Absent /\ plan' = plan /\ o = command.claimed.ordinal /\ LeaseMatches(command.claimed, items[o])
    /\ result = authoritative_result(accounts[plan.items[o].account], plan.items[o], plan.intent)
    /\ items' = [items EXCEPT ![o].state = "completed", ![o].by = command.mutation,
                              ![o].outcome = result, ![o].at = now]
    /\ status \in CompletionStatus(result.kind = "rejected", now, items') /\ batch' = status
    /\ accounts' = IF result.kind = "applied"
                   THEN [accounts EXCEPT ![plan.items[o].account] =
                            [version |-> result.event.version, status |-> result.event.to]]
                   ELSE accounts
    /\ events' = IF result.kind = "applied"
                 THEN Append(events, [source |-> o, account |-> plan.items[o].account, event |-> result.event])
                 ELSE events
    /\ Appended(Mutation(command, "committed", status, now, <<>>),
                [kind |-> "item_completion", claimed |-> command.claimed, result |-> result, at |-> now,
                 status |-> status])

\* A completion that commits does exactly that.
LEMMA CompletionDoes ==
    ASSUME NEW now, CompleteClaimedItem(now)
    PROVE  \E command, o, result, status :
             /\ command.kind = "item_completion" /\ command.mutation = NextMutation /\ command.claimed \in Handed
             /\ CompletionDone(command, now, o, result, status)
<1>1. PICK h \in Handed :
        LET command == [mutation |-> NextMutation, kind |-> "item_completion", claimed |-> h]
        IN Commits(command, CompleteTx(command, now))
  BY DEF CompleteClaimedItem
<1> DEFINE command == [mutation |-> NextMutation, kind |-> "item_completion", claimed |-> h]
<1>2. command.kind = "item_completion" /\ command.mutation = NextMutation /\ command.claimed \in Handed
  OBVIOUS
<1>3. Commits(command, CompleteTx(command, now))
  BY <1>1
<1> HIDE DEF command
<1>4. PICK e \in CompleteTx(command, now) :
        /\ plan' = plan
        /\ batch' = e.batch /\ items' = e.items /\ accounts' = e.accounts /\ events' = e.events
        /\ mutations' = Append(mutations, e.mutation)
        /\ receipts' = Append(receipts, e.receipt)
  BY <1>2, <1>3 DEF Commits
<1> DEFINE o == command.claimed.ordinal
           result == authoritative_result(accounts[plan.items[o].account], plan.items[o], plan.intent)
           rows == [items EXCEPT ![o].state = "completed", ![o].by = command.mutation,
                                 ![o].outcome = result, ![o].at = now]
<1>5. plan # Absent /\ LeaseMatches(command.claimed, items[o])
  BY <1>4 DEF CompleteTx
<1>6. PICK status \in CompletionStatus(result.kind = "rejected", now, rows) :
        e = Effect(status, rows,
                IF result.kind = "applied"
                THEN [accounts EXCEPT ![plan.items[o].account] =
                            [version |-> result.event.version, status |-> result.event.to]]
                ELSE accounts,
                IF result.kind = "applied"
                THEN Append(events, [source |-> o, account |-> plan.items[o].account, event |-> result.event])
                ELSE events,
                Mutation(command, "committed", status, now, <<>>),
                [kind |-> "item_completion", claimed |-> command.claimed, result |-> result, at |-> now,
                 status |-> status])
  BY <1>4 DEF CompleteTx
<1> HIDE DEF o, result, rows
<1>7. items' = rows /\ batch' = status
  BY <1>4, <1>6 DEF Effect
<1>8. CompletionDone(command, now, o, result, status)
  BY <1>4, <1>5, <1>6, <1>7 DEF CompletionDone, Effect, Appended, o, result, rows
<1> QED BY <1>2, <1>8

\* The counters and the state a completion leaves fit each other.
CountsOneMore(status, total, rejected) ==
    /\ status \in [state : BatchStates, revision : Nat, completed : Nat, failed : Nat]
    /\ status.revision = batch.revision + 1 /\ status.completed = batch.completed + 1
    /\ status.failed = batch.failed + (IF rejected THEN 1 ELSE 0)
    /\ status.state # "Planned" /\ ValidStatus(status, total)

\* The last completion ends the batch, and an earlier one does not.
LEMMA CompletionStatusIs ==
    ASSUME batch \in [state : BatchStates, revision : Nat, completed : Nat, failed : Nat], batch.state # "Planned",
           NEW total \in Nat, total = Len(plan.items), batch.completed + 1 <= total, batch.failed <= batch.completed,
           NEW rejected \in BOOLEAN, NEW now, NEW rows, NEW status \in CompletionStatus(rejected, now, rows)
    PROVE  CountsOneMore(status, total, rejected)
<1> DEFINE completed == batch.completed + 1
           failed == batch.failed + IF rejected THEN 1 ELSE 0
           terminal == IF failed = 0 THEN "Succeeded" ELSE "CompletedWithFailures"
<1>1. PICK s : /\ status = [state |-> s, revision |-> batch.revision + 1, completed |-> completed, failed |-> failed]
               /\ IF completed # total THEN s \in {batch.state} \ Terminals
                  ELSE s \in NextLifecycle(batch.state, terminal, now, plan.deadline)
  BY DEF CompletionStatus
<1>2. batch.revision \in Nat /\ completed \in Nat /\ failed \in Nat /\ batch.state \in BatchStates
      /\ failed <= completed /\ completed <= total
  OBVIOUS
<1>3. CASE completed # total
  BY <1>1, <1>2, <1>3 DEF ValidStatus, BatchStates, Terminals, CountsOneMore
<1>4. CASE completed = total
  <2>1. terminal \in Transitions /\ Reached(terminal) = {terminal}
    BY DEF Transitions, Terminals, Reached
  <2>2. s = terminal /\ s \in BatchStates
    BY <1>1, <1>2, <1>4, <2>1, LifecycleReaches
  <2> QED BY <1>1, <1>2, <1>4, <2>2 DEF ValidStatus, CountsOneMore
<1> QED BY <1>3, <1>4

\* One more item counted.
LEMMA CountOneMore ==
    ASSUME NEW S, IsFiniteSet(S), NEW o, o \notin S
    PROVE  Cardinality(S \cup {o}) = Cardinality(S) + 1 /\ Cardinality(S) \in Nat
BY FS_AddElement, FS_CardinalityType

\* An account that moves has a version.
VersionsKnown == \A a \in DOMAIN accounts : accounts[a] # Absent => accounts[a].version \in Nat

\* Moving one account leaves every version known.
LEMMA AccountMovesOn ==
    ASSUME VersionsKnown, NEW b \in DOMAIN accounts, NEW v \in Nat, NEW s,
           accounts' = [accounts EXCEPT ![b] = [version |-> v, status |-> s]]
    PROVE  VersionsKnown' /\ DOMAIN accounts' = DOMAIN accounts
<1>1. DOMAIN accounts' = DOMAIN accounts /\ accounts'[b] = [version |-> v, status |-> s]
      /\ \A a \in DOMAIN accounts : a # b => accounts'[a] = accounts[a]
  OBVIOUS
<1>2. accounts'[b].version \in Nat
  BY <1>1
<1> QED BY <1>1, <1>2 DEF VersionsKnown

\* Completions preserve the invariant.
LEMMA CompletionStep ==
    ASSUME BatchIInv, NEW now, CompleteClaimedItem(now)
    PROVE  BatchIInv'
<1>1. PICK command, o, result, status :
        /\ command.kind = "item_completion" /\ command.mutation = NextMutation /\ command.claimed \in Handed
        /\ CompletionDone(command, now, o, result, status)
  BY CompletionDoes
<1> DEFINE x == Mutation(command, "committed", status, now, <<>>)
           y == [kind |-> "item_completion", claimed |-> command.claimed, result |-> result, at |-> now,
                 status |-> status]
           c == command.claimed
<1>2. BatchTypes /\ plan \in Plans /\ plan # Absent /\ plan' = plan
  BY <1>1 DEF BatchIInv, BatchTypes, CompletionDone
<1>3. /\ o \in DOMAIN items /\ o = c.ordinal /\ items[o].state = "claimed" /\ items[o].attempt = c.attempt
      /\ items[o].claim = c.claim /\ items[o].revision = c.revision /\ items[o].lease = c.lease
      /\ c = [ordinal |-> c.ordinal, attempt |-> c.attempt, claim |-> c.claim, revision |-> c.revision,
              lease |-> c.lease]
  BY <1>1, HandedIs DEF CompletionDone, LeaseMatches
<1>4. LogGrew(x, y)
  BY <1>1, <1>2, LogGrows DEF CompletionDone
<1>5. /\ DOMAIN items' = DOMAIN items
      /\ \A q \in DOMAIN items : q # o => items'[q] = items[q]
      /\ DOMAIN items'[o] = RowFields /\ items'[o].state = "completed" /\ items'[o].by = NextMutation
      /\ items'[o].outcome = result /\ items'[o].at = now
      /\ items'[o].attempt = c.attempt /\ items'[o].claim = c.claim
      /\ items'[o].revision = c.revision /\ items'[o].lease = c.lease
  <2>1. DOMAIN items[o] = RowFields
    BY <1>2, <1>3 DEF BatchTypes
  <2>2. items' = [items EXCEPT ![o].state = "completed", ![o].by = NextMutation, ![o].outcome = result, ![o].at = now]
    BY <1>1 DEF CompletionDone
  <2> QED BY <1>3, <2>1, <2>2 DEF RowFields
<1> HIDE DEF x, y, c
<1>6. RowIsSound(o) /\ batch.state # "Planned"
  BY <1>2, <1>3 DEF BatchIInv, RowIsSound
<1>7. PICK k \in DOMAIN mutations : HandedBy(o, k)
  BY <1>3, <1>6 DEF RowIsSound
<1> DEFINE done == {q \in DOMAIN items : items[q].state = "completed"}
           lost == {q \in DOMAIN items : items[q].state = "completed" /\ items[q].outcome.kind = "rejected"}
<1>8. /\ IsFiniteSet(done) /\ IsFiniteSet(lost) /\ o \notin done /\ o \notin lost
      /\ batch.completed = Cardinality(done) /\ batch.failed = Cardinality(lost)
      /\ Len(plan.items) \in Nat /\ Cardinality(done \cup {o}) <= Len(plan.items)
      /\ batch.failed <= batch.completed
  <2>1. IsFiniteSet(DOMAIN items) /\ Cardinality(DOMAIN items) = Len(plan.items) /\ Len(plan.items) \in Nat
    BY <1>2, OrdinalsFinite DEF BatchTypes
  <2>2. done \cup {o} \subseteq DOMAIN items /\ lost \subseteq done
    BY <1>3
  <2>3. o \notin done
    BY <1>3
  <2>4. IsFiniteSet(done) /\ IsFiniteSet(lost) /\ Cardinality(done \cup {o}) <= Len(plan.items)
    <3>1. IsFiniteSet(done)
      BY <2>1, <2>2, FS_Subset
    <3>2. IsFiniteSet(lost)
      BY <2>2, <3>1, FS_Subset
    <3>3. Cardinality(done \cup {o}) <= Cardinality(DOMAIN items)
      BY <2>1, <2>2, FS_Subset
    <3> QED BY <2>1, <3>1, <3>2, <3>3
  <2>5. batch.completed = Cardinality(done) /\ batch.failed = Cardinality(lost) /\ batch.failed <= batch.completed
    BY <1>2 DEF BatchIInv, BatchAccountsForItems, ValidStatus
  <2> QED BY <2>1, <2>2, <2>3, <2>4, <2>5
<1>9. /\ Cardinality(done \cup {o}) = batch.completed + 1 /\ Cardinality(lost \cup {o}) = batch.failed + 1
  BY <1>8, CountOneMore
<1>10. /\ status \in [state : BatchStates, revision : Nat, completed : Nat, failed : Nat]
       /\ status.revision = batch.revision + 1 /\ status.completed = batch.completed + 1
       /\ status.failed = batch.failed + (IF result.kind = "rejected" THEN 1 ELSE 0)
       /\ status.state # "Planned" /\ ValidStatus(status, Len(plan.items)) /\ batch' = status
       /\ batch.revision \in Nat
  <2>1. batch \in [state : BatchStates, revision : Nat, completed : Nat, failed : Nat]
    BY <1>2 DEF BatchTypes
  <2>2. status \in CompletionStatus(result.kind = "rejected", now, items') /\ batch' = status
    BY <1>1 DEF CompletionDone
  <2>3. batch.completed + 1 <= Len(plan.items)
    BY <1>8, <1>9
  <2>4. (result.kind = "rejected") \in BOOLEAN
    OBVIOUS
  <2> HIDE DEF done, lost
  <2>5. CountsOneMore(status, Len(plan.items), result.kind = "rejected")
    BY <1>6, <1>8, <2>1, <2>2, <2>3, <2>4, CompletionStatusIs, Zenon
  <2> QED BY <2>1, <2>2, <2>5 DEF CountsOneMore
<1>11. RowsKept
  BY <1>2, <1>3, <1>5, <1>10 DEF RowsKept
<1>12. PICK new : new = NextMutation
  OBVIOUS
<1>13. /\ items'[o].outcome.kind \in {"rejected", Success(plan.intent)}
       /\ Redecided(items'[o], plan.items[o]) = {items'[o].outcome}
  <2>1. plan.items[o].account \in DOMAIN accounts
    BY <1>2, <1>3 DEF BatchTypes
  <2>2. accounts[plan.items[o].account] # Absent => accounts[plan.items[o].account].version \in Nat
    BY <1>2, <2>1 DEF BatchTypes
  <2>3. items'[o].outcome = authoritative_result(accounts[plan.items[o].account], plan.items[o], plan.intent)
    BY <1>1, <1>5 DEF CompletionDone
  <2> QED BY <2>2, <2>3, ResultIs
<1>14. CompletionEntry(new)'
  <2>1. mutations'[new] = x /\ receipts'[new] = y
    BY <1>4, <1>12 DEF LogGrew
  <2>2. /\ x.command = command /\ x.status = status
        /\ y = [kind |-> "item_completion", claimed |-> c, result |-> result, at |-> now, status |-> status]
    BY DEF x, y, c, Mutation
  <2>3. RowClaimed(o)' = c
    BY <1>3, <1>5 DEF RowClaimed
  <2>4. c.revision <= batch.revision /\ c.revision \in Nat
    <3>1. ClaimEntry(k)
      BY <1>7 DEF BatchIInv, HandedBy, IsClaim, EntryIsSound, SubmissionEntry, CompletionEntry, TransitionEntry
    <3> QED BY <1>3, <1>7, <3>1 DEF ClaimEntry, HandedBy
  <2>5. ~(items'[o].revision >= status.revision)
    BY <1>5, <1>10, <2>4
  <2>6. command.claimed.ordinal = o
    BY <1>3 DEF c
  <2> QED BY <1>1, <1>3, <1>5, <1>12, <2>1, <2>2, <2>3, <2>5, <2>6 DEF CompletionEntry
<1>15. \A id \in DOMAIN mutations' : EntryIsSound(id)'
  BY <1>4, <1>11, <1>12, <1>14, EntriesCarried DEF LogGrew, EntryIsSound
<1>16. ClaimsDiffer'
  <2>1. x.command.kind # "claim"
    BY <1>1 DEF x, Mutation
  <2> QED BY <1>4, <1>10, <2>1, ClaimsStayDifferent
<1>17. ASSUME NEW q \in DOMAIN items PROVE RowIsSound(q)'
  <2>1. CASE q # o
    BY <1>4, <1>5, <1>10, <1>11, <2>1, RowCarried
  <2>2. CASE q = o
    <3>1. HandedBy(o, k)' /\ k \in DOMAIN mutations'
      BY <1>3, <1>4, <1>5, <1>7 DEF HandedBy, IsClaim, LogGrew
    <3> QED BY <1>2, <1>5, <1>10, <1>13, <2>2, <3>1 DEF RowIsSound, Success, Redecided, Applied
  <2> QED BY <2>1, <2>2
<1>18. VersionsKnown' /\ DOMAIN accounts' = DOMAIN accounts
  <2>0. VersionsKnown /\ plan.items[o].account \in DOMAIN accounts
    BY <1>2, <1>3 DEF BatchTypes, VersionsKnown
  <2>1. CASE result.kind # "applied"
    BY <1>1, <2>0, <2>1 DEF CompletionDone, VersionsKnown
  <2>2. CASE result.kind = "applied"
    <3> DEFINE account == accounts[plan.items[o].account]
    <3>1. account # Absent /\ account.version \in Nat
      BY <1>1, <2>0, <2>2 DEF CompletionDone, authoritative_result, VersionsKnown
    <3>2. /\ NextStatus(account.status, plan.items[o].action) # {} /\ account.version = plan.items[o].expected
          /\ result.event = CHOOSE e \in Applied(account.version, account.status, plan.items[o]) : TRUE
      BY <1>1, <2>2 DEF CompletionDone, authoritative_result
    <3>3. PICK s : NextStatus(account.status, plan.items[o].action) = {s}
      BY <3>2, NextStatusIs
    <3> DEFINE ev == [version |-> account.version + 1, from |-> account.status, to |-> s]
    <3>4. Applied(account.version, account.status, plan.items[o]) = {ev}
      BY <3>2, <3>3 DEF Applied
    <3>5. result.event.version = account.version + 1
      <4>1. ev.version = account.version + 1
        OBVIOUS
      <4> HIDE DEF ev
      <4>2. result.event = ev
        BY <3>2, <3>4
      <4> QED BY <4>1, <4>2
    <3>6. accounts' = [accounts EXCEPT ![plan.items[o].account] =
                            [version |-> result.event.version, status |-> result.event.to]]
      BY <1>1, <2>2 DEF CompletionDone
    <3>7. result.event.version \in Nat
      BY <3>1, <3>5
    <3> QED BY <2>0, <3>6, <3>7, AccountMovesOn
  <2> QED BY <2>1, <2>2
<1>19. BatchTypes'
  <2>1. IsSeq(events)'
    <3>1. IsSeq(events)
      BY <1>2 DEF BatchTypes
    <3>2. \A z : IsSeq(Append(events, z))
      BY <3>1, AppendFacts
    <3> QED BY <1>1, <3>1, <3>2 DEF CompletionDone, IsSeq
  <2>2. \A q \in DOMAIN items' : DOMAIN items'[q] = RowFields /\ items'[q].state \in {"pending", "claimed", "completed"}
    BY <1>2, <1>3, <1>5 DEF BatchTypes
  <2>3. DOMAIN items' = Ordinals(plan)'
    BY <1>2, <1>5 DEF BatchTypes, Ordinals
  <2>4. /\ DOMAIN accounts' = DOMAIN accounts
        /\ \A a \in DOMAIN accounts' : accounts'[a] # Absent => accounts'[a].version \in Nat
    BY <1>18 DEF VersionsKnown
  <2> QED BY <1>2, <1>4, <1>10, <2>1, <2>2, <2>3, <2>4 DEF BatchTypes, LogGrew, Ordinals
<1>20. BatchAccountsForItems'
  <2>1. done' = done \cup {o} /\ lost' = IF result.kind = "rejected" THEN lost \cup {o} ELSE lost
    BY <1>3, <1>5
  <2>2. batch'.completed = Cardinality(done') /\ batch'.failed = Cardinality(lost')
    <3>1. batch.failed \in Nat
      BY <1>2 DEF BatchTypes
    <3>2. batch'.completed = batch.completed + 1
          /\ batch'.failed = IF result.kind = "rejected" THEN batch.failed + 1 ELSE batch.failed
      BY <1>10, <3>1
    <3> QED BY <1>8, <1>9, <2>1, <3>2
  <2> HIDE DEF done, lost
  <2> DEFINE Of(q) == {n \in DOMAIN events : events[n].source = q}
  <2>3. \A q \in DOMAIN items :
            IF items[q].state = "completed" /\ items[q].outcome.kind = "applied"
            THEN \E n \in DOMAIN events : Of(q) = {n} /\ events[n].event = items[q].outcome.event
            ELSE Of(q) = {}
    BY <1>2 DEF BatchIInv, BatchAccountsForItems
  <2>4. ASSUME NEW q \in DOMAIN items
        PROVE  IF items'[q].state = "completed" /\ items'[q].outcome.kind = "applied"
               THEN \E n \in DOMAIN events' : Of(q)' = {n} /\ events'[n].event = items'[q].outcome.event
               ELSE Of(q)' = {}
    <3>1. CASE result.kind # "applied"
      <4>1. events' = events
        BY <1>1, <3>1 DEF CompletionDone
      <4> QED BY <1>3, <1>5, <2>3, <3>1, <4>1
    <3>2. CASE result.kind = "applied"
      <4> DEFINE z == [source |-> o, account |-> plan.items[o].account, event |-> result.event]
      <4>1. events' = Append(events, z)
        BY <1>1, <3>2 DEF CompletionDone
      <4>2. z.source = o /\ z.event = result.event
        OBVIOUS
      <4> HIDE DEF z
      <4>3. /\ Len(events) \in Nat /\ DOMAIN events = 1..Len(events) /\ DOMAIN events' = 1..(Len(events) + 1)
            /\ \A n \in DOMAIN events : events'[n] = events[n]
            /\ events'[Len(events) + 1] = z
        <5>1. IsSeq(events)
          BY <1>2 DEF BatchTypes
        <5> QED BY <4>1, <5>1, AppendFacts
      <4>4. CASE q = o
        <5>1. Of(q) = {}
          BY <1>3, <2>3, <4>4
        <5>2. Of(q)' = {Len(events) + 1}
          BY <4>2, <4>3, <4>4, <5>1
        <5> QED BY <1>5, <3>2, <4>2, <4>3, <4>4, <5>2
      <4>5. CASE q # o
        <5>1. Of(q)' = Of(q)
          BY <4>2, <4>3, <4>5
        <5>2. items'[q] = items[q] /\ DOMAIN events \subseteq DOMAIN events'
          BY <1>5, <4>3, <4>5
        <5> HIDE DEF Of
        <5> QED BY <2>3, <4>3, <5>1, <5>2
      <4> QED BY <4>4, <4>5
    <3> QED BY <3>1, <3>2
  <2> QED BY <1>2, <1>5, <1>10, <2>2, <2>4 DEF BatchAccountsForItems, done, lost
<1> QED BY <1>5, <1>15, <1>16, <1>17, <1>19, <1>20 DEF BatchIInv

-----------------------------------------------------------------------------

\* What a committed submission of plan p did.
SubmitDone(p, command, created, status) ==
    /\ p \in Plans /\ plan' = p /\ command.kind = "submission" /\ created = (plan = Absent)
    /\ status = (IF created THEN Planned ELSE batch) /\ batch' = status
    /\ ~created => plan = p
    /\ items' = IF created THEN [o \in Ordinals(p) |-> Pending] ELSE items
    /\ accounts' = accounts /\ events' = events
    /\ Appended(Mutation(command, IF created THEN "created" ELSE "replayed", status, 0, <<>>),
                [kind |-> "submission", disposition |-> IF created THEN "created" ELSE "replayed",
                 status |-> status])

\* A submission that commits does exactly that.
LEMMA SubmitDoes ==
    ASSUME Submit
    PROVE  \E p, command, created, status : SubmitDone(p, command, created, status)
<1>1. PICK p \in Plans :
        LET command == [mutation |-> NextMutation, kind |-> "submission", plan |-> p]
        IN Commits(command, Submitted(command))
  BY DEF Submit
<1> DEFINE command == [mutation |-> NextMutation, kind |-> "submission", plan |-> p]
           created == plan = Absent
           status == IF created THEN Planned ELSE batch
<1>2. command.kind = "submission" /\ command.plan = p
  OBVIOUS
<1>3. Commits(command, Submitted(command))
  BY <1>1
<1> HIDE DEF command
<1>4. PICK e \in Submitted(command) :
        /\ plan' = p
        /\ batch' = e.batch /\ items' = e.items /\ accounts' = e.accounts /\ events' = e.events
        /\ mutations' = Append(mutations, e.mutation)
        /\ receipts' = Append(receipts, e.receipt)
  BY <1>2, <1>3 DEF Commits
<1>5. ~created => plan = p
  BY <1>2, <1>4 DEF Submitted
<1>6. e = Effect(status, IF created THEN [o \in Ordinals(p) |-> Pending] ELSE items,
                accounts, events,
                Mutation(command, IF created THEN "created" ELSE "replayed", status, 0, <<>>),
                [kind |-> "submission", disposition |-> IF created THEN "created" ELSE "replayed",
                 status |-> status])
  BY <1>2, <1>4 DEF Submitted
<1>7. SubmitDone(p, command, created, status)
  BY <1>2, <1>4, <1>5, <1>6 DEF SubmitDone, Effect, Appended
<1> QED BY <1>7

\* Submissions, first and repeated, preserve the invariant.
LEMMA SubmitStep ==
    ASSUME BatchIInv, Submit
    PROVE  BatchIInv'
<1>1. PICK p, command, created, status : SubmitDone(p, command, created, status)
  BY SubmitDoes
<1> DEFINE x == Mutation(command, IF created THEN "created" ELSE "replayed", status, 0, <<>>)
           y == [kind |-> "submission", disposition |-> IF created THEN "created" ELSE "replayed",
                 status |-> status]
<1>2. BatchTypes /\ p \in Plans /\ plan' = p /\ p # Absent
  BY <1>1, BatchAssumption DEF BatchIInv, SubmitDone
<1>3. LogGrew(x, y)
  BY <1>1, <1>2, LogGrows DEF SubmitDone
<1>4. accounts' = accounts /\ events' = events /\ batch' = status
  BY <1>1 DEF SubmitDone
<1>5. PICK new : new = NextMutation
  OBVIOUS
<1>6. SubmissionEntry(new)'
  <2>1. mutations'[new] = x /\ receipts'[new] = y
    BY <1>3, <1>5 DEF LogGrew
  <2>2. /\ x.command.kind = "submission" /\ x.status = status
        /\ x.disposition = (IF created THEN "created" ELSE "replayed")
    BY <1>1 DEF Mutation, SubmitDone
  <2>3. x.disposition = "created" => x.status = Planned
    BY <1>1, <2>2 DEF SubmitDone
  <2> HIDE DEF x
  <2> QED BY <2>1, <2>2, <2>3 DEF SubmissionEntry, Planned
<1>7. x.command.kind # "claim"
  BY <1>1 DEF Mutation, SubmitDone
<1> HIDE DEF x, y
<1>8. batch.revision \in Nat
  BY <1>2 DEF BatchTypes
<1>9. ClaimsDiffer'
  BY <1>3, <1>7, <1>8, ClaimsStayDifferent
<1>10. CASE plan = Absent
  <2>1. /\ status = Planned /\ items' = [o \in Ordinals(p) |-> Pending]
        /\ DOMAIN mutations = {} /\ DOMAIN events' = {}
    BY <1>1, <1>2, <1>4, <1>10 DEF SubmitDone, BatchTypes
  <2>2. /\ DOMAIN items' = Ordinals(p)
        /\ \A o \in DOMAIN items' : DOMAIN items'[o] = RowFields /\ items'[o].state = "pending"
    BY <2>1 DEF Pending, RowFields
  <2>3. BatchTypes'
    BY <1>2, <1>3, <1>4, <2>1, <2>2 DEF BatchTypes, LogGrew, Ordinals, Planned, BatchStates
  <2>4. \A id \in DOMAIN mutations' : EntryIsSound(id)'
    BY <1>3, <1>5, <1>6, <2>1 DEF LogGrew, EntryIsSound
  <2>5. \A o \in DOMAIN items' : RowIsSound(o)'
    BY <2>2 DEF RowIsSound
  <2>6. BatchAccountsForItems'
    <3>1. {o \in DOMAIN items' : items'[o].state = "completed"} = {}
          /\ {o \in DOMAIN items' : items'[o].state = "completed" /\ items'[o].outcome.kind = "rejected"} = {}
      BY <2>2
    <3>2. batch'.completed = 0 /\ batch'.failed = 0 /\ batch'.state = "Planned"
      BY <1>4, <2>1 DEF Planned
    <3>3. Len(p.items) \in Nat
      BY <1>2, BatchAssumption
    <3>4. ValidStatus(batch', Len(p.items))
      BY <3>2, <3>3 DEF ValidStatus
    <3> QED BY <1>2, <2>1, <2>2, <3>1, <3>2, <3>4, FS_EmptySet DEF BatchAccountsForItems
  <2> QED BY <1>9, <2>3, <2>4, <2>5, <2>6 DEF BatchIInv
<1>11. CASE plan # Absent
  <2>1. plan' = plan /\ items' = items /\ batch' = batch
    BY <1>1, <1>11 DEF SubmitDone
  <2>2. RowsKept
    BY <1>8, <1>11, <2>1 DEF RowsKept
  <2>3. BatchTypes'
    BY <1>2, <1>3, <1>4, <2>1 DEF BatchTypes, LogGrew, Ordinals
  <2>4. \A id \in DOMAIN mutations' : EntryIsSound(id)'
    BY <1>3, <1>5, <1>6, <2>2, EntriesCarried DEF LogGrew, EntryIsSound
  <2>5. \A o \in DOMAIN items : items[o].state # "pending" => batch.state # "Planned"
    BY <1>11 DEF BatchIInv, RowIsSound
  <2>6. \A o \in DOMAIN items : RowIsSound(o)'
    BY <1>3, <2>1, <2>2, <2>5, RowCarried
  <2>7. BatchAccountsForItems'
    BY <1>4, <1>11, <2>1 DEF BatchIInv, BatchAccountsForItems
  <2> QED BY <1>9, <2>1, <2>3, <2>4, <2>6, <2>7 DEF BatchIInv
<1> QED BY <1>10, <1>11

\* The invariant looks at the accounts only for their versions.
LEMMA Undisturbed ==
    ASSUME BatchIInv, UNCHANGED <<plan, batch, items, mutations, events, receipts>>,
           VersionsKnown', DOMAIN accounts' = DOMAIN accounts
    PROVE  BatchIInv'
<1>1. /\ plan' = plan /\ batch' = batch /\ items' = items /\ mutations' = mutations
      /\ events' = events /\ receipts' = receipts
  OBVIOUS
<1>2. BatchTypes
  BY DEF BatchIInv
<1>3. VersionsKnown' /\ DOMAIN accounts' = DOMAIN accounts
  OBVIOUS
<1>4. BatchTypes'
  BY <1>1, <1>2, <1>3 DEF BatchTypes, VersionsKnown, Ordinals, IsSeq
<1>5. \A id \in DOMAIN mutations : EntryIsSound(id)'
  <2> SUFFICES ASSUME NEW id \in DOMAIN mutations PROVE EntryIsSound(id)'
    OBVIOUS
  <2>1. EntryIsSound(id)
    BY DEF BatchIInv
  <2>2. ReconstructedClaim(mutations[id])' = ReconstructedClaim(mutations[id])
    BY <1>1, Zenon DEF ReconstructedClaim
  <2> QED BY <1>1, <2>1, <2>2 DEF EntryIsSound, SubmissionEntry, ClaimEntry, CompletionEntry, TransitionEntry, RowClaimed
<1>6. plan # Absent => \A o \in DOMAIN items : RowIsSound(o)'
  <2> SUFFICES ASSUME plan # Absent, NEW o \in DOMAIN items PROVE RowIsSound(o)'
    OBVIOUS
  <2>1. RowIsSound(o)
    BY DEF BatchIInv
  <2>2. (Redecided(items[o], plan.items[o]))' = Redecided(items[o], plan.items[o])
    BY <1>1, Zenon DEF Redecided
  <2> QED BY <1>1, <2>1, <2>2 DEF RowIsSound, HandedBy, IsClaim
<1>7. ClaimsDiffer' /\ BatchAccountsForItems'
  BY <1>1 DEF BatchIInv, ClaimsDiffer, IsClaim, BatchAccountsForItems
<1> QED BY <1>1, <1>4, <1>5, <1>6, <1>7 DEF BatchIInv

\* An account another batch moves on is none of this batch's rows.
LEMMA AccountStep ==
    ASSUME BatchIInv, NEW a \in DOMAIN accounts, AccountMoves(a)
    PROVE  BatchIInv'
<1>1. UNCHANGED <<plan, batch, items, mutations, events, receipts>>
  BY DEF AccountMoves
<1>2. BatchTypes /\ VersionsKnown
  BY DEF BatchIInv, BatchTypes, VersionsKnown
<1>3. VersionsKnown' /\ DOMAIN accounts' = DOMAIN accounts
  <2>0. PICK action \in {"Activate", "Suspend"} :
          \E e \in Applied(accounts[a].version, accounts[a].status,
                           [expected |-> accounts[a].version, action |-> action]) :
            accounts' = [accounts EXCEPT ![a] = [version |-> e.version, status |-> e.to]]
    BY DEF AccountMoves
  <2>1. PICK e \in Applied(accounts[a].version, accounts[a].status,
                          [expected |-> accounts[a].version, action |-> action]) :
          accounts' = [accounts EXCEPT ![a] = [version |-> e.version, status |-> e.to]]
    BY <2>0
  <2>2. accounts[a].version \in Nat
    BY <1>2 DEF AccountMoves, VersionsKnown
  <2>3. e.version \in Nat
    BY <2>1, <2>2 DEF Applied
  <2> QED BY <1>2, <2>1, <2>3, AccountMovesOn
<1> QED BY <1>1, <1>3, Undisturbed

\* Every step preserves the invariant.
LEMMA BatchNextIInv == BatchIInv /\ [BatchNext]_batchVars => BatchIInv'
<1> SUFFICES ASSUME BatchIInv, [BatchNext]_batchVars PROVE BatchIInv'
  OBVIOUS
<1>1. CASE Submit
  BY <1>1, SubmitStep
<1>2. ASSUME NEW now \in Instants, Claim(now) \/ CompleteClaimedItem(now) \/ TransitionBatch(now) PROVE BatchIInv'
  BY <1>2, ClaimStep, CompletionStep, TransitionStep
<1>3. ASSUME NEW a \in DOMAIN accounts, AccountMoves(a) PROVE BatchIInv'
  BY <1>3, AccountStep
<1>4. CASE UNCHANGED batchVars
  <2>1. UNCHANGED <<plan, batch, items, mutations, events, receipts>> /\ accounts' = accounts
    BY <1>4 DEF batchVars
  <2>2. VersionsKnown'
    BY <2>1 DEF BatchIInv, BatchTypes, VersionsKnown
  <2> QED BY <2>1, <2>2, Undisturbed
<1> QED BY <1>1, <1>2, <1>3, <1>4 DEF BatchNext

\* A batch answers for what it did, for every plan, clock and order of commands:
\* a command whose answer was lost is answered with the very receipt it was
\* committed with (reconstruct_mutation), no item is applied twice or without its
\* outcome saying so (complete_tx), and the counters are those of the items.
THEOREM BatchesAnswer == BatchSpec => []BatchIsAccountable
<1>1. BatchInit => BatchIInv
  BY BatchInitIInv
<1>2. BatchIInv /\ [BatchNext]_batchVars => BatchIInv'
  BY BatchNextIInv
<1>3. BatchIInv => BatchIsAccountable
  BY InvariantAccounts
<1> QED BY <1>1, <1>2, <1>3, PTL DEF BatchSpec
=============================================================================
