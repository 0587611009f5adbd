--------------------------- MODULE AccountCircuit ---------------------------
(***************************************************************************)
(* The per-account circuit breaker (ariadnion-account-circuit).  Every     *)
(* operation holds the write lock from start to end, so each is one step;  *)
(* what interleaves is the callers: they read both clocks and a generation *)
(* before they get the lock, and keep probe leases while others act.  An   *)
(* operation the code rejects changes nothing and is not a step.           *)
(***************************************************************************)
EXTENDS Naturals, FiniteSets

CONSTANTS
    FailureThreshold,    \* consecutive failures that open the circuit
    RecoverySuccesses,   \* probe successes that close it
    RecoveryWindow,      \* UTC time an open circuit admits no probe
    ProbeLease,          \* monotonic life of a probe lease
    MaxProbes,           \* concurrent half-open probes
    MaxTime,             \* largest clock value (u64::MAX in the code)
    MaxCircuitGeneration,       \* largest generation (u64::MAX)
    MaxLeaseId           \* largest lease identity (u64::MAX)

\* What CircuitPolicy::new demands; its upper bounds are not needed here.
ValidPolicy ==
    /\ FailureThreshold \in Nat \ {0}
    /\ RecoverySuccesses \in Nat \ {0}
    /\ RecoveryWindow \in Nat \ {0}
    /\ ProbeLease \in Nat \ {0}
    /\ MaxProbes \in Nat \ {0}

ASSUME PolicyAssumption ==
    /\ ValidPolicy
    /\ MaxTime \in Nat
    /\ MaxCircuitGeneration \in Nat
    /\ MaxLeaseId \in Nat

VARIABLES
    state,       \* Closed, Open, HalfOpen or Terminal
    circuitGeneration,  \* fences callers that act on an older state
    failures,    \* consecutive_failures
    successes,   \* recovery_successes
    inFlight,    \* half_open_in_flight, as published in the snapshot
    eligibleAt,  \* recovery_eligible_at; Never when absent
    lastUtc,     \* last_observed_at
    lastMono,    \* last_monotonic
    leases,      \* active leases: id and expiry
    nextLease,   \* next_lease_id
    issued       \* every lease a caller was ever handed

snapshot == <<state, circuitGeneration, failures, successes, inFlight, eligibleAt, lastUtc, lastMono>>
circuitVars == <<snapshot, leases, nextLease, issued>>

ClockTime == 0..MaxTime
Never == MaxTime + 1
CircuitState == {"Closed", "Open", "HalfOpen", "Terminal"}
CircuitOutcome == {"Success", "Neutral", "RetryableFailure", "TerminalFailure"}
LeaseRecord == [id : Nat, expires : Nat]
IssuedLease == [id : Nat, expires : Nat, gen : Nat]

CircuitInit ==
    /\ state = "Closed"
    /\ circuitGeneration = 0
    /\ failures = 0
    /\ successes = 0
    /\ inFlight = 0
    /\ eligibleAt = Never
    /\ lastUtc = 0
    /\ lastMono = 0
    /\ leases = {}
    /\ nextLease = 1
    /\ issued = {}

-----------------------------------------------------------------------------
(* Parts of the operations.                                                *)

\* validate_clock, then advance_clock: neither clock may run backwards.
Clock(utc, mono) ==
    /\ utc >= lastUtc /\ mono >= lastMono
    /\ lastUtc' = utc /\ lastMono' = mono

\* Mutant: a transition keeps the generation.
SameGeneration == circuitGeneration' = circuitGeneration

\* CircuitGeneration::next, checked; exhaustion rejects the whole operation.
NextGeneration ==
    /\ circuitGeneration < MaxCircuitGeneration
    /\ circuitGeneration' = circuitGeneration + 1

\* mark_open at the time of the current observation.
MarkOpen(utc) ==
    /\ utc + RecoveryWindow <= MaxTime
    /\ state' = "Open"
    /\ eligibleAt' = utc + RecoveryWindow
    /\ successes' = 0
    /\ inFlight' = 0

MarkTerminal ==
    /\ state' = "Terminal"
    /\ eligibleAt' = Never

-----------------------------------------------------------------------------
(* observe: outcomes of ordinary traffic, accepted only while closed.      *)

CircuitObserve(gen, outcome, utc, mono) ==
    /\ gen = circuitGeneration
    /\ Clock(utc, mono)
    /\ state = "Closed"
    /\ \/ /\ outcome \in {"Success", "Neutral"}
          /\ failures' = IF outcome = "Success" THEN 0 ELSE failures
          /\ UNCHANGED <<state, circuitGeneration, successes, inFlight, eligibleAt>>
       \/ /\ outcome = "RetryableFailure"
          /\ failures + 1 < FailureThreshold
          /\ failures' = failures + 1
          /\ UNCHANGED <<state, circuitGeneration, successes, inFlight, eligibleAt>>
       \/ /\ outcome = "RetryableFailure"
          /\ failures + 1 >= FailureThreshold
          /\ failures' = failures + 1
          /\ MarkOpen(utc)
          /\ NextGeneration
       \/ /\ outcome = "TerminalFailure"
          /\ failures' = FailureThreshold
          /\ MarkTerminal
          /\ NextGeneration
          /\ UNCHANGED <<successes, inFlight>>
    /\ UNCHANGED <<leases, nextLease, issued>>

-----------------------------------------------------------------------------
(* acquire_probe: reclaim expired leases, or admit one more probe.         *)

Expired(mono) == \E l \in leases : mono >= l.expires

\* fail_closed: back to Open under a new generation, all leases dropped.
FailClosed(utc) ==
    /\ MarkOpen(utc)
    /\ NextGeneration
    /\ leases' = {}
    /\ UNCHANGED <<failures, nextLease, issued>>

\* An expired lease reopens the circuit; the caller gets LeaseExpired.
ReclaimExpired(gen, utc, mono) ==
    /\ gen = circuitGeneration
    /\ Clock(utc, mono)
    /\ Expired(mono)
    /\ FailClosed(utc)

\* Mutant: the capacity check compares with one more than the limit.
HasCapacityPlusOne == Cardinality(leases) <= MaxProbes

HasCapacity == Cardinality(leases) < MaxProbes

\* admit_probe: the first probe moves an open circuit to half-open, within
\* the same generation.
AcquireProbe(gen, utc, mono) ==
    LET record == [id |-> nextLease, expires |-> mono + ProbeLease] IN
    /\ gen = circuitGeneration
    /\ Clock(utc, mono)
    /\ ~Expired(mono)
    /\ state \in {"Open", "HalfOpen"}
    /\ eligibleAt # Never /\ utc >= eligibleAt
    /\ HasCapacity
    /\ nextLease < MaxLeaseId /\ mono + ProbeLease <= MaxTime
    /\ state' = "HalfOpen"
    /\ successes' = IF state = "Open" THEN 0 ELSE successes
    /\ nextLease' = nextLease + 1
    /\ leases' = leases \cup {record}
    /\ inFlight' = Cardinality(leases')
    /\ issued' = issued \cup {[id |-> record.id, expires |-> record.expires, gen |-> circuitGeneration]}
    /\ UNCHANGED <<circuitGeneration, failures, eligibleAt>>

-----------------------------------------------------------------------------
(* validate_probe and complete_probe, by any holder of a lease.            *)

\* validate_lease_request.
ActiveLease(lease) ==
    /\ lease.gen = circuitGeneration
    /\ \E l \in leases : l.id = lease.id

\* A lease presented at or after its expiry fails closed, whatever the probe
\* found; validate_probe does this before the probe is even sent.
ExpireProbe(lease, utc, mono) ==
    /\ ActiveLease(lease)
    /\ Clock(utc, mono)
    /\ mono >= lease.expires
    /\ FailClosed(utc)

Without(lease) == {l \in leases : l.id # lease.id}

\* Mutant: one success more than the policy asks for.
RecoveredLate(count, rest) == count > RecoverySuccesses /\ rest = {}

\* close_recovered_circuit: enough successes and no other probe in flight.
Recovered(count, rest) == count >= RecoverySuccesses /\ rest = {}

CompleteProbe(lease, outcome, utc, mono) ==
    LET rest == Without(lease)
        count == IF outcome = "Success" THEN successes + 1 ELSE successes
    IN
    /\ ActiveLease(lease)
    /\ Clock(utc, mono)
    /\ mono < lease.expires
    /\ \/ /\ outcome \in {"Success", "Neutral"}
          /\ ~Recovered(count, rest)
          /\ successes' = count
          /\ leases' = rest
          /\ inFlight' = Cardinality(rest)
          /\ UNCHANGED <<state, circuitGeneration, failures, eligibleAt>>
       \/ /\ outcome \in {"Success", "Neutral"}
          /\ Recovered(count, rest)
          /\ state' = "Closed"
          /\ NextGeneration
          /\ successes' = count
          /\ failures' = 0
          /\ eligibleAt' = Never
          /\ leases' = {}
          /\ inFlight' = Cardinality(rest)
       \/ /\ outcome = "RetryableFailure"
          /\ MarkOpen(utc)
          /\ NextGeneration
          /\ leases' = {}
          /\ UNCHANGED failures
       \/ /\ outcome = "TerminalFailure"
          /\ MarkTerminal
          /\ NextGeneration
          /\ successes' = 0
          /\ inFlight' = 0
          /\ leases' = {}
          /\ UNCHANGED failures
    /\ UNCHANGED <<nextLease, issued>>

-----------------------------------------------------------------------------
(* reset: the administrative way out of Terminal.                          *)

Reset(gen, utc, mono) ==
    /\ gen = circuitGeneration
    /\ Clock(utc, mono)
    /\ state = "Terminal"
    /\ state' = "Closed"
    /\ NextGeneration
    /\ failures' = 0
    /\ successes' = 0
    /\ inFlight' = 0
    /\ eligibleAt' = Never
    /\ leases' = {}
    /\ UNCHANGED <<nextLease, issued>>

CircuitNext ==
    \E utc, mono \in ClockTime :
        \/ \E gen \in 0..MaxCircuitGeneration :
            \/ \E outcome \in CircuitOutcome : CircuitObserve(gen, outcome, utc, mono)
            \/ ReclaimExpired(gen, utc, mono)
            \/ AcquireProbe(gen, utc, mono)
            \/ Reset(gen, utc, mono)
        \/ \E lease \in issued :
            \/ ExpireProbe(lease, utc, mono)
            \/ \E outcome \in CircuitOutcome : CompleteProbe(lease, outcome, utc, mono)

CircuitSpec == CircuitInit /\ [][CircuitNext]_circuitVars

-----------------------------------------------------------------------------
(* Properties.                                                             *)

\* Counters, clocks and leases are well formed, within the policy.
CircuitTypeOK ==
    /\ state \in CircuitState
    /\ circuitGeneration \in Nat /\ circuitGeneration <= MaxCircuitGeneration
    /\ failures \in 0..FailureThreshold
    /\ successes \in Nat
    /\ inFlight \in Nat
    /\ eligibleAt \in Nat
    /\ lastUtc \in ClockTime /\ lastMono \in ClockTime
    /\ leases \subseteq LeaseRecord /\ IsFiniteSet(leases)
    /\ nextLease \in Nat
    /\ issued \subseteq IssuedLease

LeasesAreCounted ==
    /\ inFlight = Cardinality(leases)
    /\ inFlight <= MaxProbes
    /\ leases # {} => state = "HalfOpen"

LeasesAreCurrent ==
    \A l \in leases : [id |-> l.id, expires |-> l.expires, gen |-> circuitGeneration] \in issued

\* The published in-flight count is the number of active leases, never above
\* the policy, and leases exist only while the circuit is half-open: no path
\* through expiry, failure or reset leaves a lease that could act later.  And
\* every active lease was issued under the current generation, so a holder
\* from before the last transition is always refused.
ProbesAccounted == LeasesAreCounted /\ LeasesAreCurrent

\* A half-open circuit is still waiting for something: a probe in flight or
\* more successes.  It never sits recovered and half-open with nobody left to
\* close it.
NeverStuckRecovered ==
    state = "HalfOpen" => leases # {} \/ successes < RecoverySuccesses

\* Every transition but the admission of the first probe moves to a new
\* generation, and generations and clocks never go back: an observation that
\* was prepared before a transition cannot be applied after it.
TransitionsAreFenced ==
    [][/\ circuitGeneration' >= circuitGeneration /\ lastUtc' >= lastUtc /\ lastMono' >= lastMono
       /\ state' # state /\ ~(state = "Open" /\ state' = "HalfOpen")
            => circuitGeneration' = circuitGeneration + 1]_circuitVars

\* A circuit closes only from Terminal by reset or from half-open when the
\* last probe of the generation has answered and enough of them succeeded.
ClosesOnlyRecovered ==
    [][state = "HalfOpen" /\ state' = "Closed"
         => /\ successes' >= RecoverySuccesses
            /\ Cardinality(leases) = 1]_circuitVars

=============================================================================
