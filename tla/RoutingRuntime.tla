--------------------------- MODULE RoutingRuntime ---------------------------
(***************************************************************************)
(* The execution of a routed request (ariadnion-routing-runtime): route,   *)
(* admit, probe the circuit, authorise, dispatch, settle, fail over.       *)
(*                                                                         *)
(* One process per request; requests share the permits and the circuits of *)
(* the accounts.  A step runs from one await, or one access to shared      *)
(* state, to the next.  Circuits are kept without their clocks and         *)
(* thresholds: a closed circuit may open on any retryable failure, an open *)
(* one admits a probe when its window has passed, and a caller whose clock *)
(* reading another one overtook is refused (AccountCircuit has all three). *)
(***************************************************************************)
EXTENDS RouteSelection

CONSTANTS
    Requests,      \* concurrent requests
    Candidates,    \* the pool, one account each, in identity order
    Worlds,        \* what the snapshots and times of a coordination may be
    PermitsOf,     \* concurrency limit of each account
    MaxAttempts,   \* attempt ceiling of the retry policy
    Slots,         \* attempts scheduled with each request
    Failures,      \* failure classes the provider shows
    MaxGeneration  \* largest circuit generation (u64::MAX)

ASSUME RuntimeAssumption ==
    /\ Candidates \subseteq Nat \ {0} /\ IsFiniteSet(Candidates)
    /\ MaxAttempts \in Nat \ {0} /\ PermitsOf \in [Candidates -> Nat \ {0}]
    /\ Slots \in [Requests -> Nat \ {0}]
    /\ Failures \subseteq FailureClass

VARIABLES
    runs,      \* the control state of each request
    attempts,  \* the attempts of each request, in order, with what they hold
    circuits   \* the circuit of each account

runtimeVars == <<runs, attempts, circuits>>

NoPlan == [candidates |-> <<>>, max |-> 0, safe |-> FALSE]
NoAnswer == [kind |-> "None", accepted |-> <<>>]

NewRun(r, safe) ==
    [pc |-> "Idle", plan |-> [NoPlan EXCEPT !.safe = safe], target |-> 0, ordinal |-> 0,
     left |-> Slots[r], accepted |-> <<>>, committed |-> FALSE, refusal |-> "None",
     answer |-> NoAnswer]

NoProbe == [kind |-> "None", gen |-> 0]

RuntimeInit ==
    /\ \E safe \in [Requests -> BOOLEAN] : runs = [r \in Requests |-> NewRun(r, safe[r])]
    /\ attempts = [r \in Requests |-> <<>>]
    /\ circuits \in [Candidates -> {[state |-> s, gen |-> 0, leases |-> {}] : s \in {"Closed", "Open"}}]

AtPc(r, pc) == runs[r].pc = pc
Current(r) == attempts[r][Len(attempts[r])]
AccountOf(r) == Current(r).candidate

\* Permits in use: by attempts under way, and by attempts of unknown fate until
\* their lease runs out.
InUse(c) ==
    Cardinality({id \in UNION {{r} \X DOMAIN attempts[r] : r \in Requests} :
        LET attempt == attempts[id[1]][id[2]] IN
        attempt.candidate = c /\ attempt.admission \in {"Held", "Unknown"}})

-----------------------------------------------------------------------------
(* The circuit of one account, as the probe registry uses it.              *)

Transitioned(circuit, state) ==
    IF circuit.gen < MaxGeneration
    THEN {[ok |-> TRUE, circuit |-> [state |-> state, gen |-> circuit.gen + 1, leases |-> {}]]}
    ELSE {[ok |-> FALSE, circuit |-> circuit]}

Refused(circuit) == {[ok |-> FALSE, circuit |-> circuit]}

\* A lease that ran out: the circuit fails closed and the caller is refused.
Reclaimed(circuit) == {[ok |-> FALSE, circuit |-> t.circuit] : t \in Transitioned(circuit, "Open")}

\* acquire_probe of the registry: what the acquisition by an attempt may give.
Acquired(circuit, id) ==
    CASE circuit.state = "Closed" ->
            {[kind |-> "Closed", circuit |-> circuit]}
      [] circuit.state = "Terminal" ->
            {[kind |-> "None", circuit |-> circuit]}
      [] OTHER ->
            {[kind |-> "None", circuit |-> circuit],
             [kind |-> "HalfOpen", circuit |-> [circuit EXCEPT !.state = "HalfOpen", !.leases = @ \cup {id}]]}
            \cup (IF circuit.leases = {} THEN {}
                  ELSE {[kind |-> "None", circuit |-> t.circuit] : t \in Reclaimed(circuit)})

Holds(circuit, probe, id) ==
    /\ probe.gen = circuit.gen
    /\ probe.kind = "Closed" => circuit.state = "Closed"
    /\ probe.kind = "HalfOpen" => id \in circuit.leases

\* validate_probe: a half-open lease may turn out to have run out.
Validated(circuit, probe, id) ==
    IF ~Holds(circuit, probe, id) THEN Refused(circuit)
    ELSE {[ok |-> TRUE, circuit |-> circuit]}
         \cup (IF probe.kind = "HalfOpen" THEN Reclaimed(circuit) ELSE {})

ClosedOutcomes(circuit, outcome) ==
    CASE outcome \in {"Success", "Neutral"} -> {[ok |-> TRUE, circuit |-> circuit]}
      [] outcome = "RetryableFailure" ->
            {[ok |-> TRUE, circuit |-> circuit]} \cup Transitioned(circuit, "Open")
      [] outcome = "TerminalFailure" -> Transitioned(circuit, "Terminal")

HalfOpenOutcomes(circuit, id, outcome) ==
    LET rest == [circuit EXCEPT !.leases = @ \ {id}] IN
    CASE outcome \in {"Success", "Neutral"} ->
            {[ok |-> TRUE, circuit |-> rest]}
            \cup (IF rest.leases = {} THEN Transitioned(circuit, "Closed") ELSE {})
      [] outcome = "RetryableFailure" -> Transitioned(circuit, "Open")
      [] outcome = "TerminalFailure" -> Transitioned(circuit, "Terminal")

\* complete of the guard: nothing to do without a lease, refused when the
\* lease is no longer good or the reading was overtaken.
Completed(circuit, probe, id, outcome) ==
    CASE probe.kind = "None" -> {[ok |-> TRUE, circuit |-> circuit]}
      [] probe.kind # "None" /\ ~Holds(circuit, probe, id) -> Refused(circuit)
      [] probe.kind = "Closed" /\ Holds(circuit, probe, id) ->
            Refused(circuit) \cup ClosedOutcomes(circuit, outcome)
      [] probe.kind = "HalfOpen" /\ Holds(circuit, probe, id) ->
            Refused(circuit) \cup Reclaimed(circuit) \cup HalfOpenOutcomes(circuit, id, outcome)

-----------------------------------------------------------------------------
(* Parts of the steps.                                                     *)

Id(r) == <<r, Len(attempts[r])>>

Answered(run, kind, more) ==
    [run EXCEPT !.pc = "Ended",
                !.answer = [kind |-> kind, accepted |-> run.accepted \o more]]

\* The attempt with its admission settled and its probe consumed.
Settled(attempt, admission, outcome) ==
    [attempt EXCEPT !.admission = admission,
                    !.outcome = IF attempt.probe.kind = "None" THEN "None" ELSE outcome,
                    !.probe = NoProbe]

SetCurrent(r, attempt) == attempts' = [attempts EXCEPT ![r][Len(attempts[r])] = attempt]
SetCircuit(c, circuit) == circuits' = [circuits EXCEPT ![c] = circuit]

-----------------------------------------------------------------------------
(* Routing and admission.                                                  *)

\* load_state: no pool, projection or catalogue, or the caller is gone.
LoadFails(r) ==
    /\ AtPc(r, "Idle")
    /\ runs' = [runs EXCEPT ![r] = Answered(@, "Error", <<>>)]
    /\ UNCHANGED <<attempts, circuits>>

NewAttempt(route) ==
    [candidate |-> route.selected, admission |-> "Held",
     probe |-> NoProbe, outcome |-> "None", sent |-> FALSE, accepted |-> FALSE,
     committed |-> FALSE, failure |-> "None"]

\* admit: the account may be at its limit; any request may be over a limit
\* of its tenant, its model or its budget.
Admissions(c) == {"Request"} \cup (IF InUse(c) < PermitsOf[c] THEN {"None"} ELSE {"Account"})

\* start_state and prepare_retry after the selection.
Admit(r, run, route, refusal) ==
    IF refusal = "None"
    THEN /\ runs' = [runs EXCEPT ![r] = [run EXCEPT !.pc = "Prepare"]]
         /\ attempts' = [attempts EXCEPT ![r] = Append(@, NewAttempt(route))]
    ELSE /\ runs' = [runs EXCEPT ![r] = [run EXCEPT !.pc = "Refused", !.refusal = refusal]]
         /\ UNCHANGED attempts

\* Without a retry context, so for a refusal of the whole request, the first
\* coordination ends here, as it does when no candidate is found.
StartRoute(r, w) ==
    LET route == Route(w, Candidates, MaxAttempts)
        run == [runs[r] EXCEPT !.plan.candidates = route.plan, !.plan.max = MaxAttempts,
                               !.target = route.selected, !.ordinal = 1, !.left = @ - 1]
    IN /\ AtPc(r, "Idle")
       /\ IF route.code # "Ok"
          THEN /\ runs' = [runs EXCEPT ![r] = Answered(@, "Error", <<>>)]
               /\ UNCHANGED attempts
          ELSE \E refusal \in Admissions(route.selected) : Admit(r, run, route, refusal)
       /\ UNCHANGED circuits

\* retry_after_admission.
AfterRefusal(r) ==
    LET run == runs[r]
        next == DecideRefusal(run.plan, run.target, run.ordinal, run.committed, run.refusal)
    IN /\ AtPc(r, "Refused")
       /\ runs' = [runs EXCEPT ![r] = IF next = 0 THEN Answered(run, "Error", <<>>)
                                      ELSE [run EXCEPT !.pc = "Retry", !.target = next]]
       /\ UNCHANGED <<attempts, circuits>>

\* prepare_retry: a slot is spent on every coordination, admitted or not, and
\* the pool is the one candidate the plan named.
RetryRoute(r, w) ==
    LET route == Route(w, {runs[r].target}, MaxAttempts)
        run == [runs[r] EXCEPT !.ordinal = @ + 1, !.left = @ - 1]
    IN /\ AtPc(r, "Retry")
       /\ runs[r].left > 0
       /\ IF route.code # "Ok"
          THEN /\ runs' = [runs EXCEPT ![r] = Answered(@, "Error", <<>>)]
               /\ UNCHANGED attempts
          ELSE \E refusal \in Admissions(route.selected) : Admit(r, run, route, refusal)
       /\ UNCHANGED circuits

NoSlotLeft(r) ==
    /\ AtPc(r, "Retry")
    /\ runs[r].left = 0
    /\ runs' = [runs EXCEPT ![r] = Answered(@, "AttemptsExhausted", <<>>)]
    /\ UNCHANGED <<attempts, circuits>>

-----------------------------------------------------------------------------
(* Preparation.                                                            *)

\* release_pre_dispatch: without a clock reading the lease is dropped, which
\* releases it too.
ReleasePreDispatch(r, attempt) ==
    \E done \in Completed(circuits[attempt.candidate], attempt.probe, Id(r), "Neutral") :
        /\ SetCircuit(attempt.candidate, done.circuit)
        /\ SetCurrent(r, Settled(attempt, "Released", "Neutral"))
        /\ runs' = [runs EXCEPT ![r] = Answered(@, "Error", <<>>)]

\* An unsupported proxy, a target the projection does not confirm, a caller
\* that is gone, or no probe authority.
PrepareFails(r) ==
    /\ AtPc(r, "Prepare")
    /\ ReleasePreDispatch(r, Current(r))

AcquireCircuitProbe(r) ==
    LET c == AccountOf(r) IN
    /\ AtPc(r, "Prepare")
    /\ \E result \in Acquired(circuits[c], Id(r)) :
        /\ result.kind # "None"
        /\ SetCircuit(c, result.circuit)
        /\ SetCurrent(r, [Current(r) EXCEPT !.probe = [kind |-> result.kind, gen |-> result.circuit.gen]])
        /\ runs' = [runs EXCEPT ![r].pc = "Authorise"]

\* The circuit admits nothing, or only reclaims what ran out.
ProbeRejected(r) ==
    LET c == AccountOf(r) IN
    /\ AtPc(r, "Prepare")
    /\ \E result \in Acquired(circuits[c], Id(r)) :
        /\ result.kind = "None"
        /\ SetCircuit(c, result.circuit)
        /\ SetCurrent(r, Settled(Current(r), "Released", "None"))
        /\ runs' = [runs EXCEPT ![r] = Answered(@, "Error", <<>>)]

\* The credential is resolved, leased and revalidated over three awaits.
AuthoriseFails(r) ==
    /\ AtPc(r, "Authorise")
    /\ ReleasePreDispatch(r, Current(r))

Authorised(r) ==
    /\ AtPc(r, "Authorise")
    /\ runs' = [runs EXCEPT ![r].pc = "Ready"]
    /\ UNCHANGED <<attempts, circuits>>

\* Mutant: the probe is not looked at again before the dispatch.
DispatchUnvalidated(r) ==
    /\ AtPc(r, "Ready")
    /\ SetCurrent(r, [Current(r) EXCEPT !.sent = TRUE])
    /\ runs' = [runs EXCEPT ![r].pc = "InFlight"]
    /\ UNCHANGED circuits

\* validate_prepared_probe and the pending guard.
Dispatch(r) ==
    LET c == AccountOf(r) IN
    /\ AtPc(r, "Ready")
    /\ \E valid \in Validated(circuits[c], Current(r).probe, Id(r)) :
        /\ valid.ok
        /\ SetCircuit(c, valid.circuit)
        /\ SetCurrent(r, [Current(r) EXCEPT !.sent = TRUE])
        /\ runs' = [runs EXCEPT ![r].pc = "InFlight"]

\* The lease is superseded or ran out: the guard is disarmed and only the
\* admission is released.
ProbeInvalidated(r) ==
    LET c == AccountOf(r) IN
    /\ AtPc(r, "Ready")
    /\ \E valid \in Validated(circuits[c], Current(r).probe, Id(r)) :
        /\ ~valid.ok
        /\ SetCircuit(c, valid.circuit)
        /\ SetCurrent(r, Settled([Current(r) EXCEPT !.probe = NoProbe], "Released", "None"))
        /\ runs' = [runs EXCEPT ![r] = Answered(@, "Error", <<>>)]

\* No clock reading for the dispatch or for the validation.
DispatchFails(r) ==
    /\ AtPc(r, "Ready")
    /\ ReleasePreDispatch(r, Current(r))

-----------------------------------------------------------------------------
(* The answer of the provider, and what it settles.                        *)

CircuitFailureOutcome(failure) ==
    CASE failure = "Authentication" -> "TerminalFailure"
      [] Retryable(failure) -> "RetryableFailure"
      [] OTHER -> "Neutral"

\* Finalizing the admission and the probe; either may fail, and the probe is
\* completed all the same.
Finalize(r, attempt, admission, outcome, finalized, refused) ==
    \E admitted \in BOOLEAN :
    \E done \in Completed(circuits[attempt.candidate], attempt.probe, Id(r), outcome) :
        /\ SetCircuit(attempt.candidate, done.circuit)
        /\ SetCurrent(r, Settled(attempt, admission, outcome))
        /\ runs' = [runs EXCEPT ![r] = IF admitted /\ done.ok THEN finalized ELSE refused]

This(r, accepted) == IF accepted THEN <<Len(attempts[r])>> ELSE <<>>

\* finalize_success.
Succeeds(r, committed) ==
    LET attempt == [Current(r) EXCEPT !.accepted = TRUE, !.committed = committed] IN
    /\ AtPc(r, "InFlight")
    /\ Finalize(r, attempt, "Charged", "Success",
           Answered(runs[r], "Succeeded", This(r, TRUE)), Answered(runs[r], "Error", This(r, TRUE)))

\* Mutant: the acceptances of earlier attempts are forgotten by a failure.
AdvanceForgetful(run, attempt, index) ==
    LET next == DecideFailure(run.plan, run.target, run.ordinal, attempt.committed, attempt.failure)
        kept == [run EXCEPT !.committed = attempt.committed,
                            !.accepted = IF attempt.accepted THEN <<index>> ELSE <<>>]
    IN IF next = 0 THEN Answered(kept, "FailoverStopped", <<>>)
       ELSE [kept EXCEPT !.pc = "Retry", !.target = next]

\* advance_failed: keep the acceptance, then ask the plan.
Advance(run, attempt, index) ==
    LET next == DecideFailure(run.plan, run.target, run.ordinal, attempt.committed, attempt.failure)
        kept == [run EXCEPT !.committed = attempt.committed,
                            !.accepted = IF attempt.accepted THEN Append(@, index) ELSE @]
    IN IF next = 0 THEN Answered(kept, "FailoverStopped", <<>>)
       ELSE [kept EXCEPT !.pc = "Retry", !.target = next]

\* A byte reached the caller though the provider is said not to have accepted.
Contradictory(accepted, committed) == ~accepted /\ committed

\* finalize_failure.
Fails(r, accepted, committed, failure) ==
    LET attempt == [Current(r) EXCEPT !.accepted = accepted, !.committed = committed,
                                      !.failure = failure]
    IN /\ AtPc(r, "InFlight")
       /\ ~Contradictory(accepted, committed)
       /\ Finalize(r, attempt, IF accepted THEN "Charged" ELSE "Released",
              CircuitFailureOutcome(failure),
              Advance(runs[r], attempt, Len(attempts[r])), Answered(runs[r], "Error", This(r, accepted)))

\* finalize_interruption: cancelled or out of time at the provider.
Interrupted(r, accepted, committed) ==
    LET attempt == [Current(r) EXCEPT !.accepted = accepted, !.committed = committed,
                                      !.failure = "Interrupted"]
    IN /\ AtPc(r, "InFlight")
       /\ ~Contradictory(accepted, committed)
       /\ Finalize(r, attempt, IF accepted THEN "Charged" ELSE "Released",
              IF accepted THEN "RetryableFailure" ELSE "Neutral",
              Answered(runs[r], "Error", This(r, accepted)), Answered(runs[r], "Error", This(r, accepted)))

\* finalize_contradiction: charged and reported as accepted.
Contradicts(r) ==
    LET attempt == [Current(r) EXCEPT !.accepted = TRUE, !.committed = TRUE,
                                      !.failure = "Contradiction"]
    IN /\ AtPc(r, "InFlight")
       /\ Finalize(r, attempt, "Charged", "RetryableFailure",
              Answered(runs[r], "Error", This(r, TRUE)), Answered(runs[r], "Error", This(r, TRUE)))

-----------------------------------------------------------------------------
(* A caller that goes away drops the execution at its await.               *)

\* PendingExecutionGuard::drop, then the drop of its probe.
DropInFlight(r) ==
    /\ AtPc(r, "InFlight")
    /\ \E done \in Completed(circuits[AccountOf(r)], Current(r).probe, Id(r), "RetryableFailure") :
        /\ SetCircuit(AccountOf(r), done.circuit)
        /\ SetCurrent(r, Settled(Current(r), "Unknown", "RetryableFailure"))
        /\ runs' = [runs EXCEPT ![r].pc = "Dropped"]

DropPreparing(r) ==
    /\ AtPc(r, "Authorise")
    /\ \E done \in Completed(circuits[AccountOf(r)], Current(r).probe, Id(r), "Neutral") :
        /\ SetCircuit(AccountOf(r), done.circuit)
        /\ SetCurrent(r, Settled(Current(r), "Released", "Neutral"))
        /\ runs' = [runs EXCEPT ![r].pc = "Dropped"]

DropLoading(r) ==
    /\ AtPc(r, "Idle")
    /\ runs' = [runs EXCEPT ![r].pc = "Dropped"]
    /\ UNCHANGED <<attempts, circuits>>

-----------------------------------------------------------------------------
(* The world around the requests.                                          *)

\* The permits of an attempt of unknown fate run out with their lease.
PermitLapses(r, i) ==
    /\ attempts[r][i].admission = "Unknown"
    /\ attempts' = [attempts EXCEPT ![r][i].admission = "Lapsed"]
    /\ UNCHANGED <<runs, circuits>>

\* An operator resets a terminal circuit.
ResetCircuit(c) ==
    /\ circuits[c].state = "Terminal"
    /\ \E reset \in Transitioned(circuits[c], "Closed") : reset.ok /\ SetCircuit(c, reset.circuit)
    /\ UNCHANGED <<runs, attempts>>

RuntimeNext ==
    \/ \E r \in Requests :
        \/ LoadFails(r)
        \/ \E w \in Worlds : StartRoute(r, w) \/ RetryRoute(r, w)
        \/ AfterRefusal(r) \/ NoSlotLeft(r)
        \/ PrepareFails(r) \/ AcquireCircuitProbe(r) \/ ProbeRejected(r)
        \/ AuthoriseFails(r) \/ Authorised(r)
        \/ Dispatch(r) \/ ProbeInvalidated(r) \/ DispatchFails(r)
        \/ \E committed \in BOOLEAN : Succeeds(r, committed)
        \/ \E accepted, committed \in BOOLEAN :
            \/ \E failure \in Failures : Fails(r, accepted, committed, failure)
            \/ Interrupted(r, accepted, committed)
        \/ Contradicts(r)
        \/ DropInFlight(r) \/ DropPreparing(r) \/ DropLoading(r)
        \/ \E i \in DOMAIN attempts[r] : PermitLapses(r, i)
    \/ \E c \in Candidates : ResetCircuit(c)

RuntimeSpec == RuntimeInit /\ [][RuntimeNext]_runtimeVars

-----------------------------------------------------------------------------
(* Properties.                                                             *)

Over(r) == runs[r].pc \in {"Ended", "Dropped"}

\* No way out of a request leaves an admission or a circuit probe behind, and
\* the two tell the same story as the provider: what it accepted is charged,
\* what it may have accepted is kept as unknown, what never reached it, or
\* was refused by it, is released.
EveryAttemptIsSettled ==
    \A r \in Requests : \A i \in DOMAIN attempts[r] :
        LET attempt == attempts[r][i] IN
        /\ Over(r) \/ i < Len(attempts[r]) => attempt.admission # "Held" /\ attempt.probe = NoProbe
        /\ attempt.accepted <=> attempt.admission = "Charged"
        /\ attempt.admission \in {"Unknown", "Lapsed"} =>
               attempt.sent /\ runs[r].pc = "Dropped" /\ i = Len(attempts[r])
        /\ attempt.admission = "Released" /\ attempt.sent => attempt.failure # "None"

\* listed has exactly the indices of the accepted attempts, in order.
Lists(listed, tries) ==
    /\ {listed[k] : k \in DOMAIN listed} = {i \in DOMAIN tries : tries[i].accepted}
    /\ \A k, l \in DOMAIN listed : k < l => listed[k] < listed[l]

\* Whatever the answer, success, failure or error, it lists exactly the
\* attempts the provider accepted, in order: nothing that must be metered is
\* lost by a later failure, a later refusal or a failed finalization.
AcceptancesAreReported ==
    \A r \in Requests : runs[r].pc = "Ended" => Lists(runs[r].answer.accepted, attempts[r])

\* The admission, the circuit and the answer agree on what became of every
\* attempt, whichever way its request ends.
AttemptsAreSettled == EveryAttemptIsSettled /\ AcceptancesAreReported

\* The provider is tried again only when that is safe: the earlier attempt
\* failed before its first byte in a class worth retrying, the operation may
\* be repeated, the ceiling is not passed, and candidates are taken in the
\* order of the first plan, none twice but the last.
RetriesAreSafe ==
    \A r \in Requests : \A i, j \in DOMAIN attempts[r] : i < j =>
        LET earlier == attempts[r][i]
            later == attempts[r][j]
            plan == runs[r].plan
        IN /\ Retryable(earlier.failure) /\ ~earlier.committed
           /\ plan.safe /\ Len(attempts[r]) <= MaxAttempts
           /\ IndexIn(plan, earlier.candidate) <= IndexIn(plan, later.candidate)
           /\ earlier.candidate = later.candidate => ~HasNext(plan, later.candidate)

\* An attempt reaches its provider only with a probe that the circuit still
\* honours, however long authorisation took; while it is in flight a circuit
\* of the same generation keeps its lease.
DispatchesAreAdmittedByTheCircuit ==
    [][\A r \in Requests : runs[r].pc = "Ready" /\ runs'[r].pc = "InFlight" =>
         Holds(circuits'[AccountOf(r)], Current(r).probe, Id(r))]_runtimeVars

=============================================================================
