---------------------------- MODULE AccountBatch ----------------------------
(***************************************************************************)
(* Batches of account transitions (ariadnion-account-batch,                *)
(* ariadnion-storage-rnmdb: account_batch_repository.rs).  A submitted     *)
(* plan is started, its items are claimed under leases and completed one   *)
(* by one; a completion applies the transition to the account in the same  *)
(* transaction.  Every command carries a mutation id under which its       *)
(* receipt can be reconstructed when the answer was lost.                  *)
(***************************************************************************)
EXTENDS Naturals, Sequences, FiniteSets

CONSTANTS
    Plans,          \* submissions under one idempotency key
    Instants,       \* readings of the system clock, which may go backwards
    Registry,       \* initial states of the account registry
    MaxClaimLease,  \* MAX_CLAIM_LEASE_SECONDS
    MaxMutations,   \* bound: mutations ever committed
    MaxMoves,       \* bound: the version other batches take an account to
    Absent          \* no plan, no account, no outcome

\* Plans name accounts of the registry; a plan is not its absence.
ASSUME BatchAssumption ==
    /\ Absent \notin Plans
    /\ \A p \in Plans :
         /\ Len(p.items) \in Nat /\ DOMAIN p.items = 1..Len(p.items) /\ p.max_claim \in Nat
         /\ \A g \in Registry : \A o \in DOMAIN p.items : p.items[o].account \in DOMAIN g
    /\ \A g \in Registry : \A a \in DOMAIN g : g[a] # Absent => g[a].version \in Nat

VARIABLES
    plan,       \* account_batch_plans, without the status columns
    batch,      \* its status columns: BatchStatus
    items,      \* account_batch_items
    mutations,  \* account_batch_mutations with account_batch_claim_assignments
    accounts,   \* account_registry_accounts
    events,     \* account_lifecycle_events of this batch
    receipts    \* the receipt each mutation was answered with

batchVars == <<plan, batch, items, mutations, accounts, events, receipts>>

-----------------------------------------------------------------------------
(* The account domain.                                                     *)

\* next_status.
NextStatus(status, action) ==
    CASE action = "Activate" /\ status \in {"Provisioning", "Suspended"} -> {"Active"}
      [] action = "Suspend" /\ status = "Active" -> {"Suspended"}
      [] action = "Resume" /\ status = "Suspended" -> {"Active"}
      [] action = "Revoke" /\ status \in {"Provisioning", "Active", "Suspended"} -> {"Revoked"}
      [] action = "Delete" /\ status = "Revoked" -> {"Deleted"}
      [] OTHER -> {}

\* apply_account_lifecycle: the event, if the transition is allowed.
Applied(version, status, command) ==
    IF command.expected # version THEN {}
    ELSE {[version |-> version + 1, from |-> status, to |-> s] : s \in NextStatus(status, command.action)}

-----------------------------------------------------------------------------
(* The batch domain.                                                       *)

Terminals == {"Succeeded", "CompletedWithFailures", "Cancelled", "DeadlineExceeded", "Failed"}

\* BatchLifecycle: start, request_cancellation, expire and finish.
NextLifecycle(state, transition, now, deadline) ==
    CASE transition = "Start" ->
            IF now < deadline /\ state = "Planned" THEN {"Running"} ELSE {}
      [] transition = "RequestCancellation" ->
            IF now >= deadline THEN {}
            ELSE CASE state = "Planned" -> {"Cancelled"}
                   [] state = "Running" -> {"Cancelling"}
                   [] state \in {"Cancelling", "Cancelled"} -> {state}
                   [] OTHER -> {}
      [] transition = "Expire" ->
            IF now >= deadline /\ state \notin Terminals \ {"DeadlineExceeded"} THEN {"DeadlineExceeded"} ELSE {}
      [] OTHER ->
            IF \/ state = "Running" /\ transition \in {"Succeeded", "CompletedWithFailures", "Failed"}
               \/ state = "Cancelling" /\ transition # "DeadlineExceeded"
               \/ state = transition
            THEN {transition} ELSE {}

Transitions == {"Start", "RequestCancellation", "Expire"} \cup Terminals

\* validate_transition_lifecycle: the states a transition may leave.
Reached(transition) ==
    CASE transition = "Start" -> {"Running"}
      [] transition = "RequestCancellation" -> {"Cancelling", "Cancelled"}
      [] transition = "Expire" -> {"DeadlineExceeded"}
      [] OTHER -> {transition}

\* validate_lifecycle_counts.
ValidStatus(s, total) ==
    /\ s.completed <= total /\ s.failed <= s.completed
    /\ CASE s.state = "Planned" -> s.completed = 0
         [] s.state = "Succeeded" -> s.completed = total /\ s.failed = 0
         [] s.state = "CompletedWithFailures" -> s.completed = total /\ s.failed > 0
         [] OTHER -> s.completed < total

Ordinals(p) == DOMAIN p.items

-----------------------------------------------------------------------------
(* The repository's operations, each one transaction.  An operator gives    *)
(* the effects the transaction may have: none when it is refused.           *)

Live(item, now) == item.state = "claimed" /\ item.lease > now

\* item_is_eligible.
Eligible(item, now) == item.state = "pending" \/ (item.state = "claimed" /\ item.lease <= now)

SmallerOf(a, b) == IF a < b THEN a ELSE b

\* remaining_claim_capacity.
Capacity(command, now) ==
    LET live == Cardinality({o \in DOMAIN items : Live(items[o], now)})
    IN SmallerOf(IF live < plan.max_parallel THEN plan.max_parallel - live ELSE 0, command.limit)

\* eligible_assignments: the first eligible items; one of them that has no
\* attempt left refuses the whole claim.
Assignments(command, now) ==
    LET eligible == {o \in DOMAIN items : Eligible(items[o], now)}
        chosen == {o \in eligible :
                     Cardinality({q \in eligible : q < o}) < Capacity(command, now)}
    IN IF \E o \in chosen : items[o].attempt >= plan.max_attempts THEN {}
       ELSE {[o \in chosen |-> items[o].attempt + 1]}

Claimed(claim, revision, lease, assigned) ==
    {[ordinal |-> o, attempt |-> assigned[o], claim |-> claim, revision |-> revision, lease |-> lease]
        : o \in DOMAIN assigned}

\* BatchClaim::new.
ValidClaim(p, limit, now, lease, assigned) ==
    /\ limit <= p.max_claim /\ Cardinality(DOMAIN assigned) <= limit
    /\ now < p.deadline /\ lease <= p.deadline
    /\ lease > now /\ lease - now <= MaxClaimLease
    /\ \A o \in DOMAIN assigned : o \in Ordinals(p) /\ assigned[o] <= p.max_attempts

\* What a committed transaction leaves: the new rows, the mutation and the
\* receipt.
Effect(status, rows, registry, log, mutation, receipt) ==
    [batch |-> status, items |-> rows, accounts |-> registry, events |-> log,
     mutation |-> mutation, receipt |-> receipt]

Mutation(command, disposition, status, now, assigned) ==
    [command |-> command, disposition |-> disposition, status |-> status, at |-> now, assigned |-> assigned]

Planned == [state |-> "Planned", revision |-> 1, completed |-> 0, failed |-> 0]

Pending == [state |-> "pending", attempt |-> 0, claim |-> Absent, revision |-> 0, lease |-> 0,
            by |-> Absent, outcome |-> Absent, at |-> 0]

\* submit_tx: the plan under the key is created, replayed or in conflict.
Submitted(command) ==
    LET created == plan = Absent
        status == IF created THEN Planned ELSE batch
        disposition == IF created THEN "created" ELSE "replayed"
    IN IF ~created /\ plan # command.plan THEN {}
       ELSE {Effect(status, IF created THEN [o \in Ordinals(command.plan) |-> Pending] ELSE items,
                accounts, events, Mutation(command, disposition, status, 0, <<>>),
                [kind |-> "submission", disposition |-> disposition, status |-> status])}

\* claim_tx.
ClaimTx(command, now) ==
    LET status == [batch EXCEPT !.revision = @ + 1]
    IN IF \/ plan = Absent \/ batch.revision # command.expected \/ batch.state # "Running"
          \/ now >= command.lease \/ now >= plan.deadline \/ command.lease > plan.deadline
       THEN {}
       ELSE {Effect(status,
                [o \in DOMAIN items |->
                    IF o \in DOMAIN assigned
                    THEN [items[o] EXCEPT !.attempt = @ + 1, !.state = "claimed", !.claim = command.claim,
                                          !.revision = status.revision, !.lease = command.lease]
                    ELSE items[o]],
                accounts, events, Mutation(command, "committed", status, now, assigned),
                [kind |-> "claim", status |-> status,
                 items |-> Claimed(command.claim, status.revision, command.lease, assigned)])
             : assigned \in {a \in Assignments(command, now) :
                                ValidClaim(plan, command.limit, now, command.lease, a)}}

\* Mutant: the attempt and the revision of the claim are not compared.
LeaseMatchesById(claimed, item) == item.state = "claimed" /\ item.claim = claimed.claim

\* claimed_lease_matches.
LeaseMatches(claimed, item) ==
    /\ item.state = "claimed" /\ item.attempt = claimed.attempt /\ item.claim = claimed.claim
    /\ item.revision = claimed.revision /\ item.lease = claimed.lease

\* The kind of an outcome that is not a rejection: validate_outcome_intent.
Success(intent) == IF intent = "Execute" THEN "applied" ELSE "would_apply"

\* authoritative_result: the item's transition tried on the account.
authoritative_result(account, command, intent) ==
    IF account = Absent THEN [kind |-> "rejected", code |-> "AccountNotFound"]
    ELSE IF account.version # command.expected THEN [kind |-> "rejected", code |-> "VersionConflict"]
    ELSE IF NextStatus(account.status, command.action) = {} THEN [kind |-> "rejected", code |-> "InvalidTransition"]
    ELSE [kind |-> Success(intent),
          event |-> CHOOSE e \in Applied(account.version, account.status, command) : TRUE]

\* completion_status: the last completion ends the batch.
CompletionStatus(rejected, now, rows) ==
    LET completed == batch.completed + 1
        failed == batch.failed + IF rejected THEN 1 ELSE 0
        terminal == IF failed = 0 THEN "Succeeded" ELSE "CompletedWithFailures"
        ends == completed = Len(plan.items)
    IN {[state |-> s, revision |-> batch.revision + 1, completed |-> completed, failed |-> failed]
          : s \in IF ~ends THEN {batch.state} \ Terminals
                  ELSE IF \E o \in DOMAIN rows : Live(rows[o], now) THEN {}
                  ELSE NextLifecycle(batch.state, terminal, now, plan.deadline)}

\* complete_tx.
CompleteTx(command, now) ==
    LET c == command.claimed
        o == c.ordinal
        result == authoritative_result(accounts[plan.items[o].account], plan.items[o], plan.intent)
        rows == [items EXCEPT ![o].state = "completed", ![o].by = command.mutation,
                              ![o].outcome = result, ![o].at = now]
        applied == result.kind = "applied"
    IN IF plan = Absent \/ ~LeaseMatches(c, items[o]) \/ now >= c.lease \/ now >= plan.deadline THEN {}
       ELSE {Effect(status, rows,
                IF applied THEN [accounts EXCEPT ![plan.items[o].account] =
                                    [version |-> result.event.version, status |-> result.event.to]]
                ELSE accounts,
                IF applied THEN Append(events, [source |-> o, account |-> plan.items[o].account, event |-> result.event])
                ELSE events,
                Mutation(command, "committed", status, now, <<>>),
                [kind |-> "item_completion", claimed |-> c, result |-> result, at |-> now, status |-> status])
             : status \in CompletionStatus(result.kind = "rejected", now, rows)}

\* transition_tx: no claim may be live when the batch ends.
TransitionTx(command, now) ==
    IF plan = Absent \/ batch.revision # command.expected THEN {}
    ELSE {Effect(status, items, accounts, events, Mutation(command, command.transition, status, now, <<>>),
             [kind |-> "transition", status |-> status, at |-> now])
            : status \in {s \in {[batch EXCEPT !.state = l, !.revision = @ + 1]
                                   : l \in NextLifecycle(batch.state, command.transition, now, plan.deadline)} :
                            /\ s.state \in Terminals => ~\E o \in DOMAIN items : Live(items[o], now)
                            /\ ValidStatus(s, Len(plan.items))}}

-----------------------------------------------------------------------------
(* Receipts reconstructed from what is stored.                              *)

\* reconstruct_claim.
ReconstructedClaim(m) ==
    LET limit == IF m.assigned = <<>> THEN 1 ELSE Cardinality(DOMAIN m.assigned)
    IN IF /\ ValidClaim(plan, limit, m.at, m.command.lease, m.assigned)
          /\ m.status.state = "Running"
       THEN {[kind |-> "claim", status |-> m.status,
              items |-> Claimed(m.command.claim, m.status.revision, m.command.lease, m.assigned)]}
       ELSE {}

\* decode_outcome_result: a success is decided again from its own columns.
Redecided(item, command) ==
    IF item.outcome.kind = "rejected" THEN {item.outcome}
    ELSE {[kind |-> item.outcome.kind, event |-> e]
            : e \in Applied(item.outcome.event.version - 1, item.outcome.event.from, command)}

\* load_item_claim_mutation.
ClaimsOf(item) ==
    {m \in DOMAIN mutations :
        /\ mutations[m].command.kind = "claim" /\ mutations[m].command.claim = item.claim
        /\ mutations[m].status.revision = item.revision}

\* load_item_claim_assignment, reconstruct_claimed_outcome_item: the item as claim
\* mutation k handed it out.
ClaimedBy(k, o) ==
    LET m == mutations[k]
    IN {c \in Claimed(m.command.claim, m.status.revision, m.command.lease, m.assigned) :
          /\ c.ordinal = o /\ c.attempt = items[o].attempt
          /\ ValidClaim(plan, 1, m.at, m.command.lease, [q \in {o} |-> c.attempt])}

\* reconstruct_completion.
ReconstructedCompletion(id) ==
    LET m == mutations[id]
        o == m.command.claimed.ordinal
        item == items[o]
    IN IF \/ item.by # id \/ Cardinality(ClaimsOf(item)) # 1
          \/ item.outcome.kind \notin {"rejected", Success(plan.intent)}
          \/ item.outcome \notin Redecided(item, plan.items[o])
          \/ item.revision >= m.status.revision
       THEN {}
       ELSE {[kind |-> "item_completion", claimed |-> c, result |-> item.outcome, at |-> item.at, status |-> m.status]
               : c \in ClaimedBy(CHOOSE k \in ClaimsOf(item) : TRUE, o)}

\* reconstruct_mutation.
Reconstructed(id) ==
    LET m == mutations[id]
    IN CASE m.command.kind = "submission" ->
              IF m.disposition = "created" => m.status = Planned
              THEN {[kind |-> "submission", disposition |-> m.disposition, status |-> m.status]} ELSE {}
         [] m.command.kind = "claim" -> ReconstructedClaim(m)
         [] m.command.kind = "item_completion" -> ReconstructedCompletion(id)
         [] m.command.kind = "transition" ->
              IF m.status.revision = m.command.expected + 1 /\ m.status.state \in Reached(m.disposition)
              THEN {[kind |-> "transition", status |-> m.status, at |-> m.at]} ELSE {}

-----------------------------------------------------------------------------
(* Behaviour.                                                               *)

BatchInit ==
    /\ plan = Absent /\ batch = Planned /\ items = <<>>
    /\ mutations = <<>> /\ receipts = <<>>
    /\ accounts \in Registry
    /\ events = <<>>

\* Items handed out by any claim so far.
Handed == UNION {receipts[m].items : m \in {m \in DOMAIN receipts : receipts[m].kind = "claim"}}

\* execute_mutation, for a mutation id that is new.  An id that is in use is
\* answered with the reconstructed receipt, or refused for another command, and
\* changes nothing; nor does it matter here whether the answer arrives.
Commits(command, effects) ==
    /\ Len(mutations) < MaxMutations
    /\ \E e \in effects :
        /\ plan' = IF command.kind = "submission" THEN command.plan ELSE plan
        /\ batch' = e.batch /\ items' = e.items /\ accounts' = e.accounts /\ events' = e.events
        /\ mutations' = Append(mutations, e.mutation)
        /\ receipts' = Append(receipts, e.receipt)

\* A command is formed from anything its caller has ever read: the revision it
\* expects may be overtaken, and its claim may have expired.
NextMutation == Len(mutations) + 1

Submit ==
    \E p \in Plans :
        LET command == [mutation |-> NextMutation, kind |-> "submission", plan |-> p]
        IN Commits(command, Submitted(command))

Claim(now) ==
    \E r \in 1..batch.revision, l \in Instants, n \in 1..2 :
        LET command == [mutation |-> NextMutation, kind |-> "claim", expected |-> r, claim |-> "claim",
                        lease |-> l, limit |-> n]
        IN Commits(command, ClaimTx(command, now))

CompleteClaimedItem(now) ==
    \E h \in Handed :
        LET command == [mutation |-> NextMutation, kind |-> "item_completion", claimed |-> h]
        IN Commits(command, CompleteTx(command, now))

TransitionBatch(now) ==
    \E r \in 1..batch.revision, t \in Transitions :
        LET command == [mutation |-> NextMutation, kind |-> "transition", expected |-> r, transition |-> t]
        IN Commits(command, TransitionTx(command, now))

\* Another batch moves an account on.
AccountMoves(a) ==
    /\ accounts[a] # Absent /\ accounts[a].version < MaxMoves
    /\ \E action \in {"Activate", "Suspend"} :
       \E e \in Applied(accounts[a].version, accounts[a].status, [expected |-> accounts[a].version, action |-> action]) :
        accounts' = [accounts EXCEPT ![a] = [version |-> e.version, status |-> e.to]]
    /\ UNCHANGED <<plan, batch, items, mutations, events, receipts>>

BatchNext ==
    \/ Submit
    \/ \E now \in Instants : Claim(now) \/ CompleteClaimedItem(now) \/ TransitionBatch(now)
    \/ \E a \in DOMAIN accounts : AccountMoves(a)

BatchSpec == BatchInit /\ [][BatchNext]_batchVars

-----------------------------------------------------------------------------

\* A command whose answer was lost is answered later with the very receipt it
\* was committed with, whatever has happened to the batch and to its claims in
\* between: nothing a receipt is rebuilt from is overwritten.
BatchReceiptsStand == \A id \in DOMAIN mutations : Reconstructed(id) = {receipts[id]}

\* Expired leases, repeated completions and commands overtaken by others never
\* apply an item twice, nor without its outcome saying so; the counters and the
\* terminal state are those of the items.
BatchAccountsForItems ==
    plan # Absent =>
        /\ batch.completed = Cardinality({o \in DOMAIN items : items[o].state = "completed"})
        /\ batch.failed = Cardinality({o \in DOMAIN items : items[o].state = "completed" /\ items[o].outcome.kind = "rejected"})
        /\ ValidStatus(batch, Len(plan.items))
        /\ \A o \in DOMAIN items :
            LET applied == {n \in DOMAIN events : events[n].source = o} IN
            IF items[o].state = "completed" /\ items[o].outcome.kind = "applied"
            THEN \E n \in DOMAIN events : applied = {n} /\ events[n].event = items[o].outcome.event
            ELSE applied = {}

\* A batch answers for what it did: its receipts stand and its outcomes are those of
\* the items, whatever is late, lost or repeated.
BatchIsAccountable == BatchReceiptsStand /\ BatchAccountsForItems

=============================================================================
