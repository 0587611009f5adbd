--------------------------- MODULE AggregateStore ---------------------------
(***************************************************************************)
(* The durable side of one identity aggregate (ariadnion-storage-rnmdb:    *)
(* organization_repository.rs, user_repository.rs,                         *)
(* invitation_repository.rs and api_key_repository.rs).  A caller loads    *)
(* the aggregate, lets the domain decide, and commits by compare-and-swap  *)
(* in a later transaction that writes the snapshot, the event and its      *)
(* evidence.  When the outcome of the transaction is unknown the caller    *)
(* reconciles, perhaps after others have committed more.                   *)
(***************************************************************************)
EXTENDS AggregateLineage, FiniteSets

CONSTANTS
    Callers,      \* callers of the repository, one attempt each at a time
    MaxAttempts,  \* bound: attempts ever made, per kind
    NoAttempt

VARIABLES
    rows,      \* per version the request, its event and both snapshots
    attempt,   \* per caller
    made_by,   \* attempts made so far; the request identifiers are 1..made_by
    link,      \* the authenticator link of an API key
    bound      \* the principal binding the link was made for is active

authenticatorVars == <<link, bound>>
storeVars == <<kind, aggregate, rows, attempt, made_by, authenticatorVars>>

StoreInit ==
    /\ LineageInit
    /\ rows = <<>>
    /\ attempt = [c \in Callers |-> NoAttempt]
    /\ made_by = 0
    /\ link = "Absent" /\ bound = TRUE

\* The aggregate is loaded and a command decided on; a creation expects version
\* one.
Attempt(c) ==
    /\ attempt[c] = NoAttempt
    /\ made_by < MaxAttempts[kind] /\ made_by' = made_by + 1
    /\ \E t \in Decided(aggregate) :
        attempt' = [attempt EXCEPT ![c] =
            [doubt |-> FALSE, request |-> made_by + 1, plan |-> t,
             expected |-> IF t.previous = None THEN 1 ELSE aggregate.version]]
    /\ UNCHANGED <<kind, aggregate, rows, authenticatorVars>>

Accepted(a) ==
    CASE kind = "organization" -> Org!Accepts(aggregate, rows, a.plan, a.expected)
      [] kind = "user" -> Usr!Accepts(aggregate, rows, a.plan, a.expected)
      [] kind = "invitation" -> Inv!Accepts(aggregate, rows, a.plan, a.expected)
      [] kind = "api_key" -> Key!Accepts(aggregate, rows, a.plan, a.expected, link, bound)

Settled(c) == attempt' = [attempt EXCEPT ![c] = NoAttempt]

InDoubtFor(c) == attempt' = [attempt EXCEPT ![c].doubt = TRUE]

Row(a) ==
    [request |-> a.request, event |-> a.plan.event, previous |-> a.plan.previous, next |-> a.plan.next]

\* The paired evidence of an API key: it is linked when issued and unlinked when
\* it ends.
LinkAfter(t) ==
    CASE kind # "api_key" -> link
      [] t.event.kind = "Issued" -> "Active"
      [] t.event.kind \in {"Revoked", "Expired"} -> "Revoked"
      [] OTHER -> link

\* compare_and_commit: the transaction is refused or fails before its commit,
\* commits, or ends with its outcome unknown.
CommitRefused(c) ==
    /\ attempt[c] # NoAttempt /\ ~attempt[c].doubt
    /\ Settled(c)
    /\ UNCHANGED <<kind, aggregate, rows, made_by, authenticatorVars>>

CommitTakes(c) ==
    /\ attempt[c] # NoAttempt /\ ~attempt[c].doubt /\ Accepted(attempt[c])
    /\ aggregate' = attempt[c].plan.next
    /\ rows' = [v \in DOMAIN rows \cup {attempt[c].plan.next.version} |->
                  IF v = attempt[c].plan.next.version THEN Row(attempt[c]) ELSE rows[v]]
    /\ Settled(c) \/ InDoubtFor(c)
    /\ link' = LinkAfter(attempt[c].plan)
    /\ UNCHANGED <<kind, made_by, bound>>

CommitUnknown(c) ==
    /\ attempt[c] # NoAttempt /\ ~attempt[c].doubt /\ Accepted(attempt[c])
    /\ InDoubtFor(c)
    /\ UNCHANGED <<kind, aggregate, rows, made_by, authenticatorVars>>

\* reconcile_commit: whether it answers with a receipt.
Confirmed(a) ==
    CASE kind = "organization" -> Org!Confirms(aggregate, rows, a.plan, a.request)
      [] kind = "user" -> Usr!Confirms(aggregate, rows, a.plan, a.request)
      [] kind = "invitation" -> Inv!Confirms(aggregate, rows, a.plan, a.request)
      [] kind = "api_key" -> Key!Confirms(aggregate, rows, a.plan, a.request, link)

\* Both answers end the attempt; a failure to read may be retried.
ReconcileAnswers(c) ==
    /\ attempt[c] # NoAttempt /\ attempt[c].doubt
    /\ Settled(c)
    /\ UNCHANGED <<kind, aggregate, rows, made_by, authenticatorVars>>

\* The authenticator repository revokes the link of a key; the binding of its
\* principal is revoked.
LinkSevered ==
    /\ link = "Active" /\ link' = "Revoked"
    /\ UNCHANGED <<kind, aggregate, rows, attempt, made_by, bound>>

BindingRevoked ==
    /\ kind = "api_key" /\ bound /\ bound' = FALSE
    /\ UNCHANGED <<kind, aggregate, rows, attempt, made_by, link>>

StoreNext ==
    \/ \E c \in Callers :
        Attempt(c) \/ CommitRefused(c) \/ CommitTakes(c) \/ CommitUnknown(c) \/ ReconcileAnswers(c)
    \/ LinkSevered \/ BindingRevoked

StoreSpec == StoreInit /\ [][StoreNext]_storeVars

\* Two callers that decided on the same snapshot do not both commit: every
\* change of the durable aggregate is one decision of the domain on what it
\* replaces, and nothing else changes it.  This is LineageSpec, which sees a
\* stutter for itself.
StoreFollowsTheDomain == LineageInit /\ [][UNCHANGED lineageVars \/ LineageNext]_lineageVars

\* A caller in doubt is told the truth, however many transactions others have
\* committed since: reconciliation confirms exactly the transition that took
\* effect, with its own request.  Only a live API key whose link was revoked
\* under it is not confirmed any more.
ReconciliationIsExact ==
    \A c \in Callers : LET a == attempt[c] IN
        a # NoAttempt /\ a.doubt =>
            (Confirmed(a) <=> /\ \E v \in DOMAIN rows : rows[v] = Row(a)
                              /\ kind = "api_key" /\ Key!Usable(aggregate) => link = "Active")

=============================================================================
