------------------------------- MODULE Outbox -------------------------------
(***************************************************************************)
(* The transactional outbox (ariadnion-storage-outbox, and outbox.rs of    *)
(* ariadnion-storage-rnmdb) of one tenant.  Clients enqueue messages in    *)
(* their own transaction; workers claim bounded batches under a lease and  *)
(* settle each lease with its token.  Every operation runs inside the      *)
(* session's only transaction, which its client then commits, rolls back   *)
(* or loses in doubt; what the operation returned stays with the client in *)
(* each case.  Clients pass their own clock readings, in any order.        *)
(*                                                                         *)
(* A token is an HMAC over the fields below; only equality of tokens is    *)
(* used, so it is the record of those fields.                              *)
(***************************************************************************)
EXTENDS Naturals, FiniteSets, FiniteSetsExt

CONSTANTS
    Messages,       \* what clients enqueue: records [event, key, created]
    Clients,
    NoClient,
    NoToken,
    Times,          \* clock readings
    Limit,          \* size of a claimed batch
    LeaseDuration,
    MaxAttempt,     \* u32::MAX
    MaxClaims       \* bound: leases ever committed, and tokens ever returned

ASSUME OutboxAssumption ==
    /\ \A m \in Messages : m.event \in Nat /\ m.created \in Nat
    /\ NoClient \notin Clients
    /\ Times \subseteq Nat
    /\ Limit \in Nat \ {0} /\ LeaseDuration \in Nat \ {0} /\ MaxAttempt \in Nat /\ MaxClaims \in Nat

VARIABLES
    store,   \* the committed table, with the history of what was committed
    work,    \* the same, as the active transaction sees it
    client,      \* the client of the active transaction
    held     \* lease tokens that claims have returned

outboxVars == <<store, work, client, held>>

Events == {m.event : m \in Messages}
Token == [event : Events, worker : Clients, attempt : Nat, expires : Nat]

ASSUME NoTokenAssumption == NoToken \notin Token

\* rows is a function on the stored events.  The rest is history: claims and
\* settlements that succeeded, and events whose enqueue was acknowledged.
Empty == [rows |-> <<>>, claims |-> {}, settled |-> {}, acked |-> {}]

OutboxInit ==
    /\ store = Empty /\ work = Empty
    /\ client = NoClient
    /\ held = {}

Stored == DOMAIN work.rows

-----------------------------------------------------------------------------
(* Transactions.                                                           *)

BeginOutbox(c) ==
    /\ client = NoClient
    /\ client' = c
    /\ work' = store
    /\ UNCHANGED <<store, held>>

\* COMMIT, ROLLBACK, or a COMMIT whose outcome is not known.
FinishOutbox ==
    /\ client # NoClient
    /\ client' = NoClient
    /\ store' \in {store, work}
    /\ work' = store'
    /\ UNCHANGED held

-----------------------------------------------------------------------------
(* Enqueue.                                                                *)

\* Rows that the lookup by event or by key finds.
Colliding(m) == {e \in Stored : e = m.event \/ work.rows[e].key = m.key}

Matches(e, m) == e = m.event /\ work.rows[e].key = m.key

Insert(m) ==
    [e \in Stored \cup {m.event} |->
        IF e # m.event THEN work.rows[e]
        ELSE [key |-> m.key, created |-> m.created, available |-> m.created, attempt |-> 0,
              state |-> "pending", token |-> NoToken, expires |-> 0]]

\* Inserted, or AlreadyExists when the only row found is this message's; any
\* other collision is a conflict and changes nothing.
Enqueue(m) ==
    /\ client # NoClient
    /\ \/ /\ Colliding(m) = {}
          /\ work' = [work EXCEPT !.rows = Insert(m), !.acked = @ \cup {m.event}]
       \/ /\ Cardinality(Colliding(m)) = 1
          /\ \A e \in Colliding(m) : Matches(e, m)
          /\ work' = [work EXCEPT !.acked = @ \cup {m.event}]
    /\ UNCHANGED <<store, client, held>>

-----------------------------------------------------------------------------
(* Claim.                                                                  *)

Claimable(row, now) ==
    \/ row.state = "pending" /\ row.available <= now
    \/ row.state = "leased" /\ row.expires <= now

Due(now) == {e \in Stored : Claimable(work.rows[e], now)}

\* ORDER BY created_at, event_id.
Before(e, f) ==
    \/ work.rows[e].created < work.rows[f].created
    \/ work.rows[e].created = work.rows[f].created /\ e < f

\* The events of S are the first ones of those in T.
Leads(S, T) == S \subseteq T /\ \A e \in S, f \in T \ S : Before(e, f)

\* LIMIT.
Batches(now) ==
    {S \in SUBSET Due(now) : Leads(S, Due(now)) /\ Cardinality(S) = Min({Limit, Cardinality(Due(now))})}

\* Mutant: the lease token leaves out the attempt.
TokenWithoutAttempt(c, e, expires) == [event |-> e, worker |-> c, attempt |-> 0, expires |-> expires]

derive_lease_token(c, e, expires) ==
    [event |-> e, worker |-> c, attempt |-> work.rows[e].attempt + 1, expires |-> expires]

Leased(c, e, expires) ==
    [work.rows[e] EXCEPT !.state = "leased", !.token = derive_lease_token(c, e, expires),
                         !.expires = expires, !.attempt = @ + 1]

\* The candidates are decoded before the first is updated, and an attempt
\* counter at its limit fails them all.  A failing UPDATE leaves those before
\* it claimed in the transaction, and the client without any token.
Claim(c, now) ==
    LET expires == now + LeaseDuration IN
    /\ client = c
    /\ \E batch \in Batches(now) : \E claimed \in (SUBSET batch) \ {{}} :
        /\ \A e \in batch : work.rows[e].attempt < MaxAttempt
        /\ Leads(claimed, batch)
        /\ Cardinality(work.claims) + Cardinality(claimed) <= MaxClaims
        /\ work' = [work EXCEPT
            !.rows = [e \in Stored |-> IF e \in claimed THEN Leased(c, e, expires) ELSE @[e]],
            !.claims = @ \cup {[event |-> e, attempt |-> work.rows[e].attempt + 1, worker |-> c,
                                at |-> now, until |-> expires] : e \in claimed}]
        /\ held' = IF claimed = batch THEN held \cup {derive_lease_token(c, e, expires) : e \in claimed}
                   ELSE held
        /\ Cardinality(held') <= MaxClaims
    /\ UNCHANGED <<store, client>>

-----------------------------------------------------------------------------
(* Settlement.                                                             *)

Owned(t) == {e \in Stored : work.rows[e].token = t /\ work.rows[e].state = "leased"}

Outcome == {"delivered", "pending", "dead"}

SettledRow(row, outcome, at) ==
    [row EXCEPT !.state = outcome, !.token = NoToken, !.expires = 0,
                !.available = IF outcome = "pending" THEN at ELSE @]

\* mark_delivered, release_for_retry and dead_letter.  A token that no leased
\* row has is answered with NotFound.
settle(c, t, outcome, at) ==
    /\ client = c /\ t.worker = c
    /\ Cardinality(Owned(t)) = 1
    /\ work' = [work EXCEPT
        !.rows = [e \in Stored |-> IF e \in Owned(t) THEN SettledRow(@[e], outcome, at) ELSE @[e]],
        !.settled = @ \cup {[event |-> e, attempt |-> work.rows[e].attempt, worker |-> c,
                             token |-> t, outcome |-> outcome] : e \in Owned(t)}]
    /\ UNCHANGED <<store, client, held>>

OutboxNext ==
    \/ \E c \in Clients : BeginOutbox(c)
    \/ FinishOutbox
    \/ \E m \in Messages : Enqueue(m)
    \/ \E c \in Clients, now \in Times : Claim(c, now)
    \/ \E c \in Clients, t \in held, outcome \in Outcome, at \in Times : settle(c, t, outcome, at)

OutboxSpec == OutboxInit /\ [][OutboxNext]_outboxVars

-----------------------------------------------------------------------------
(* Properties.                                                             *)

Row == [key : {m.key : m \in Messages}, created : Nat, available : Nat, attempt : Nat,
        state : {"leased"} \cup Outcome, token : Token \cup {NoToken}, expires : Nat]

StoreTyped(s) ==
    /\ DOMAIN s.rows \subseteq Events
    /\ \A e \in DOMAIN s.rows : s.rows[e] \in Row
    /\ \A e \in DOMAIN s.rows : (s.rows[e].token = NoToken) = (s.rows[e].state # "leased")

\* Rows are well formed, in the database and in the open transaction; exactly
\* the leased ones have a token.
OutboxTypeOK ==
    /\ StoreTyped(store) /\ StoreTyped(work)
    /\ client \in Clients \cup {NoClient}
    /\ held \subseteq Token
    /\ client = NoClient => work = store

\* What a transaction that is committed acknowledged is not lost, and one
\* idempotency key stands for one message.
EnqueuedOnce ==
    /\ store.acked = DOMAIN store.rows
    /\ \A e, f \in DOMAIN store.rows : store.rows[e].key = store.rows[f].key => e = f

\* By the clocks of those who claim, a message is under one lease at a time:
\* the next claim comes after the last lease expired, or was settled for retry.
LeasesDoNotOverlap ==
    \A c, d \in store.claims : c.event = d.event /\ d.attempt = c.attempt + 1 =>
        \/ c.until <= d.at
        \/ \E s \in store.settled : s.event = c.event /\ s.attempt = c.attempt /\ s.outcome = "pending"

\* A lease is settled at most once, by the worker whose claim it was, however
\* often tokens are used again, claims rolled back or outcomes in doubt.
SettledOnce ==
    /\ \A s, r \in store.settled : s.token = r.token => s = r
    /\ \A s \in store.settled : \E c \in store.claims :
        c.event = s.event /\ c.attempt = s.attempt /\ c.worker = s.worker

\* A message is stored once, leased to one worker at a time and settled once per
\* lease.
DeliveredOnce == EnqueuedOnce /\ LeasesDoNotOverlap /\ SettledOnce

=============================================================================
