---------------------------- MODULE SessionStore ----------------------------
(***************************************************************************)
(* The durable side of one session family (ariadnion-storage-rnmdb:        *)
(* session_repository.rs).  A request loads the family, decides on the     *)
(* snapshot, and commits by compare-and-swap in a later transaction; when  *)
(* the outcome of that transaction is unknown it reconciles against the    *)
(* recorded evidence.  A transaction writes the family, its event, the     *)
(* audit and outbox evidence and the principal's authenticator link        *)
(* together.  The principal binding, and the link by way of its own        *)
(* repository, may change in between.                                      *)
(***************************************************************************)
EXTENDS SessionFamily

CONSTANTS
    Requests,   \* requests in flight at a time
    Lifetimes,  \* absolute expiries a family is issued with
    Owner,      \* the principal the family is issued to
    Clocks,     \* readings of the committing host's clock
    MaxRequests, \* bound: requests ever made
    NoFamily,
    NoPlan

ASSUME StoreAssumption == Owner \in Actors /\ Clocks \subseteq Int /\ MaxRequests \in Nat /\ Lifetimes \subseteq Times

\* A snapshot is not its absence.
ASSUME NoFamilyAssumption == NoFamily \notin Families

VARIABLES
    family,    \* the durable snapshot, or NoFamily
    history,   \* per version the event, the digested snapshot, and the commit time
    link,      \* the authenticator link: its state and its two facts
    bound,     \* the principal binding is the active one the link was made for
    request,   \* the requests
    made       \* requests made so far

sessionVars == <<family, history, link, bound, request, made>>

NoFact == [actor |-> Owner, at |-> 0, clock |-> 0]
NoLink == [state |-> "Absent", linked |-> NoFact, revoked |-> NoFact]

IdleRequest == [pc |-> "Idle", plan |-> NoPlan, expected |-> 0, result |-> "None"]

SessionInit ==
    /\ family = NoFamily
    /\ history = <<>>
    /\ link = NoLink
    /\ bound = TRUE
    /\ made = 0
    /\ request = [r \in Requests |-> IdleRequest]

Terminal == {"ReuseRevoked", "Revoked", "Expired"}

Start(r, t, expected) ==
    request' = [request EXCEPT ![r] =
        [pc |-> "Ready", plan |-> t, expected |-> expected, result |-> "None"]]

\* The transaction may or may not have taken effect.
InDoubt(r) == request' = [request EXCEPT ![r].pc = "Doubt"]

\* A request ends.  Only one that ends with a receipt is remembered.
Answer(r, result) ==
    request' = [request EXCEPT ![r] =
        IF result = "Committed" THEN [pc |-> "Done", plan |-> @.plan, expected |-> 0, result |-> result]
        ELSE IdleRequest]

\* load_family: the snapshot and its events are verified on every load.
Loads == ValidSnapshot(family) /\ EventsMatch(family, [v \in DOMAIN history |-> history[v].event])

\* Load and decide.  The commands are those of the port's callers, which are
\* outside of this module: any command at any time, and issuances of the
\* family, perhaps repeated, before there is one.
Plan(r) ==
    /\ request[r].pc \in {"Idle", "Done"}
    /\ made < MaxRequests /\ made' = made + 1
    /\ \/ /\ family = NoFamily
          /\ \E id \in Leaves, at, idle \in Times, absolute \in Lifetimes :
                \E t \in Issue(id, Owner, at, idle, absolute) : Start(r, t, 1)
       \/ /\ family # NoFamily /\ Loads
          /\ \E c \in Commands : \E t \in Decide(family, c, family.version) :
                Start(r, t, family.version)
    /\ UNCHANGED <<family, history, link, bound>>

Fact(t, clock) == [actor |-> t.event.actor, at |-> t.event.at, clock |-> clock]

\* paired_active_session_authenticator: the link is active and pairs with the
\* evidence of the issuance, which is looked up by the rebuilt first snapshot.
PairedActive ==
    /\ history[1].family = FamilyAt(family, 1)
    /\ link.state = "Active"
    /\ link.linked = Fact(history[1], history[1].clock)

\* What compare_and_commit requires before it writes: commit_issuance and
\* commit_update.  Its refusals (a conflict or an integrity failure) change
\* nothing.
Accepts(r) ==
    LET t == request[r].plan
    IN IF t.event.kind = "Issued" THEN bound /\ family = NoFamily
       ELSE /\ Loads
            /\ family.version = request[r].expected
            /\ Replay(family, t, request[r].expected) = {t}
            /\ PairedActive
            /\ t.event.kind = "Rotated" => t.event.actor = Owner /\ bound

\* Mutant: an expired family keeps its link.
LinkAfterUnlessExpired(t, clock) ==
    CASE t.event.kind = "Issued" -> [NoLink EXCEPT !.state = "Active", !.linked = Fact(t, clock)]
      [] t.event.kind \in {"ReuseRevoked", "Revoked"} -> [link EXCEPT !.state = "Revoked", !.revoked = Fact(t, clock)]
      [] OTHER -> link

LinkAfter(t, clock) ==
    CASE t.event.kind = "Issued" -> [NoLink EXCEPT !.state = "Active", !.linked = Fact(t, clock)]
      [] t.event.kind \in Terminal -> [link EXCEPT !.state = "Revoked", !.revoked = Fact(t, clock)]
      [] OTHER -> link

Persist(r) ==
    LET t == request[r].plan
    IN \E clock \in Clocks :
        /\ family' = t.family
        /\ history' = Append(history, [event |-> t.event, family |-> t.family, clock |-> clock])
        /\ link' = LinkAfter(t, clock)

\* compare_and_commit, one transaction: refused or failed before its commit,
\* committed, or in doubt.
Refuse(r) ==
    /\ request[r].pc = "Ready"
    /\ Answer(r, "NoReceipt")
    /\ UNCHANGED <<family, history, link, bound, made>>

Commit(r) ==
    /\ request[r].pc = "Ready" /\ Accepts(r)
    /\ Persist(r)
    /\ Answer(r, "Committed") \/ InDoubt(r)
    /\ UNCHANGED <<bound, made>>

CommitLost(r) ==
    /\ request[r].pc = "Ready" /\ Accepts(r)
    /\ InDoubt(r)
    /\ UNCHANGED <<family, history, link, bound, made>>

-----------------------------------------------------------------------------
(* reconcile_commit: read-only, from a fresh session.                      *)

\* The evidence of a version is found by the rebuilt snapshot.
Evidenced(v) == history[v].family = FamilyAt(family, v)

\* Mutant: only the version and the kind of the event are compared.
TargetByVersion(t) ==
    /\ family.version \in {t.family.version, t.family.version + 1}
    /\ history[t.family.version].event.kind = t.event.kind

\* authenticate_reconciliation_target and its evidence.
TargetMatches(t) ==
    LET v == t.family.version
    IN /\ family.version \in {v, v + 1}
       /\ FamilyAt(family, v) = t.family
       /\ history[v].event = t.event
       /\ Evidenced(v)

\* verify_optional_successor and the issuance evidence, in commit order.
InOrder(v) ==
    /\ family.version = v + 1 => Evidenced(v + 1) /\ history[v + 1].clock >= history[v].clock
    /\ v > 1 => Evidenced(1) /\ history[v].clock >= history[1].clock

\* The version that ended the family, if the target or its successor did.
EndedAt(v) == {w \in {v, v + 1} \cap DOMAIN history : history[w].event.kind \in Terminal}

LinkMatches(v) ==
    /\ link.linked = Fact(history[1], history[1].clock)
    /\ \A w \in DOMAIN history : history[w].event.kind = "Rotated" => history[w].event.actor = Owner
    /\ IF EndedAt(v) = {} THEN link.state = "Active"
       ELSE link.state = "Revoked" /\ \A w \in EndedAt(v) : link.revoked = Fact(history[w], history[w].clock)

Confirms(t) ==
    /\ family # NoFamily /\ Loads
    /\ TargetMatches(t)
    /\ InOrder(t.family.version)
    /\ LinkMatches(t.family.version)

Reconcile(r) ==
    /\ request[r].pc = "Doubt"
    /\ Answer(r, IF Confirms(request[r].plan) THEN "Committed" ELSE "NoReceipt")
    /\ UNCHANGED <<family, history, link, bound, made>>

-----------------------------------------------------------------------------
(* Other repositories.                                                     *)

\* The principal binding is revoked, for good.
BindingChanges ==
    /\ bound /\ bound' = FALSE
    /\ UNCHANGED <<family, history, link, request, made>>

\* The authenticator repository revokes the link of its own.  Its fact is of no
\* consequence: the family can no longer end, so nothing is compared with it.
RevokeLink ==
    /\ link.state = "Active"
    /\ link' = [link EXCEPT !.state = "Revoked"]
    /\ UNCHANGED <<family, history, bound, request, made>>

SessionNext ==
    \/ \E r \in Requests : Plan(r) \/ Refuse(r) \/ Commit(r) \/ CommitLost(r) \/ Reconcile(r)
    \/ BindingChanges \/ RevokeLink

SessionSpec == SessionInit /\ [][SessionNext]_sessionVars

-----------------------------------------------------------------------------
(* Properties.                                                             *)

\* A receipt, given at once or by reconciliation, is true whatever happened
\* since the snapshot was loaded: the transition is in the durable history as
\* it was decided, at the version it was decided for.
ReceiptsAreTrue ==
    \A r \in Requests : LET t == request[r].plan IN
        request[r].result = "Committed" =>
            /\ t.family.version \in DOMAIN history
            /\ history[t.family.version].event = t.event
            /\ history[t.family.version].family = t.family

\* What was committed can be loaded: no transition leads to a snapshot or a
\* history that the verification on load refuses.  And every snapshot that was
\* ever committed can be rebuilt from the latest, also after a revocation or an
\* expiry has overwritten the state of every leaf; the evidence of a version is
\* found by the digest of the rebuilt snapshot.
HistoryRebuilds ==
    family # NoFamily =>
        /\ Loads
        /\ \A v \in DOMAIN history : FamilyAt(family, v) = history[v].family

\* Whatever command led to it, the repository can replay a transition on the
\* version it was decided on, and arrives at the same one.
ReplayAgrees ==
    \A r \in Requests : LET q == request[r] IN
        q.pc = "Ready" /\ q.plan.event.kind # "Issued" /\ family.version = q.expected =>
            Replay(family, q.plan, q.expected) = {q.plan}

Rotations == {r \in Requests : request[r].result = "Committed" /\ request[r].plan.event.kind = "Rotated"}

\* One token buys one successor: two confirmed rotations of the same leaf are
\* the same rotation, and none is confirmed for a leaf of a family that was
\* ended before.
TokensRotateOnce ==
    /\ \A r, s \in Rotations :
        Last(request[r].plan.family.rotated).id = Last(request[s].plan.family.rotated).id
            => request[r].plan = request[s].plan
    /\ \A v, w \in DOMAIN history : v < w => history[v].event.kind \notin Terminal

\* What a caller was told is on record, no token was honoured twice, and every
\* version can be rebuilt from the latest and replayed from its predecessor.
FamilyIsOnRecord == ReceiptsAreTrue /\ TokensRotateOnce /\ HistoryRebuilds /\ ReplayAgrees

\* An ended family leaves no live authenticator link behind, and cannot be
\* brought back.
EndedStaysEnded ==
    [][family # NoFamily /\ family.state # "Active" =>
          link.state = "Revoked" /\ UNCHANGED <<family, link>>]_sessionVars

=============================================================================
