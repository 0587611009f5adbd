----------------------------- MODULE Invitation -----------------------------
(***************************************************************************)
(* Invitations (ariadnion-invitation) and what their repository checks     *)
(* (ariadnion-storage-rnmdb: invitation_repository.rs).  An invitation is  *)
(* issued once and then consumed, revoked or expired, once.  Its subject   *)
(* and token digests are those of the user it is meant for.                *)
(***************************************************************************)
EXTENDS Integers, FiniteSets

CONSTANTS
    Users,
    Principals,
    Times,         \* UTC seconds, as the commands state them
    MaxLifetime,   \* MAX_INVITATION_LIFETIME_SECONDS
    None           \* no consumer; no previous snapshot

\* InvitationSnapshot.
Snapshot ==
    [version : {1, 2}, state : {"Issued", "Consumed", "Revoked", "Expired"}, issuer : Principals,
     subject : Users, issued : Times, expires : Times, consumer : Users \cup {None}]

\* InvitationTransition.
Transition(previous, next, actor, at, kind, user) ==
    [previous |-> previous, next |-> next,
     event |-> [version |-> next.version, actor |-> actor, at |-> at, kind |-> kind, user |-> user]]

ValidLifetime(i) == i.expires - i.issued \in 1..MaxLifetime

\* issue.
Issue(issuer, subject, at, expires) ==
    LET i == [version |-> 1, state |-> "Issued", issuer |-> issuer, subject |-> subject,
              issued |-> at, expires |-> expires, consumer |-> None]
    IN IF ValidLifetime(i) THEN {Transition(None, i, issuer, at, "Issued", None)} ELSE {}

Advance(i, state, consumer) == [i EXCEPT !.version = @ + 1, !.state = state, !.consumer = consumer]

\* The checks every command passes, in this order: scope, version, time, state.
Open(i, expected, at) == i.version = expected /\ at >= i.issued /\ i.state = "Issued"

\* apply_consumption: before the deadline, by the user whose digests match.
Consume(i, expected, actor, at, user) ==
    IF Open(i, expected, at) /\ at < i.expires /\ user = i.subject
    THEN {Transition(i, Advance(i, "Consumed", user), actor, at, "Consumed", user)} ELSE {}

Revoke(i, expected, actor, at) ==
    IF Open(i, expected, at) /\ at < i.expires
    THEN {Transition(i, Advance(i, "Revoked", None), actor, at, "Revoked", None)} ELSE {}

Expire(i, expected, actor, at) ==
    IF Open(i, expected, at) /\ at >= i.expires
    THEN {Transition(i, Advance(i, "Expired", None), actor, at, "Expired", None)} ELSE {}

Decisions(i) ==
    UNION {Revoke(i, i.version, a, at) \cup Expire(i, i.version, a, at)
             \cup UNION {Consume(i, i.version, a, at, u) : u \in Users} : a \in Principals, at \in Times}

Creations == UNION {Issue(p, u, at, e) : p \in Principals, u \in Users, at \in Times, e \in Times}

\* from_snapshot.
ValidSnapshot(i) ==
    /\ ValidLifetime(i)
    /\ \/ i.version = 1 /\ i.state = "Issued" /\ i.consumer = None
       \/ i.version = 2 /\ i.state = "Consumed" /\ i.consumer # None
       \/ i.version = 2 /\ i.state \in {"Revoked", "Expired"} /\ i.consumer = None

-----------------------------------------------------------------------------
(* The repository.                                                         *)

\* verify_issuance.
IssuanceFits(i, e) ==
    e.version = 1 /\ e.kind = "Issued" /\ e.actor = i.issuer /\ e.at = i.issued /\ e.user = None

\* verify_terminal.
TerminalFits(i, e) ==
    /\ e.version = 2 /\ e.kind = i.state /\ e.user = i.consumer
    /\ IF e.kind = "Expired" THEN e.at >= i.expires
       ELSE e.kind \in {"Consumed", "Revoked"} /\ e.at >= i.issued /\ e.at < i.expires

\* load_invitation_with_history.
Loads(i, rows) ==
    /\ ValidSnapshot(i)
    /\ DOMAIN rows = 1..i.version
    /\ IssuanceFits(i, rows[1].event)
    /\ i.version = 2 => TerminalFits(i, rows[2].event)

\* immutable_snapshot_matches.
SameInvitation(i, j) ==
    i.issuer = j.issuer /\ i.subject = j.subject /\ i.issued = j.issued /\ i.expires = j.expires

\* valid_lifecycle_matrix.
Matrix(t) == t.event.kind = t.next.state /\ t.event.user = t.next.consumer

\* validate_commit_request and commit_transition.
Accepts(i, rows, t, expected) ==
    /\ Matrix(t)
    /\ IF t.event.kind = "Issued"
       THEN /\ expected = 1 /\ t.event.actor = t.next.issuer /\ t.event.at = t.next.issued
            /\ i = None
       ELSE /\ t.next.version = expected + 1
            /\ i # None /\ Loads(i, rows)
            /\ i.version = expected /\ i.state = "Issued" /\ i.consumer = None
            /\ SameInvitation(i, t.next)

\* The evidence of a version is found by the digest of the request, the event
\* and the snapshot.
Evidenced(rows, v, request, event, i) ==
    rows[v].request = request /\ rows[v].event = event /\ rows[v].next = i

\* reconcile_exact.
Confirms(i, rows, t, request) ==
    LET v == t.next.version
    IN /\ i # None /\ Loads(i, rows)
       /\ \/ i = t.next
          \/ v = 1 /\ t.next.state = "Issued" /\ i.version = 2 /\ SameInvitation(t.next, i)
       /\ v \in DOMAIN rows
       /\ Evidenced(rows, v, request, t.event, t.next)
       /\ i.version > v => Evidenced(rows, 2, rows[2].request, rows[2].event, i)

=============================================================================
