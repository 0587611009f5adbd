------------------------------- MODULE ApiKey -------------------------------
(***************************************************************************)
(* API keys (ariadnion-auth-api-key) and what their repository checks      *)
(* (ariadnion-storage-rnmdb: api_key_repository.rs).  A key has a current  *)
(* secret and, while it rotates, the previous one; secrets it retired are  *)
(* kept so that they are never taken again.  The version of a key is a     *)
(* function of its state and of how many secrets it retired.               *)
(***************************************************************************)
EXTENDS Integers, Sequences, FiniteSets

CONSTANTS
    Secrets,       \* digests of secrets
    Principals,
    Times,         \* UTC seconds, as the commands state them
    Never,         \* no expiry
    MaxLifetime,   \* MAX_API_KEY_LIFETIME_SECONDS
    MaxOverlap,    \* MAX_OVERLAP_SECONDS
    MaxRetired,    \* MAX_RETIRED_SECRETS
    None           \* no previous secret; no previous snapshot

\* ApiKeySnapshot.
Snapshot ==
    [version : Nat, state : {"Active", "Rotating", "Revoked", "Expired"}, current : Secrets,
     previous : Secrets \cup {None}, started : Times \cup {None}, overlap : Times \cup {None},
     retired : Seq(Secrets), issued : Times, expires : Times \cup {Never}]

\* ApiKeyTransition.
Transition(previous, next, actor, at, kind) ==
    [previous |-> previous, next |-> next,
     event |-> [version |-> next.version, actor |-> actor, at |-> at, kind |-> kind]]

\* validate_validity_window.
ValidWindow(k) == k.expires # Never => k.expires - k.issued \in 1..MaxLifetime

\* issue_api_key.
Issue(actor, secret, at, expires) ==
    LET k == [version |-> 1, state |-> "Active", current |-> secret, previous |-> None, started |-> None,
              overlap |-> None, retired |-> <<>>, issued |-> at, expires |-> expires]
    IN IF ValidWindow(k) THEN {Transition(None, k, actor, at, "Issued")} ELSE {}

Expired(k, at) == k.expires # Never /\ at >= k.expires

Usable(k) == k.state \in {"Active", "Rotating"}

Retired(k) == {k.retired[n] : n \in DOMAIN k.retired}

\* validate_overlap_window.
ValidOverlap(k, at, overlap) ==
    overlap - at \in 1..MaxOverlap /\ (k.expires # Never => overlap <= k.expires)

\* apply_rotation.
Rotate(k, actor, at, secret, overlap) ==
    IF /\ at >= k.issued /\ k.state = "Active" /\ ~Expired(k, at)
       /\ ValidOverlap(k, at, overlap)
       /\ secret \notin {k.current, k.previous} \cup Retired(k)
       /\ Len(k.retired) < MaxRetired
    THEN {Transition(k, [k EXCEPT !.version = @ + 1, !.state = "Rotating", !.current = secret,
                                  !.previous = k.current, !.started = at, !.overlap = overlap],
            actor, at, "Rotated")}
    ELSE {}

\* retire_previous_secret and advance: the previous secret, if there is one and
\* room for it, is retired.
Retiring(k, state, actor, at, kind) ==
    IF k.previous # None /\ Len(k.retired) >= MaxRetired THEN {}
    ELSE {Transition(k, [k EXCEPT !.version = @ + 1, !.state = state, !.previous = None, !.started = None,
                                  !.overlap = None,
                                  !.retired = IF k.previous = None THEN @ ELSE Append(@, k.previous)],
            actor, at, kind)}

\* apply_complete_rotation.
CompleteRotation(k, actor, at) ==
    IF at >= k.issued /\ k.state = "Rotating" /\ at >= k.overlap
    THEN Retiring(k, "Active", actor, at, "RotationCompleted") ELSE {}

\* apply_revoke.
Revoke(k, actor, at) ==
    IF at >= k.issued /\ Usable(k) THEN Retiring(k, "Revoked", actor, at, "Revoked") ELSE {}

\* apply_expire.
Expire(k, actor, at) ==
    IF at >= k.issued /\ Usable(k) /\ Expired(k, at) THEN Retiring(k, "Expired", actor, at, "Expired") ELSE {}

Decisions(k) ==
    UNION {CompleteRotation(k, a, at) \cup Revoke(k, a, at) \cup Expire(k, a, at)
             \cup UNION {Rotate(k, a, at, s, o) : s \in Secrets, o \in Times} : a \in Principals, at \in Times}

Creations == UNION {Issue(p, s, at, e) : p \in Principals, s \in Secrets, at \in Times, e \in Times \cup {Never}}

\* Mutant: the state of the key is not looked at.
HonoursEnded(k, secret, at) ==
    /\ at >= k.issued /\ ~Expired(k, at)
    /\ secret = k.current \/ (secret = k.previous /\ at < k.overlap)

\* verify_api_key_presentation, for a presentation that names the key.
Honours(k, secret, at) ==
    /\ Usable(k) /\ at >= k.issued /\ ~Expired(k, at)
    /\ secret = k.current \/ (secret = k.previous /\ at < k.overlap)

-----------------------------------------------------------------------------
(* from_snapshot.                                                          *)

\* validate_snapshot_version.
ValidVersion(k) ==
    LET active == 1 + 2 * Len(k.retired)
        rotating == active + 1
    IN CASE k.state = "Active" -> k.version = active
         [] k.state = "Rotating" -> k.version = rotating
         [] OTHER -> k.version = rotating \/ (k.retired # <<>> /\ k.version = active)

\* validate_snapshot_secret_state.
ValidRotation(k) ==
    /\ k.state = "Rotating" <=> k.previous # None
    /\ k.previous = None <=> k.started = None
    /\ k.previous = None <=> k.overlap = None
    /\ k.previous # None =>
        /\ k.previous # k.current
        /\ ValidOverlap(k, k.started, k.overlap)
        /\ k.started >= k.issued /\ ~Expired(k, k.started)

ValidSnapshot(k) ==
    /\ ValidVersion(k)
    /\ ValidWindow(k) /\ (k.state = "Expired" => k.expires # Never)
    /\ ValidRotation(k)
    /\ Len(k.retired) <= MaxRetired /\ (k.state = "Rotating" => Len(k.retired) < MaxRetired)
    /\ {k.current, k.previous} \cap Retired(k) = {}
    /\ \A m, n \in DOMAIN k.retired : k.retired[m] = k.retired[n] => m = n

-----------------------------------------------------------------------------
(* The repository.                                                         *)

\* PersistedEvent: what the row of an event keeps.
Persisted(row) ==
    [version |-> row.event.version, kind |-> row.event.kind, at |-> row.event.at, actor |-> row.event.actor,
     state |-> row.next.state, current |-> row.next.current, previous |-> row.next.previous,
     started |-> row.next.started, overlap |-> row.next.overlap]

Settled(p) == p.previous = None /\ p.started = None /\ p.overlap = None

\* verify_event_pair: event q may follow event p, of key k.
Follows(k, p, q) ==
    CASE q.kind = "Rotated" ->
            /\ p.state = "Active" /\ Settled(p)
            /\ q.state = "Rotating" /\ q.current # p.current /\ q.previous = p.current
            /\ q.started = q.at /\ q.overlap > q.at
      [] q.kind = "RotationCompleted" ->
            /\ p.kind = "Rotated" /\ p.state = "Rotating" /\ q.at >= p.overlap
            /\ q.state = "Active" /\ q.current = p.current /\ Settled(q)
      [] q.kind \in {"Revoked", "Expired"} ->
            /\ p.state \in {"Active", "Rotating"}
            /\ q.state = q.kind /\ q.current = p.current /\ Settled(q)
            /\ IF q.kind = "Revoked" THEN q.at >= k.issued ELSE Expired(k, q.at)
      [] OTHER -> FALSE

\* verify_retired_history: the secrets that the events retire, in order.
RetiredBy(rows) ==
    LET after[v \in DOMAIN rows] ==
            IF v = 1 THEN <<>>
            ELSE IF rows[v].event.kind # "Rotated" /\ rows[v - 1].next.previous # None
                 THEN Append(after[v - 1], rows[v - 1].next.previous) ELSE after[v - 1]
    IN after[Cardinality(DOMAIN rows)]

\* load_key.
Loads(k, rows) ==
    /\ ValidSnapshot(k)
    /\ DOMAIN rows = 1..k.version /\ k.version <= 2 * MaxRetired + 2
    /\ LET p == [v \in DOMAIN rows |-> Persisted(rows[v])]
       IN /\ p[1].kind = "Issued" /\ p[1].at = k.issued /\ p[1].state = "Active" /\ Settled(p[1])
          /\ \A v \in 2..k.version : Follows(k, p[v - 1], p[v])
          /\ RetiredBy(rows) = k.retired
          /\ <<p[k.version].version, p[k.version].state, p[k.version].current,
               p[k.version].previous, p[k.version].started, p[k.version].overlap>>
             = <<k.version, k.state, k.current, k.previous, k.started, k.overlap>>

\* immutable_fields_match.
SameKey(k, t) == k.issued = t.issued /\ k.expires = t.expires

\* The state and the secrets of the target fit those of the durable key.
Continues(k, t) ==
    CASE t.event.kind = "Rotated" ->
            k.state = "Active" /\ t.next.previous = k.current /\ t.next.retired = k.retired
      [] t.event.kind = "RotationCompleted" ->
            /\ k.state = "Rotating" /\ t.next.current = k.current
            /\ t.next.retired = Append(k.retired, k.previous)
      [] OTHER ->
            /\ Usable(k) /\ t.next.current = k.current
            /\ t.next.retired = IF k.previous = None THEN k.retired ELSE Append(k.retired, k.previous)

\* commit_transition.  The authenticator link of the key must be active, and a
\* rotation is made by the principal that issued it, still bound.
Accepts(k, rows, t, expected, link, bound) ==
    IF t.event.kind = "Issued" THEN bound /\ k = None
    ELSE /\ k # None /\ Loads(k, rows) /\ k.version = expected
         /\ SameKey(k, t.next) /\ Continues(k, t)
         /\ link = "Active"
         /\ t.event.kind \in {"Rotated", "RotationCompleted"} => bound /\ t.event.actor = rows[1].event.actor

\* replay_event: the row of an event decides again.
Replay(k, row) ==
    LET e == row.event
    IN {t \in CASE e.kind = "Rotated" -> Rotate(k, e.actor, e.at, row.next.current, row.next.overlap)
                [] e.kind = "RotationCompleted" -> CompleteRotation(k, e.actor, e.at)
                [] e.kind = "Revoked" -> Revoke(k, e.actor, e.at)
                [] e.kind = "Expired" -> Expire(k, e.actor, e.at)
                [] OTHER -> {} :
          Persisted([event |-> t.event, next |-> t.next]) = Persisted(row)}

\* visit_transition_history: the transition of every version, decided again.
Replayed(k, rows) ==
    LET at[v \in DOMAIN rows] ==
            IF v = 1 THEN Issue(rows[1].event.actor, rows[1].next.current, k.issued, k.expires)
            ELSE UNION {Replay(t.next, rows[v]) : t \in at[v - 1]}
    IN at

\* reconcile_exact: every version's evidence is found by the digest of its
\* replayed transition, and the link fits the key.
Confirms(k, rows, t, request, link) ==
    LET replayed == Replayed(k, rows)
        v == t.next.version
    IN /\ k # None /\ Loads(k, rows)
       /\ k.version >= v /\ SameKey(k, t.next)
       /\ \A w \in DOMAIN rows : \E u \in replayed[w] :
            /\ rows[w].event = u.event /\ rows[w].next = u.next
            /\ rows[w].event.kind \in {"Rotated", "RotationCompleted"} => rows[w].event.actor = rows[1].event.actor
       /\ {u.next : u \in replayed[k.version]} = {k}
       /\ rows[v].request = request /\ t \in replayed[v]
       /\ link = IF Usable(k) THEN "Active" ELSE "Revoked"

=============================================================================
