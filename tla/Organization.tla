---------------------------- MODULE Organization ----------------------------
(***************************************************************************)
(* Organizations (ariadnion-organization) and what their repository checks *)
(* (ariadnion-storage-rnmdb: organization_repository.rs).  A command on a  *)
(* snapshot yields the next snapshot and an event, or an error: here the   *)
(* set of its results.  Loading an organization replays all of its events  *)
(* and also asks whether its version can be reached at all, from a closed  *)
(* formula.  A membership is named by its user.  The rows of a snapshot    *)
(* keep the order of memberships; teams are sets.                          *)
(***************************************************************************)
EXTENDS Naturals, Sequences, FiniteSets
LOCAL INSTANCE FiniteSetsExt

CONSTANTS
    Users,            \* users, each with the membership it would have
    Teams,
    Principals,       \* actors and approvers
    Times,            \* UTC seconds, as the commands state them
    Never,            \* no expiry
    MaxMemberships,   \* MAX_MEMBERSHIPS
    MaxTeams,         \* MAX_TEAMS
    MaxAssignments,   \* MAX_TEAM_ASSIGNMENTS
    MaxReauthAge,     \* MAX_REAUTHENTICATION_AGE_SECONDS
    MaxTransferLife,  \* MAX_TRANSFER_LIFETIME_SECONDS
    MaxHistory,       \* MAX_ORGANIZATION_EVENT_HISTORY_ROWS
    None              \* no previous snapshot

Expired(m, at) == m.expires # Never /\ at >= m.expires

Eligible(m, at) == m.state = "Active" /\ ~Expired(m, at)

Membership(user, kind, origin, expires) ==
    [user |-> user, kind |-> kind, state |-> "Active", origin |-> origin, expires |-> expires, teams |-> {}]

Event(version, actor, at, what) == [version |-> version, actor |-> actor, at |-> at, what |-> what]

\* create_organization.
Created(founder, actor, at) ==
    [previous |-> None,
     next |-> [version |-> 1, state |-> "Active", teams |-> {},
               members |-> <<Membership(founder, "Owner", "Founder", Never)>>],
     event |-> Event(1, actor, at, <<"Created", founder>>)]

\* finish_evolution, when the command is allowed.
Evolved(allowed, o, next, audit, what) ==
    IF allowed THEN {[previous |-> o, next |-> [next EXCEPT !.version = o.version + 1],
                      event |-> Event(o.version + 1, audit.actor, audit.at, what)]}
    ELSE {}

Index(o, user) == {i \in DOMAIN o.members : o.members[i].user = user}

change_state(o, audit, state) ==
    Evolved(o.state # state, o, [o EXCEPT !.state = state], audit, <<"StateChanged", state>>)

\* validate_membership_creation_facts.
CreationFacts(kind, origin, expires, at) ==
    /\ origin # "Founder"
    /\ expires # Never => kind # "Owner" /\ expires > at

add_membership(o, audit, user, kind, origin, expires) ==
    Evolved(/\ Len(o.members) < MaxMemberships
            /\ Index(o, user) = {}
            /\ CreationFacts(kind, origin, expires, audit.at),
        o, [o EXCEPT !.members = Append(@, Membership(user, kind, origin, expires))],
        audit, <<"MembershipAdded", user, kind, origin, expires>>)

ActiveOwner(m) == m.kind = "Owner" /\ m.state = "Active"

ActiveOwners(o) == {i \in DOMAIN o.members : ActiveOwner(o.members[i])}

\* protect_last_active_owner.
LastActiveOwner(o, i) == ActiveOwners(o) = {i}

\* change_state_and_clear_teams.
Deactivated(o, i, state) == [o EXCEPT !.members[i].state = state, !.members[i].teams = {}]

suspend_membership(o, audit, user) ==
    UNION {Evolved(o.members[i].state = "Active" /\ ~LastActiveOwner(o, i),
               o, Deactivated(o, i, "Suspended"),
               audit, <<"MembershipSuspended", user, Cardinality(o.members[i].teams)>>) : i \in Index(o, user)}

activate_membership(o, audit, user) ==
    UNION {Evolved(o.members[i].state = "Suspended" /\ ~Expired(o.members[i], audit.at),
               o, [o EXCEPT !.members[i].state = "Active"],
               audit, <<"MembershipActivated", user>>) : i \in Index(o, user)}

leave_membership(o, audit, user) ==
    UNION {Evolved(o.members[i].state # "Left" /\ ~LastActiveOwner(o, i),
               o, Deactivated(o, i, "Left"),
               audit, <<"MembershipLeft", user, Cardinality(o.members[i].teams)>>) : i \in Index(o, user)}

create_team(o, audit, team) ==
    Evolved(Cardinality(o.teams) < MaxTeams /\ team \notin o.teams,
        o, [o EXCEPT !.teams = @ \cup {team}], audit, <<"TeamCreated", team>>)

Assigned(o, i, team) == [o EXCEPT !.members[i].teams = @ \cup {team}]

assign_team(o, audit, user, team) ==
    UNION {Evolved(/\ team \in o.teams
                   /\ Eligible(o.members[i], audit.at)
                   /\ team \notin o.members[i].teams
                   /\ Cardinality(o.members[i].teams) < MaxAssignments,
               o, Assigned(o, i, team),
               audit, <<"TeamAssigned", user, team>>) : i \in Index(o, user)}

\* demote_owner and promote_recipient.
HandedOver(o, i, j) ==
    [o EXCEPT !.members[i].kind = "Member", !.members[j].kind = "Owner", !.members[j].expires = Never]

\* Evidence of a transfer that is well-formed (its delay and lifetime), is
\* inside its window, and whose recipient authenticated recently.
InWindow(at) ==
    \E reauthenticated, not_before, expires \in Times :
        /\ reauthenticated < not_before
        /\ not_before < expires /\ expires - not_before <= MaxTransferLife
        /\ not_before <= at /\ at <= expires
        /\ reauthenticated <= at /\ at - reauthenticated <= MaxReauthAge

OwnershipMoves(o, i, j, at) ==
    i # j /\ ActiveOwner(o.members[i]) /\ o.members[j].kind = "Member" /\ Eligible(o.members[j], at)

transfer_ownership(o, audit, from, to, approver) ==
    UNION {Evolved(/\ approver # audit.actor
                   /\ InWindow(audit.at)
                   /\ OwnershipMoves(o, i, j, audit.at),
               o, HandedOver(o, i, j),
               audit, <<"OwnershipTransferred", from, to, approver>>) : i \in Index(o, from), j \in Index(o, to)}

\* replay_ownership_transfer: the evidence is gone, its roles are checked.
replay_transfer(o, audit, from, to, approver) ==
    UNION {Evolved(OwnershipMoves(o, i, j, audit.at), o, HandedOver(o, i, j),
               audit, <<"OwnershipTransferred", from, to, approver>>) : i \in Index(o, from), j \in Index(o, to)}

Audits == [actor : Principals, at : Times]

\* Every command on the organization.
Decisions(o) ==
    UNION {UNION {
        UNION {change_state(o, audit, s) : s \in {"Active", "Frozen"}},
        UNION {add_membership(o, audit, u, k, "Administrative", e) :
                  u \in Users, k \in {"Owner", "Member"}, e \in Times \cup {Never}},
        UNION {suspend_membership(o, audit, u) \cup activate_membership(o, audit, u)
                  \cup leave_membership(o, audit, u) : u \in Users},
        UNION {create_team(o, audit, t) : t \in Teams},
        UNION {assign_team(o, audit, u, t) : u \in Users, t \in Teams},
        UNION {transfer_ownership(o, audit, u, w, p) : u \in Users, w \in Users, p \in Principals}}
      : audit \in Audits}

Creations == {Created(u, a.actor, a.at) : u \in Users, a \in Audits}

-----------------------------------------------------------------------------
(* from_snapshot.                                                          *)

Sum(f) == MapThenSumSet(LAMBDA i : f[i], DOMAIN f)

Of(condition) == IF condition THEN 1 ELSE 0

\* minimum_snapshot_version: the shortest history that ends in o.
MinimumVersion(o) ==
    1 + (Len(o.members) - 1) + Cardinality(o.teams)
      + Sum([i \in DOMAIN o.members |->
               Cardinality(o.members[i].teams) + Of(o.members[i].state # "Active")])
      + Of(o.members[1].kind = "Member") + Of(o.state = "Frozen")

Permanent(o) == {i \in DOMAIN o.members : o.members[i].expires = Never}

Kinds(o, S) == {o.members[i].kind : i \in S}

\* ownership_odd_surcharge: what it costs to move ownership around, in an odd
\* number of extra steps, between three members that do not expire.
OwnershipSurcharge(o) ==
    IF Cardinality(Permanent(o)) < 3 THEN {}
    ELSE IF o.members[1].kind # "Owner" \/ Kinds(o, Permanent(o) \ {1}) = {"Owner", "Member"} THEN {1}
    ELSE IF Kinds(o, Permanent(o)) = {"Owner", "Member"} THEN {3}
    ELSE {}

\* Mutant: only active owners count.
OwnerCountActive(o) == Cardinality(ActiveOwners(o))

\* snapshot_owner_count.
OwnerCount(o) == Cardinality({i \in DOMAIN o.members : o.members[i].kind = "Owner"})

\* membership_odd_surcharge: a suspension that cleared teams, or a suspended
\* member that left.
MembershipSurcharge(o, m) ==
    IF m.kind = "Owner" /\ OwnerCount(o) = 1 THEN {}
    ELSE CASE m.state = "Active" -> IF o.teams = {} THEN {} ELSE {3}
           [] m.state = "Suspended" -> IF o.teams = {} THEN {} ELSE {1}
           [] m.state = "Left" -> {1}

Surcharges(o) ==
    OwnershipSurcharge(o) \cup UNION {MembershipSurcharge(o, o.members[i]) : i \in DOMAIN o.members}

\* validate_version_reachability.
Reachable(o) ==
    /\ o.version >= MinimumVersion(o)
    /\ LET offset == o.version - MinimumVersion(o)
       IN offset % 2 = 0 \/ \E cost \in Surcharges(o) : offset >= cost

ValidMembership(o, m) ==
    /\ m.expires # Never => m.kind # "Owner" /\ m.origin # "Founder"
    /\ Cardinality(m.teams) <= MaxAssignments
    /\ m.state # "Active" => m.teams = {}
    /\ m.teams \subseteq o.teams

ValidSnapshot(o) ==
    /\ Len(o.members) <= MaxMemberships /\ Cardinality(o.teams) <= MaxTeams
    /\ \A i, j \in DOMAIN o.members : i # j => o.members[i].user # o.members[j].user
    /\ \A i \in DOMAIN o.members : ValidMembership(o, o.members[i])
    /\ {i \in DOMAIN o.members : o.members[i].origin = "Founder"} = {1}
    /\ ActiveOwners(o) # {}
    /\ Reachable(o)

-----------------------------------------------------------------------------
(* The repository.                                                         *)

\* validate_persisted_event.
ValidEvent(e) ==
    /\ (e.what[1] = "Created") <=> (e.version = 1)
    /\ e.what[1] = "MembershipAdded" => CreationFacts(e.what[3], e.what[4], e.what[5], e.at)
    /\ e.what[1] = "OwnershipTransferred" => e.what[2] # e.what[3] /\ e.what[4] # e.actor

\* replay_persisted_transition.
Replay(o, e) ==
    LET audit == [actor |-> e.actor, at |-> e.at]
        w == e.what
    IN {t \in CASE w[1] = "MembershipAdded" -> add_membership(o, audit, w[2], w[3], w[4], w[5])
                [] w[1] = "MembershipSuspended" -> suspend_membership(o, audit, w[2])
                [] w[1] = "MembershipActivated" -> activate_membership(o, audit, w[2])
                [] w[1] = "MembershipLeft" -> leave_membership(o, audit, w[2])
                [] w[1] = "StateChanged" -> change_state(o, audit, w[2])
                [] w[1] = "TeamCreated" -> create_team(o, audit, w[2])
                [] w[1] = "TeamAssigned" -> assign_team(o, audit, w[2], w[3])
                [] w[1] = "OwnershipTransferred" -> replay_transfer(o, audit, w[2], w[3], w[4])
                [] OTHER -> {} : t.event = e}

\* replay_events, from the snapshots S of version v on: for every later version
\* the transitions that its event replays to.
Replayed(rows, v, S) ==
    LET at[w \in v..Cardinality(DOMAIN rows)] ==
            IF w = v THEN S ELSE UNION {Replay(t.next, rows[w].event) : t \in at[w - 1]}
    IN at

\* load_organization.
Loads(o, rows) ==
    /\ ValidSnapshot(o)
    /\ DOMAIN rows = 1..o.version
    /\ \A v \in DOMAIN rows : ValidEvent(rows[v].event)
    /\ LET first == rows[1].event
           created == {t \in {Created(first.what[2], first.actor, first.at)} : t.event = first}
       IN {t.next : t \in Replayed(rows, 1, created)[o.version]} = {o}

\* commit_in_transaction: what it requires of the durable organization.
Accepts(o, rows, t, expected) ==
    /\ t.next.version <= MaxHistory
    /\ IF t.previous = None THEN o = None /\ expected = 1
       ELSE o # None /\ Loads(o, rows) /\ o.version = expected /\ o = t.previous

\* The evidence of a version is found by the digest of the request, the event
\* and both snapshots.
Evidenced(rows, v, request, t) ==
    rows[v] = [request |-> request, event |-> t.event, previous |-> t.previous, next |-> t.next]

\* reconcile_exact.
Confirms(o, rows, t, request) ==
    LET v == t.next.version
    IN /\ o # None /\ Loads(o, rows)
       /\ o.version >= v
       /\ {u.next : u \in Replayed(rows, v, {t})[o.version]} = {o}
       /\ Evidenced(rows, v, request, t)
       /\ \A w \in (v + 1)..o.version :
            \A u \in Replayed(rows, v, {t})[w] : Evidenced(rows, w, rows[w].request, u)

=============================================================================
