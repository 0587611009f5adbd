--------------------------- MODULE AggregateProofs ---------------------------
(***************************************************************************)
(* The identity aggregates, for any number of callers and of attempts, and *)
(* histories of any length: the repository implements the lineage of its   *)
(* aggregate, no retired secret is honoured again, and users, invitations  *)
(* and keys stay loadable.  Then the vault, for any references and overlap *)
(* windows: no reference takes part in two unfinished rotations, the       *)
(* journal says what the vault did, and, where every window is a second or *)
(* more, a repeated rotation mutation is answered from the log.            *)
(***************************************************************************)
EXTENDS AggregateStore, VaultStore, Integers, Sequences, FiniteSetTheorems, TLAPS

-----------------------------------------------------------------------------
(* What the domain decides: a transition names the snapshot it was decided *)
(* on and raises its version by one.                                       *)

LEMMA OrganizationDecides ==
  ASSUME NEW o
  PROVE  /\ \A t \in Org!Decisions(o) : t.previous = o
         /\ \A t \in Org!Creations : t.previous = None
<1>1. ASSUME NEW audit, NEW s PROVE \A t \in Org!change_state(o, audit, s) : t.previous = o
  BY DEF Org!Evolved, Org!change_state
<1>2. ASSUME NEW audit, NEW u, NEW k, NEW g, NEW e
      PROVE  \A t \in Org!add_membership(o, audit, u, k, g, e) : t.previous = o
  BY DEF Org!Evolved, Org!add_membership
<1>3. ASSUME NEW audit, NEW u, NEW t \in Org!suspend_membership(o, audit, u) PROVE t.previous = o
  <2>1. \E next, event : t = [previous |-> o, next |-> next, event |-> event]
    BY <1>3 DEF Org!Evolved, Org!suspend_membership
  <2> QED BY <2>1
<1>4. ASSUME NEW audit, NEW u, NEW t \in Org!activate_membership(o, audit, u) PROVE t.previous = o
  <2>1. \E next, event : t = [previous |-> o, next |-> next, event |-> event]
    BY <1>4 DEF Org!Evolved, Org!activate_membership
  <2> QED BY <2>1
<1>5. ASSUME NEW audit, NEW u, NEW t \in Org!leave_membership(o, audit, u) PROVE t.previous = o
  <2>1. \E next, event : t = [previous |-> o, next |-> next, event |-> event]
    BY <1>5 DEF Org!Evolved, Org!leave_membership
  <2> QED BY <2>1
<1>6. ASSUME NEW audit, NEW m, NEW t \in Org!create_team(o, audit, m) PROVE t.previous = o
  BY <1>6 DEF Org!Evolved, Org!create_team
<1>7. ASSUME NEW audit, NEW u, NEW m, NEW t \in Org!assign_team(o, audit, u, m) PROVE t.previous = o
  <2>1. \E next, event : t = [previous |-> o, next |-> next, event |-> event]
    BY <1>7 DEF Org!Evolved, Org!assign_team
  <2> QED BY <2>1
<1>8. ASSUME NEW audit, NEW u, NEW w, NEW p, NEW t \in Org!transfer_ownership(o, audit, u, w, p)
      PROVE  t.previous = o
  BY <1>8 DEF Org!Evolved, Org!transfer_ownership
<1>9. ASSUME NEW t \in Org!Decisions(o) PROVE t.previous = o
  <2>1. PICK audit \in Org!Audits : t \in UNION {
           UNION {Org!change_state(o, audit, s) : s \in {"Active", "Frozen"}},
           UNION {Org!add_membership(o, audit, u, k, "Administrative", e) :
                     u \in Users, k \in {"Owner", "Member"}, e \in Seconds \cup {Never}},
           UNION {Org!suspend_membership(o, audit, u) \cup Org!activate_membership(o, audit, u)
                     \cup Org!leave_membership(o, audit, u) : u \in Users},
           UNION {Org!create_team(o, audit, m) : m \in Teams},
           UNION {Org!assign_team(o, audit, u, m) : u \in Users, m \in Teams},
           UNION {Org!transfer_ownership(o, audit, u, w, p) : u \in Users, w \in Users, p \in Principals}}
    BY <1>9 DEF Org!Decisions
  <2> QED BY <2>1, <1>1, <1>2, <1>3, <1>4, <1>5, <1>6, <1>7, <1>8
<1>10. ASSUME NEW t \in Org!Creations PROVE t.previous = None
  <2>1. PICK u \in Users, a \in Org!Audits : t = Org!Created(u, a.actor, a.at)
    BY <1>10 DEF Org!Creations
  <2> QED BY <2>1 DEF Org!Created
<1> QED BY <1>9, <1>10

LEMMA UserParity == Usr!Even(2) /\ \A v \in Nat : Usr!Even(v + 1) <=> ~Usr!Even(v)
BY DEF Usr!Even

\* A user that may be loaded.
UserOK(u) ==
  /\ u.version \in Nat /\ Usr!ValidSnapshot(u)
  /\ u.is.state \in {"Invited", "Active", "Suspended", "DeletionPending", "Deleted"}
  /\ u.is.state = "DeletionPending" =>
       u.is.requested \in Seconds /\ u.is.not_before \in Seconds /\ u.is.recovery \in {"Active", "Suspended"}

LEMMA InvitedOK == UserOK(Usr!Invited)
<1>1. Usr!Invited.version = 1 /\ Usr!Invited.is.state = "Invited"
  BY DEF Usr!Invited, Usr!Simple
<1> QED BY <1>1 DEF UserOK, Usr!ValidSnapshot

\* A step to a user that may be loaded, whose event may be replayed.
UserMoves(u, t) ==
  /\ t.previous = u /\ t.next.version = u.version + 1 /\ UserOK(t.next)
  /\ Usr!Advanced(u.is, t.event) = {t.next.is}
  /\ Usr!TargetFits(t.next.is, t.event) /\ Usr!CurrentFits(t.next, t.event)

LEMMA UserDecides ==
  ASSUME NEW u, UserOK(u), NEW d \in Usr!Decisions(u)
  PROVE  UserMoves(u, d)
<1>1. ASSUME NEW at \in Seconds, NEW t \in Usr!activate(u, at) PROVE UserMoves(u, t)
  <2>1. /\ u.is.state = "Invited"
        /\ t.previous = u /\ t.next.version = u.version + 1 /\ t.next.is = Usr!Simple("Active")
        /\ t.event.version = u.version + 1 /\ t.event.kind = "activated" /\ t.event.at = at
        /\ t.event.not_before = None /\ t.event.recovery = None
    BY <1>1 DEF Usr!activate, Usr!Evolved, Usr!Event
  <2> QED BY <2>1, UserParity, LineageAssumption
          DEF UserMoves, UserOK, Usr!ValidSnapshot, Usr!Simple, Usr!Pending, Usr!Advanced, Usr!TargetFits,
              Usr!CurrentFits, Usr!NoMetadata, Usr!PendingEvent, Usr!RecoveryEvent
<1>2. ASSUME NEW at \in Seconds, NEW t \in Usr!suspend(u, at) PROVE UserMoves(u, t)
  <2>1. /\ u.is.state = "Active"
        /\ t.previous = u /\ t.next.version = u.version + 1 /\ t.next.is = Usr!Simple("Suspended")
        /\ t.event.version = u.version + 1 /\ t.event.kind = "suspended" /\ t.event.at = at
        /\ t.event.not_before = None /\ t.event.recovery = None
    BY <1>2 DEF Usr!suspend, Usr!Evolved, Usr!Event
  <2> QED BY <2>1, UserParity, LineageAssumption
          DEF UserMoves, UserOK, Usr!ValidSnapshot, Usr!Simple, Usr!Pending, Usr!Advanced, Usr!TargetFits,
              Usr!CurrentFits, Usr!NoMetadata, Usr!PendingEvent, Usr!RecoveryEvent
<1>3. ASSUME NEW at \in Seconds, NEW t \in Usr!resume(u, at) PROVE UserMoves(u, t)
  <2>1. /\ u.is.state = "Suspended"
        /\ t.previous = u /\ t.next.version = u.version + 1 /\ t.next.is = Usr!Simple("Active")
        /\ t.event.version = u.version + 1 /\ t.event.kind = "resumed" /\ t.event.at = at
        /\ t.event.not_before = None /\ t.event.recovery = None
    BY <1>3 DEF Usr!resume, Usr!Evolved, Usr!Event
  <2> QED BY <2>1, UserParity, LineageAssumption
          DEF UserMoves, UserOK, Usr!ValidSnapshot, Usr!Simple, Usr!Pending, Usr!Advanced, Usr!TargetFits,
              Usr!CurrentFits, Usr!NoMetadata, Usr!PendingEvent, Usr!RecoveryEvent
<1>4. ASSUME NEW at \in Seconds, NEW t \in Usr!complete_deletion(u, at) PROVE UserMoves(u, t)
  <2>1. /\ u.is.state = "DeletionPending" /\ at >= u.is.not_before
        /\ t.previous = u /\ t.next.version = u.version + 1 /\ t.next.is = Usr!Simple("Deleted")
        /\ t.event.version = u.version + 1 /\ t.event.kind = "deleted" /\ t.event.at = at
        /\ t.event.not_before = None /\ t.event.recovery = None
    BY <1>4 DEF Usr!complete_deletion, Usr!Evolved, Usr!Event
  <2> QED BY <2>1, UserParity, LineageAssumption
          DEF UserMoves, UserOK, Usr!ValidSnapshot, Usr!Simple, Usr!Pending, Usr!Advanced, Usr!TargetFits,
              Usr!CurrentFits, Usr!NoMetadata, Usr!PendingEvent, Usr!RecoveryEvent
<1>5. ASSUME NEW at \in Seconds, NEW b \in Seconds, NEW t \in Usr!request_deletion(u, at, b) PROVE UserMoves(u, t)
  <2>1. /\ b > at /\ u.is.state \in {"Active", "Suspended"}
        /\ t.previous = u /\ t.next.version = u.version + 1 /\ t.next.is = Usr!Pending(at, b, u.is.state)
        /\ t.event.version = u.version + 1 /\ t.event.kind = "deletion_requested" /\ t.event.at = at
        /\ t.event.not_before = b /\ t.event.recovery = u.is.state
    BY <1>5 DEF Usr!request_deletion, Usr!Evolved, Usr!Event
  <2>2. /\ t.next.is.state = "DeletionPending" /\ t.next.is.requested = at /\ t.next.is.not_before = b
        /\ t.next.is.recovery = u.is.state
    BY <2>1 DEF Usr!Pending
  <2>3. UserOK(t.next)
    <3>1. /\ u.is.state = "Active" => u.version >= 2 /\ Usr!Even(u.version)
          /\ u.is.state = "Suspended" => u.version >= 3 /\ ~Usr!Even(u.version)
      BY DEF UserOK, Usr!ValidSnapshot
    <3>2. /\ u.is.state = "Active" => t.next.version >= 3 /\ ~Usr!Even(t.next.version)
          /\ u.is.state = "Suspended" => t.next.version >= 4 /\ Usr!Even(t.next.version)
          /\ t.next.version \in Nat
      BY <2>1, <3>1, UserParity DEF UserOK
    <3> QED BY <2>1, <2>2, <3>2 DEF UserOK, Usr!ValidSnapshot
  <2>4. Usr!PendingEvent(t.event, u.is.state)
    BY <2>1, UserParity, LineageAssumption DEF UserOK, Usr!ValidSnapshot, Usr!PendingEvent
  <2>5. Usr!Advanced(u.is, t.event) = {t.next.is}
    BY <2>1, <2>4 DEF Usr!Advanced
  <2>6. Usr!TargetFits(t.next.is, t.event) /\ Usr!CurrentFits(t.next, t.event)
    BY <2>1, <2>2, <2>4 DEF Usr!TargetFits, Usr!CurrentFits
  <2> QED BY <2>1, <2>3, <2>5, <2>6 DEF UserMoves
<1>6. ASSUME NEW at \in Seconds, NEW v, NEW b, NEW e, NEW t \in Usr!recover_deletion(u, at, v, b, e) PROVE UserMoves(u, t)
  <2>1. /\ u.is.state = "DeletionPending"
        /\ t.previous = u /\ t.next.version = u.version + 1 /\ t.next.is = Usr!Simple(u.is.recovery)
        /\ t.event.version = u.version + 1 /\ t.event.kind = "deletion_recovered" /\ t.event.at = at
        /\ t.event.not_before = None /\ t.event.recovery = u.is.recovery
    BY <1>6 DEF Usr!recover_deletion, Usr!Evolved, Usr!Event
  <2>2. t.next.is.state = u.is.recovery /\ u.is.recovery \in {"Active", "Suspended"}
    BY <2>1 DEF Usr!Simple, UserOK
  <2>3. UserOK(t.next)
    <3>1. /\ u.is.recovery = "Active" => u.version >= 3 /\ ~Usr!Even(u.version)
          /\ u.is.recovery = "Suspended" => u.version >= 4 /\ Usr!Even(u.version)
      BY <2>1 DEF UserOK, Usr!ValidSnapshot
    <3>2. /\ u.is.recovery = "Active" => t.next.version >= 2 /\ Usr!Even(t.next.version)
          /\ u.is.recovery = "Suspended" => t.next.version >= 3 /\ ~Usr!Even(t.next.version)
          /\ t.next.version \in Nat
      BY <2>1, <3>1, UserParity DEF UserOK
    <3>3. CASE u.is.recovery = "Active"
      BY <2>2, <3>2, <3>3 DEF UserOK, Usr!ValidSnapshot
    <3>4. CASE u.is.recovery = "Suspended"
      BY <2>2, <3>2, <3>4 DEF UserOK, Usr!ValidSnapshot
    <3> QED BY <2>2, <3>3, <3>4
  <2>4. Usr!RecoveryEvent(t.event, u.is.recovery)
    BY <2>1, <2>2, UserParity DEF UserOK, Usr!ValidSnapshot, Usr!RecoveryEvent
  <2>5. Usr!Advanced(u.is, t.event) = {t.next.is}
    BY <2>1, <2>4 DEF Usr!Advanced
  <2>6. Usr!TargetFits(t.next.is, t.event)
    BY <2>1, <2>2, <2>4 DEF Usr!TargetFits
  <2>7. Usr!CurrentFits(t.next, t.event)
    BY <2>1, <2>2, UserParity DEF Usr!CurrentFits, UserOK, Usr!ValidSnapshot
  <2> QED BY <2>1, <2>3, <2>5, <2>6, <2>7 DEF UserMoves
<1> DEFINE Simple(at) == Usr!activate(u, at) \cup Usr!suspend(u, at) \cup Usr!resume(u, at)
                           \cup Usr!complete_deletion(u, at)
           Requests(at) == UNION {Usr!request_deletion(u, at, b) : b \in Seconds}
           Recoveries(at) == UNION {Usr!recover_deletion(u, at, v, b, e) :
                                      v \in {u.version - 1, u.version}, b \in Seconds, e \in Seconds}
<1>7. PICK at \in Seconds : d \in Simple(at) \cup Requests(at) \cup Recoveries(at)
  BY DEF Usr!Decisions
<1>8. CASE d \in Simple(at)
  BY <1>1, <1>2, <1>3, <1>4, <1>8
<1>9. CASE d \in Requests(at)
  BY <1>5, <1>9
<1>10. CASE d \in Recoveries(at)
  BY <1>6, <1>10
<1> HIDE DEF Simple, Requests, Recoveries
<1> QED BY <1>7, <1>8, <1>9, <1>10

\* An invitation that may be loaded.
Invitations == {i \in Inv!Snapshot : Inv!ValidSnapshot(i)}

LEMMA InvitationCreates ==
  ASSUME NEW t \in Inv!Creations
  PROVE  /\ t.previous = None /\ t.event.kind = "Issued" /\ t.next \in Invitations /\ t.next.version = 1
         /\ Inv!IssuanceFits(t.next, t.event)
<1>1. PICK p \in Principals, u \in Users, at \in Seconds, e \in Seconds : t \in Inv!Issue(p, u, at, e)
  BY DEF Inv!Creations
<1> DEFINE i == [version |-> 1, state |-> "Issued", issuer |-> p, subject |-> u, issued |-> at, expires |-> e,
                 consumer |-> None]
<1>2. t = Inv!Transition(None, i, p, at, "Issued", None) /\ Inv!ValidLifetime(i)
  BY <1>1 DEF Inv!Issue
<1>3. /\ i \in Inv!Snapshot /\ i.version = 1 /\ i.state = "Issued" /\ i.consumer = None /\ i.issuer = p
      /\ i.issued = at
  BY DEF Inv!Snapshot
<1> HIDE DEF i
<1>4. /\ t.previous = None /\ t.next = i /\ t.event.kind = "Issued" /\ t.event.version = i.version
      /\ t.event.actor = p /\ t.event.at = at /\ t.event.user = None
  BY <1>2 DEF Inv!Transition
<1> QED BY <1>2, <1>3, <1>4 DEF Invitations, Inv!ValidSnapshot, Inv!IssuanceFits

LEMMA InvitationDecides ==
  ASSUME NEW i \in Invitations, NEW t \in Inv!Decisions(i)
  PROVE  /\ t.previous = i /\ t.event.kind # "Issued"
         /\ t.next \in Invitations /\ t.next.version = i.version + 1
         /\ Inv!TerminalFits(t.next, t.event)
<1> DEFINE Next(T) == \A s \in T : /\ s.previous = i /\ s.event.kind # "Issued"
                                   /\ s.next \in Invitations /\ s.next.version = i.version + 1
                                   /\ Inv!TerminalFits(s.next, s.event)
<1>1. ASSUME NEW state \in {"Consumed", "Revoked", "Expired"}, NEW u \in Users \cup {None}, NEW actor, NEW at,
             i.state = "Issued", state = "Consumed" <=> u # None,
             IF state = "Expired" THEN at >= i.expires ELSE at >= i.issued /\ at < i.expires
      PROVE  Next({Inv!Transition(i, Inv!Advance(i, state, u), actor, at, state, u)})
  <2> DEFINE n == Inv!Advance(i, state, u)
  <2>1. i \in Inv!Snapshot /\ i.version = 1 /\ Inv!ValidLifetime(i)
    BY <1>1 DEF Invitations, Inv!ValidSnapshot
  <2>2. /\ n.version = 2 /\ n.state = state /\ n \in Inv!Snapshot /\ n.consumer = u
        /\ n.issued = i.issued /\ n.expires = i.expires
    <3>1. n = [i EXCEPT !.version = 2, !.state = state, !.consumer = u]
      BY <2>1 DEF Inv!Advance
    <3> HIDE DEF n
    <3> QED BY <1>1, <2>1, <3>1 DEF Inv!Snapshot
  <2> HIDE DEF n
  <2>3. n \in Invitations
    BY <1>1, <2>1, <2>2 DEF Invitations, Inv!ValidSnapshot, Inv!ValidLifetime
  <2> DEFINE s == Inv!Transition(i, n, actor, at, state, u)
  <2>4. /\ s.previous = i /\ s.next = n /\ s.event.kind = state /\ s.event.version = n.version
        /\ s.event.at = at /\ s.event.user = u
    BY DEF Inv!Transition
  <2> HIDE DEF s
  <2>5. Inv!TerminalFits(n, s.event)
    BY <1>1, <2>2, <2>4 DEF Inv!TerminalFits
  <2> QED BY <1>1, <2>1, <2>2, <2>3, <2>4, <2>5 DEF n, s
<1>2. ASSUME NEW e, NEW a, NEW at, NEW u \in Users PROVE Next(Inv!Consume(i, e, a, at, u))
  BY <1>1, LineageAssumption DEF Inv!Consume, Inv!Open
<1>3. ASSUME NEW e, NEW a, NEW at PROVE Next(Inv!Revoke(i, e, a, at)) /\ Next(Inv!Expire(i, e, a, at))
  BY <1>1 DEF Inv!Revoke, Inv!Expire, Inv!Open
<1> HIDE DEF Next
<1>4. PICK a \in Principals, at \in Seconds :
        t \in Inv!Revoke(i, i.version, a, at) \cup Inv!Expire(i, i.version, a, at)
                \cup (UNION {Inv!Consume(i, i.version, a, at, u) : u \in Users})
  BY DEF Inv!Decisions
<1> QED BY <1>2, <1>3, <1>4 DEF Next

\* A key that may be loaded.
Keys == {k \in Key!Snapshot : Key!ValidSnapshot(k)}

LEMMA KeyIsCreated ==
  ASSUME NEW t \in Key!Creations
  PROVE  t.previous = None /\ t.event.kind = "Issued" /\ t.next \in Keys /\ t.next.version = 1
<1>1. PICK p \in Principals, s \in Secrets, at \in Seconds, e \in Seconds \cup {Never} :
        t \in Key!Issue(p, s, at, e)
  BY DEF Key!Creations
<1> DEFINE k == [version |-> 1, state |-> "Active", current |-> s, previous |-> None, started |-> None,
                 overlap |-> None, retired |-> <<>>, issued |-> at, expires |-> e]
<1>2. t = Key!Transition(None, k, p, at, "Issued") /\ Key!ValidWindow(k)
  BY <1>1 DEF Key!Issue
<1>3. k \in Key!Snapshot
  BY DEF Key!Snapshot
<1>4. /\ k.version = 1 /\ k.retired = << >> /\ k.previous = None /\ k.started = None /\ k.overlap = None
      /\ k.state = "Active"
  OBVIOUS
<1>5. t.previous = None /\ t.event.kind = "Issued" /\ t.next = k
  BY <1>2 DEF Key!Transition
<1> HIDE DEF k
<1>6. Key!ValidVersion(k) /\ Key!ValidRotation(k)
  BY <1>4 DEF Key!ValidVersion, Key!ValidRotation
<1>7. Key!Retired(k) = {} /\ DOMAIN k.retired = {} /\ Len(k.retired) = 0
  BY <1>4 DEF Key!Retired
<1>8. Key!ValidSnapshot(k)
  BY <1>2, <1>4, <1>6, <1>7, LineageAssumption DEF Key!ValidSnapshot
<1> QED BY <1>3, <1>4, <1>5, <1>8 DEF Keys

LEMMA KeyRotates ==
  ASSUME NEW k \in Keys, NEW actor, NEW at \in Seconds, NEW s \in Secrets, NEW overlap \in Seconds,
         NEW t \in Key!Rotate(k, actor, at, s, overlap)
  PROVE  /\ t.previous = k /\ t.event.kind = "Rotated" /\ t.next \in Keys /\ t.next.version = k.version + 1
         /\ Key!Usable(k) /\ t.next.retired = k.retired
         /\ t.event.actor = actor /\ t.event.at = at /\ t.next.current = s /\ t.next.overlap = overlap
         /\ Key!Rotate(k, actor, at, s, overlap) = {t}
<1>1. /\ at >= k.issued /\ k.state = "Active" /\ ~Key!Expired(k, at) /\ Key!ValidOverlap(k, at, overlap)
      /\ s \notin {k.current, k.previous} \cup Key!Retired(k) /\ Len(k.retired) < MaxRetired
  BY DEF Key!Rotate
<1>2. k \in Key!Snapshot /\ Key!ValidSnapshot(k) /\ k.version \in Nat /\ k.retired \in Seq(Secrets)
  BY DEF Keys, Key!Snapshot
<1>3. PICK v \in Nat : v = k.version + 1
  BY <1>2
<1> DEFINE n == [k EXCEPT !.version = v, !.state = "Rotating", !.current = s, !.previous = k.current,
                          !.started = at, !.overlap = overlap]
<1>4. t = Key!Transition(k, n, actor, at, "Rotated") /\ Key!Rotate(k, actor, at, s, overlap) = {t}
  BY <1>1, <1>3 DEF Key!Rotate
<1>5. n \in Key!Snapshot /\ k.current \in Secrets
  BY <1>2 DEF Key!Snapshot
<1>6. /\ n.version = v /\ n.state = "Rotating" /\ n.current = s /\ n.previous = k.current /\ n.started = at
      /\ n.overlap = overlap /\ n.retired = k.retired /\ n.issued = k.issued /\ n.expires = k.expires
  BY <1>2 DEF Key!Snapshot
<1>7. t.previous = k /\ t.next = n /\ t.event.kind = "Rotated" /\ t.event.actor = actor /\ t.event.at = at
  BY <1>4 DEF Key!Transition
<1> HIDE DEF n
<1>8. Key!ValidVersion(n)
  BY <1>1, <1>2, <1>3, <1>6 DEF Key!ValidVersion, Key!ValidSnapshot
<1>9. Key!ValidRotation(n)
  BY <1>1, <1>2, <1>5, <1>6, LineageAssumption DEF Key!ValidRotation, Key!ValidOverlap, Key!Expired
<1>10. Key!Retired(n) = Key!Retired(k) /\ Key!ValidWindow(n)
  BY <1>2, <1>6 DEF Key!Retired, Key!ValidWindow, Key!ValidSnapshot
<1>11. {n.current, n.previous} \cap Key!Retired(n) = {}
  BY <1>1, <1>2, <1>6, <1>10 DEF Key!ValidSnapshot
<1>12. Key!ValidSnapshot(n)
  BY <1>1, <1>2, <1>6, <1>8, <1>9, <1>10, <1>11, LineageAssumption DEF Key!ValidSnapshot
<1> QED BY <1>1, <1>3, <1>4, <1>5, <1>6, <1>7, <1>12 DEF Keys, Key!Usable

LEMMA KeyRetires ==
  ASSUME NEW k \in Keys, NEW state \in {"Active", "Revoked", "Expired"}, NEW actor, NEW at, NEW what, Key!Usable(k),
         state = "Active" => k.state = "Rotating", state = "Expired" => k.expires # Never,
         NEW t \in Key!Retiring(k, state, actor, at, what)
  PROVE  /\ t.previous = k /\ t.event.kind = what /\ t.next \in Keys /\ t.next.version = k.version + 1
         /\ Key!Retired(k) \subseteq Key!Retired(t.next)
         /\ t.event.actor = actor /\ t.event.at = at
         /\ Key!Retiring(k, state, actor, at, what) = {t}
<1>1. ~(k.previous # None /\ Len(k.retired) >= MaxRetired)
  BY DEF Key!Retiring
<1>2. /\ k \in Key!Snapshot /\ Key!ValidSnapshot(k) /\ k.version \in Nat /\ k.retired \in Seq(Secrets)
      /\ k.previous \in Secrets \cup {None}
  BY DEF Keys, Key!Snapshot
<1>3. PICK v \in Nat : v = k.version + 1
  BY <1>2
<1> DEFINE gone == IF k.previous = None THEN k.retired ELSE Append(k.retired, k.previous)
           n == [k EXCEPT !.version = v, !.state = state, !.previous = None, !.started = None, !.overlap = None,
                          !.retired = gone]
<1>4. t = Key!Transition(k, n, actor, at, what) /\ Key!Retiring(k, state, actor, at, what) = {t}
  BY <1>1, <1>3 DEF Key!Retiring
<1>5. gone \in Seq(Secrets)
  BY <1>2
<1>6. n \in Key!Snapshot
  <2> HIDE DEF gone
  <2> QED BY <1>2, <1>5 DEF Key!Snapshot
<1>7. /\ n.version = v /\ n.state = state /\ n.current = k.current /\ n.previous = None /\ n.started = None
      /\ n.overlap = None /\ n.retired = gone /\ n.issued = k.issued /\ n.expires = k.expires
  <2> HIDE DEF gone
  <2> QED BY <1>2 DEF Key!Snapshot
<1>8. t.previous = k /\ t.next = n /\ t.event.kind = what /\ t.event.actor = actor /\ t.event.at = at
  BY <1>4 DEF Key!Transition
<1> HIDE DEF n
<1>9. Key!ValidRotation(n) /\ Key!ValidWindow(n)
  BY <1>2, <1>7 DEF Key!ValidRotation, Key!ValidWindow, Key!ValidSnapshot
<1>10. k.state = "Rotating" <=> k.previous # None
  BY <1>2 DEF Key!ValidSnapshot, Key!ValidRotation
<1>11. CASE k.previous = None
  <2>1. gone = k.retired /\ k.state = "Active" /\ state # "Active"
    BY <1>10, <1>11 DEF Key!Usable
  <2> HIDE DEF gone
  <2>2. Key!ValidVersion(n)
    BY <1>2, <1>3, <1>7, <2>1 DEF Key!ValidVersion, Key!ValidSnapshot
  <2>3. Key!Retired(n) = Key!Retired(k)
    BY <1>7, <2>1 DEF Key!Retired
  <2>4. None \notin Key!Retired(k)
    BY <1>2, LineageAssumption DEF Key!Retired
  <2>5. Key!ValidSnapshot(n)
    BY <1>2, <1>7, <1>9, <2>1, <2>2, <2>3, <2>4 DEF Key!ValidSnapshot
  <2> QED BY <1>3, <1>4, <1>6, <1>7, <1>8, <2>3, <2>5 DEF Keys
<1>12. CASE k.previous # None
  <2>1. gone = Append(k.retired, k.previous) /\ k.state = "Rotating" /\ k.previous \in Secrets
    BY <1>2, <1>10, <1>12
  <2> HIDE DEF gone
  <2>2. /\ Len(gone) = Len(k.retired) + 1 /\ gone \in Seq(Secrets) /\ DOMAIN gone = 1..Len(gone)
        /\ \A m \in 1..Len(k.retired) : gone[m] = k.retired[m]
        /\ gone[Len(gone)] = k.previous /\ DOMAIN k.retired = 1..Len(k.retired) /\ Len(k.retired) \in Nat
    BY <1>2, <2>1
  <2>3. Key!ValidVersion(n)
    <3>1. gone # << >>
      BY <2>2
    <3> QED BY <1>2, <1>3, <1>7, <2>1, <2>2, <3>1 DEF Key!ValidVersion, Key!ValidSnapshot
  <2>4. Key!Retired(n) = Key!Retired(k) \cup {k.previous}
    BY <1>7, <2>2 DEF Key!Retired
  <2>5. None \notin Key!Retired(n) /\ k.current # k.previous /\ k.current \notin Key!Retired(k)
        /\ k.previous \notin Key!Retired(k)
    <3>1. None \notin Key!Retired(k)
      BY <1>2, LineageAssumption DEF Key!Retired
    <3> QED BY <1>2, <1>12, <2>4, <3>1 DEF Key!ValidSnapshot, Key!ValidRotation
  <2>6. {n.current, n.previous} \cap Key!Retired(n) = {}
    BY <1>7, <2>4, <2>5
  <2>7. ASSUME NEW m \in DOMAIN n.retired, NEW j \in DOMAIN n.retired, n.retired[m] = n.retired[j] PROVE m = j
    <3>1. \A i \in 1..Len(k.retired) : k.retired[i] # k.previous
      BY <2>2, <2>5 DEF Key!Retired
    <3>2. \A i, l \in 1..Len(k.retired) : k.retired[i] = k.retired[l] => i = l
      BY <1>2, <2>2 DEF Key!ValidSnapshot
    <3>3. m \in 1..(Len(k.retired) + 1) /\ j \in 1..(Len(k.retired) + 1)
      BY <1>7, <2>2, <2>7
    <3> QED BY <1>7, <2>2, <2>7, <3>1, <3>2, <3>3
  <2>8. Len(n.retired) <= MaxRetired
    BY <1>1, <1>7, <1>12, <2>2, LineageAssumption
  <2>9. Key!ValidSnapshot(n)
    BY <1>7, <1>9, <2>3, <2>6, <2>7, <2>8 DEF Key!ValidSnapshot
  <2> QED BY <1>3, <1>4, <1>6, <1>7, <1>8, <2>4, <2>9 DEF Keys
<1> QED BY <1>11, <1>12

\* The event of a transition is decided again as the same transition.
KeyReplays(k, t) == Key!Replay(k, [event |-> t.event, next |-> t.next]) = {t}

LEMMA KeyDecides ==
  ASSUME NEW k \in Keys, NEW t \in Key!Decisions(k)
  PROVE  /\ t.previous = k /\ t.event.kind # "Issued" /\ t.next \in Keys /\ t.next.version = k.version + 1
         /\ Key!Usable(k) /\ Key!Retired(k) \subseteq Key!Retired(t.next)
         /\ KeyReplays(k, t)
<1> DEFINE Next(T) == \A u \in T : /\ u.previous = k /\ u.event.kind # "Issued"
                                   /\ u.next \in Keys /\ u.next.version = k.version + 1
                                   /\ Key!Usable(k) /\ Key!Retired(k) \subseteq Key!Retired(u.next)
                                   /\ KeyReplays(k, u)
<1>1. ASSUME NEW a, NEW at, NEW u \in Key!CompleteRotation(k, a, at) PROVE Next({u})
  <2>1. /\ Key!CompleteRotation(k, a, at) = Key!Retiring(k, "Active", a, at, "RotationCompleted")
        /\ k.state = "Rotating"
    BY <1>1 DEF Key!CompleteRotation
  <2>2. /\ u.previous = k /\ u.event.kind = "RotationCompleted" /\ u.next \in Keys
        /\ u.next.version = k.version + 1 /\ Key!Retired(k) \subseteq Key!Retired(u.next)
        /\ u.event.actor = a /\ u.event.at = at /\ Key!CompleteRotation(k, a, at) = {u} /\ Key!Usable(k)
    BY <1>1, <2>1, KeyRetires DEF Key!Usable
  <2>3. KeyReplays(k, u)
    BY <2>2 DEF KeyReplays, Key!Replay
  <2> QED BY <2>2, <2>3
<1>2. ASSUME NEW a, NEW at, NEW u \in Key!Revoke(k, a, at) PROVE Next({u})
  <2>1. Key!Revoke(k, a, at) = Key!Retiring(k, "Revoked", a, at, "Revoked") /\ Key!Usable(k)
    BY <1>2 DEF Key!Revoke
  <2>2. /\ u.previous = k /\ u.event.kind = "Revoked" /\ u.next \in Keys
        /\ u.next.version = k.version + 1 /\ Key!Retired(k) \subseteq Key!Retired(u.next)
        /\ u.event.actor = a /\ u.event.at = at /\ Key!Revoke(k, a, at) = {u}
    BY <1>2, <2>1, KeyRetires
  <2>3. KeyReplays(k, u)
    BY <2>2 DEF KeyReplays, Key!Replay
  <2> QED BY <2>1, <2>2, <2>3
<1>3. ASSUME NEW a, NEW at, NEW u \in Key!Expire(k, a, at) PROVE Next({u})
  <2>1. /\ Key!Expire(k, a, at) = Key!Retiring(k, "Expired", a, at, "Expired") /\ Key!Usable(k)
        /\ k.expires # Never
    BY <1>3 DEF Key!Expire, Key!Expired
  <2>2. /\ u.previous = k /\ u.event.kind = "Expired" /\ u.next \in Keys
        /\ u.next.version = k.version + 1 /\ Key!Retired(k) \subseteq Key!Retired(u.next)
        /\ u.event.actor = a /\ u.event.at = at /\ Key!Expire(k, a, at) = {u}
    BY <1>3, <2>1, KeyRetires
  <2>3. KeyReplays(k, u)
    BY <2>2 DEF KeyReplays, Key!Replay
  <2> QED BY <2>1, <2>2, <2>3
<1>4. ASSUME NEW a, NEW at \in Seconds, NEW s \in Secrets, NEW o \in Seconds, NEW u \in Key!Rotate(k, a, at, s, o)
      PROVE  Next({u})
  <2>1. /\ u.previous = k /\ u.event.kind = "Rotated" /\ u.next \in Keys /\ u.next.version = k.version + 1
        /\ Key!Usable(k) /\ Key!Retired(k) \subseteq Key!Retired(u.next) /\ u.event.actor = a /\ u.event.at = at
        /\ u.next.current = s /\ u.next.overlap = o /\ Key!Rotate(k, a, at, s, o) = {u}
    BY <1>4, KeyRotates DEF Key!Retired
  <2>2. KeyReplays(k, u)
    BY <2>1 DEF KeyReplays, Key!Replay
  <2> QED BY <2>1, <2>2
<1>5. \E a \in Principals, at \in Seconds :
        t \in Key!CompleteRotation(k, a, at) \cup Key!Revoke(k, a, at) \cup Key!Expire(k, a, at)
                \cup (UNION {Key!Rotate(k, a, at, s, o) : s \in Secrets, o \in Seconds})
  BY DEF Key!Decisions
<1>6. Next({t})
  <2> HIDE DEF Next
  <2> QED BY <1>1, <1>2, <1>3, <1>4, <1>5
<1> QED BY <1>6

-----------------------------------------------------------------------------
(* Any number of callers decide on what they have loaded and commit later. *)

\* What every lineage has as its snapshot, or as the lack of one.
SnapshotOK(a) ==
  /\ kind = "user" => UserOK(a)
  /\ kind = "invitation" => a = None \/ a \in Invitations
  /\ kind = "api_key" => a = None \/ a \in Keys

LEMMA Decides ==
  ASSUME kind \in Kinds, NEW a, SnapshotOK(a), NEW t \in Decided(a)
  PROVE  /\ t.previous = a /\ SnapshotOK(t.next)
         /\ kind = "user" => t.next.version = a.version + 1
         /\ kind \in {"invitation", "api_key"} =>
              /\ t.next # None /\ t.next.version \in Nat
              /\ t.event.kind = "Issued" <=> a = None
              /\ a # None => a.version \in Nat /\ t.next.version = a.version + 1
<1>1. CASE kind = "organization"
  BY <1>1, OrganizationDecides DEF Decided, SnapshotOK
<1>2. CASE kind = "user"
  <2>1. UserMoves(a, t)
    BY <1>2, UserDecides DEF Decided, SnapshotOK
  <2> QED BY <1>2, <2>1 DEF UserMoves, SnapshotOK
<1>3. CASE kind = "invitation"
  <2>1. None \notin Invitations /\ \A i \in Invitations : i.version \in Nat
    BY AbsenceAssumption DEF Invitations, Inv!Snapshot
  <2>2. CASE a = None
    BY <1>3, <2>1, <2>2, InvitationCreates DEF Decided, SnapshotOK
  <2>3. CASE a # None
    BY <1>3, <2>1, <2>3, InvitationDecides DEF Decided, SnapshotOK
  <2> QED BY <2>2, <2>3
<1>4. CASE kind = "api_key"
  <2>1. None \notin Keys /\ \A k \in Keys : k.version \in Nat
    BY AbsenceAssumption DEF Keys, Key!Snapshot
  <2>2. CASE a = None
    BY <1>4, <2>1, <2>2, KeyIsCreated DEF Decided, SnapshotOK
  <2>3. CASE a # None
    BY <1>4, <2>1, <2>3, KeyDecides DEF Decided, SnapshotOK
  <2> QED BY <2>2, <2>3
<1> QED BY <1>1, <1>2, <1>3, <1>4, KindsAssumption

\* The snapshot an attempt was decided on is one the aggregate has had, so that
\* the version tells whether it still is the one.
Had(a) == a.version <= aggregate.version /\ (a.version = aggregate.version => a = aggregate)

\* An attempt is a decision on a snapshot the aggregate has had.
AttemptOK(c) ==
  LET a == attempt[c] IN
  a # NoAttempt =>
    /\ a = [doubt |-> a.doubt, request |-> a.request, plan |-> a.plan, expected |-> a.expected]
    /\ SnapshotOK(a.plan.previous) /\ a.plan \in Decided(a.plan.previous)
    /\ a.expected = IF a.plan.previous = None THEN 1 ELSE a.plan.previous.version
    /\ kind = "user" => Had(a.plan.previous)
    /\ kind \in {"invitation", "api_key"} /\ a.plan.previous # None => aggregate # None /\ Had(a.plan.previous)

StoreIInv ==
  /\ kind \in Kinds /\ SnapshotOK(aggregate)
  /\ attempt = [c \in Callers |-> attempt[c]]
  /\ \A c \in Callers : AttemptOK(c)

LEMMA StoreStarts == StoreInit => StoreIInv
<1> SUFFICES ASSUME StoreInit PROVE StoreIInv
  OBVIOUS
<1>1. kind \in Kinds /\ aggregate = Unborn(kind)
  BY DEF StoreInit, LineageInit
<1>2. SnapshotOK(aggregate)
  <2>1. kind = "user" => UserOK(aggregate)
    BY <1>1, InvitedOK DEF Unborn
  <2>2. kind # "user" => aggregate = None
    BY <1>1 DEF Unborn
  <2> QED BY <2>1, <2>2 DEF SnapshotOK
<1> QED BY <1>1, <1>2 DEF StoreInit, StoreIInv, AttemptOK

\* What is accepted was decided on the durable snapshot: there is no lost update.
LEMMA AcceptedIsCurrent ==
  ASSUME StoreIInv, NEW c \in Callers, attempt[c] # NoAttempt, Accepted(attempt[c])
  PROVE  attempt[c].plan.previous = aggregate /\ attempt[c].plan \in Decided(aggregate)
<1> DEFINE a == attempt[c]
           t == a.plan
<1>1. /\ kind \in Kinds /\ SnapshotOK(t.previous) /\ t \in Decided(t.previous)
      /\ a.expected = IF t.previous = None THEN 1 ELSE t.previous.version
      /\ kind = "user" => Had(t.previous)
      /\ kind \in {"invitation", "api_key"} /\ t.previous # None => Had(t.previous)
  BY DEF StoreIInv, AttemptOK
<1>2. /\ kind = "user" => t.previous.version \in Nat /\ t.next.version = t.previous.version + 1
      /\ kind \in {"invitation", "api_key"} => (t.event.kind = "Issued" <=> t.previous = None)
  BY <1>1, Decides DEF SnapshotOK, UserOK
<1>3. Accepted(a)
  OBVIOUS
<1> HIDE DEF a, t
<1>4. ASSUME kind = "organization" PROVE t.previous = aggregate
  BY <1>3, <1>4 DEF Accepted, Org!Accepts, t
<1>5. ASSUME kind = "user" PROVE t.previous = aggregate
  <2>1. t.next.version = a.expected + 1 /\ aggregate.version = a.expected
    BY <1>3, <1>5 DEF Accepted, Usr!Accepts, t
  <2>2. a.expected = t.previous.version
    BY <1>1, <1>2, <1>5, <2>1
  <2> QED BY <1>1, <1>5, <2>1, <2>2 DEF Had
<1>6. ASSUME kind = "invitation" PROVE t.previous = aggregate
  BY <1>1, <1>2, <1>3, <1>6 DEF Accepted, Inv!Accepts, Had, t
<1>7. ASSUME kind = "api_key" PROVE t.previous = aggregate
  BY <1>1, <1>2, <1>3, <1>7 DEF Accepted, Key!Accepts, Had, t
<1>8. t.previous = aggregate
  BY <1>1, <1>4, <1>5, <1>6, <1>7, KindsAssumption
<1> QED BY <1>1, <1>8 DEF a, t

LEMMA AttemptKeeps ==
  ASSUME StoreIInv, NEW c \in Callers, Attempt(c)
  PROVE  StoreIInv'
<1>1. PICK t \in Decided(aggregate) :
        attempt' = [attempt EXCEPT ![c] =
            [doubt |-> FALSE, request |-> made_by + 1, plan |-> t,
             expected |-> IF t.previous = None THEN 1 ELSE aggregate.version]]
  BY DEF Attempt
<1>2. kind' = kind /\ aggregate' = aggregate
  BY DEF Attempt
<1>3. t.previous = aggregate
  BY <1>1, Decides DEF StoreIInv
<1>4. attempt' = [d \in Callers |-> attempt'[d]] /\ \A d \in Callers \ {c} : attempt'[d] = attempt[d]
  BY <1>1 DEF StoreIInv
<1>5. SnapshotOK(aggregate)' /\ Decided(aggregate)' = Decided(aggregate)
  BY <1>2 DEF StoreIInv, SnapshotOK, Decided
<1>6. ASSUME NEW d \in Callers PROVE AttemptOK(d)'
  <2>1. CASE d = c
    <3> DEFINE a == [doubt |-> FALSE, request |-> made_by + 1, plan |-> t,
                     expected |-> IF t.previous = None THEN 1 ELSE aggregate.version]
    <3>1. attempt'[c] = a
      BY <1>1 DEF StoreIInv
    <3>2. a = [doubt |-> a.doubt, request |-> a.request, plan |-> a.plan, expected |-> a.expected]
          /\ a.plan = t /\ a.expected = IF t.previous = None THEN 1 ELSE aggregate.version
      OBVIOUS
    <3> HIDE DEF a
    <3>3. kind' = "user" => aggregate.version <= aggregate.version
      BY <1>2 DEF StoreIInv, SnapshotOK, UserOK
    <3>4. kind' \in {"invitation", "api_key"} /\ aggregate # None => aggregate.version <= aggregate.version
      BY <1>1, <1>2, Decides DEF StoreIInv
    <3> QED BY <1>1, <1>2, <1>3, <1>5, <2>1, <3>1, <3>2, <3>3, <3>4
            DEF StoreIInv, AttemptOK, Had, SnapshotOK, Decided
  <2>2. CASE d # c
    BY <1>2, <1>4, <2>2 DEF StoreIInv, AttemptOK, Had, SnapshotOK, Decided
  <2> QED BY <2>1, <2>2
<1> QED BY <1>2, <1>4, <1>5, <1>6 DEF StoreIInv

\* An attempt ends, or is marked as in doubt: its decision stays what it was.
EndsOrDoubts(c) == Settled(c) \/ InDoubtFor(c)

LEMMA AttemptsStay ==
  ASSUME StoreIInv, NEW c \in Callers, attempt[c] # NoAttempt, EndsOrDoubts(c)
  PROVE  /\ attempt' = [d \in Callers |-> attempt'[d]]
         /\ \A d \in Callers : attempt'[d] # NoAttempt =>
              /\ attempt[d] # NoAttempt
              /\ attempt'[d] = [doubt |-> attempt'[d].doubt, request |-> attempt'[d].request,
                               plan |-> attempt'[d].plan, expected |-> attempt'[d].expected]
              /\ attempt'[d].plan = attempt[d].plan /\ attempt'[d].expected = attempt[d].expected
<1>1. attempt = [d \in Callers |-> attempt[d]] /\ \A d \in Callers : AttemptOK(d)
  BY DEF StoreIInv
<1>2. CASE Settled(c)
  BY <1>1, <1>2 DEF Settled, AttemptOK
<1>3. CASE InDoubtFor(c)
  <2> DEFINE a == [attempt[c] EXCEPT !.doubt = TRUE]
  <2>1. attempt' = [attempt EXCEPT ![c] = a]
    BY <1>1, <1>3 DEF InDoubtFor
  <2>2. /\ a = [doubt |-> a.doubt, request |-> a.request, plan |-> a.plan, expected |-> a.expected]
        /\ a.plan = attempt[c].plan /\ a.expected = attempt[c].expected
    <3>1. PICK x, y, z, w : attempt[c] = [doubt |-> x, request |-> y, plan |-> z, expected |-> w]
      BY <1>1 DEF AttemptOK
    <3>2. PICK yes : yes = TRUE
      OBVIOUS
    <3>3. a = [attempt[c] EXCEPT !.doubt = yes]
      BY <3>2, Zenon
    <3> HIDE DEF a
    <3>4. a = [doubt |-> yes, request |-> y, plan |-> z, expected |-> w]
      BY <3>1, <3>3
    <3> QED BY <3>1, <3>4
  <2> HIDE DEF a
  <2> QED BY <1>1, <2>1, <2>2 DEF AttemptOK
<1> QED BY <1>2, <1>3 DEF EndsOrDoubts

\* Where the aggregate does not change, or changes by a decision on what it was,
\* the attempts that are left stay decisions on snapshots it has had.
LEMMA StoreKeeps ==
  ASSUME StoreIInv, NEW c \in Callers, attempt[c] # NoAttempt, EndsOrDoubts(c), kind' = kind,
         aggregate' = aggregate \/ \E t \in Decided(aggregate) : aggregate' = t.next
  PROVE  StoreIInv'
<1>1. SnapshotOK(aggregate)'
  <2>1. CASE aggregate' = aggregate
    BY <2>1 DEF StoreIInv, SnapshotOK
  <2>2. CASE \E t \in Decided(aggregate) : aggregate' = t.next
    <3>1. PICK t \in Decided(aggregate) : aggregate' = t.next
      BY <2>2
    <3>2. SnapshotOK(t.next)
      BY <3>1, Decides DEF StoreIInv
    <3> QED BY <3>1, <3>2 DEF SnapshotOK
  <2> QED BY <2>1, <2>2
<1>2. ASSUME NEW d \in Callers, attempt'[d] # NoAttempt PROVE AttemptOK(d)'
  <2> DEFINE p == attempt[d].plan.previous
  <2>1. /\ SnapshotOK(p) /\ attempt[d].plan \in Decided(p)
        /\ attempt[d].expected = IF p = None THEN 1 ELSE p.version
        /\ kind = "user" => Had(p)
        /\ kind \in {"invitation", "api_key"} /\ p # None => aggregate # None /\ Had(p)
    BY <1>2, AttemptsStay DEF StoreIInv, AttemptOK
  <2>2. kind = "user" => Had(p)'
    <3>1. SUFFICES ASSUME kind = "user" PROVE p.version <= aggregate'.version
                     /\ (p.version = aggregate'.version => p = aggregate')
      BY <1>2, AttemptsStay DEF Had
    <3>2. p.version \in Nat /\ aggregate.version \in Nat /\ Had(p)
      BY <2>1, <3>1 DEF StoreIInv, SnapshotOK, UserOK
    <3>3. aggregate' = aggregate \/ aggregate'.version = aggregate.version + 1
      BY <3>1, Decides DEF StoreIInv
    <3> QED BY <3>2, <3>3 DEF Had
  <2>3. kind \in {"invitation", "api_key"} /\ p # None => aggregate' # None /\ Had(p)'
    <3>1. SUFFICES ASSUME kind \in {"invitation", "api_key"}, p # None
                   PROVE  /\ aggregate' # None /\ p.version <= aggregate'.version
                          /\ p.version = aggregate'.version => p = aggregate'
      BY <1>2, AttemptsStay DEF Had
    <3>2. aggregate # None /\ Had(p)
      BY <2>1, <3>1
    <3>3. p.version \in Nat
      BY <2>1, <3>1, Decides DEF StoreIInv
    <3>4. \/ aggregate' = aggregate
          \/ aggregate' # None /\ aggregate.version \in Nat /\ aggregate'.version = aggregate.version + 1
      BY <3>1, <3>2, Decides DEF StoreIInv
    <3> QED BY <3>2, <3>3, <3>4 DEF Had
  <2>4. SnapshotOK(p)' /\ Decided(p)' = Decided(p)
    BY <1>2, <2>1, AttemptsStay DEF SnapshotOK, Decided
  <2> QED BY <1>2, <2>1, <2>2, <2>3, <2>4, AttemptsStay DEF AttemptOK
<1>3. \A d \in Callers : AttemptOK(d)'
  BY <1>2 DEF AttemptOK
<1> QED BY <1>1, <1>3, AttemptsStay DEF StoreIInv

LEMMA StoreStep ==
  ASSUME StoreIInv, [StoreNext]_storeVars
  PROVE  StoreIInv' /\ [LineageNext]_lineageVars
<1>1. ASSUME NEW c \in Callers, Attempt(c) PROVE StoreIInv' /\ [LineageNext]_lineageVars
  <2>1. StoreIInv'
    BY <1>1, AttemptKeeps
  <2> QED BY <1>1, <2>1 DEF Attempt, lineageVars
<1>2. ASSUME NEW c \in Callers, CommitRefused(c) \/ CommitUnknown(c) \/ ReconcileAnswers(c)
      PROVE  StoreIInv' /\ [LineageNext]_lineageVars
  <2>1. attempt[c] # NoAttempt /\ EndsOrDoubts(c) /\ UNCHANGED lineageVars
    BY <1>2 DEF CommitRefused, CommitUnknown, ReconcileAnswers, EndsOrDoubts, lineageVars
  <2>2. StoreIInv'
    BY <2>1, StoreKeeps DEF lineageVars
  <2> QED BY <2>1, <2>2
<1>3. ASSUME NEW c \in Callers, CommitTakes(c) PROVE StoreIInv' /\ [LineageNext]_lineageVars
  <2>1. attempt[c] # NoAttempt /\ EndsOrDoubts(c) /\ kind' = kind /\ aggregate' = attempt[c].plan.next
    BY <1>3 DEF CommitTakes, EndsOrDoubts
  <2>2. attempt[c].plan \in Decided(aggregate)
    BY <1>3, AcceptedIsCurrent DEF CommitTakes
  <2>3. StoreIInv'
    BY <2>1, <2>2, StoreKeeps
  <2> QED BY <2>1, <2>2, <2>3 DEF LineageNext
<1>4. CASE UNCHANGED <<kind, aggregate, attempt>>
  <2>1. StoreIInv'
    BY <1>4 DEF StoreIInv, AttemptOK, SnapshotOK, Had, Decided
  <2> QED BY <1>4, <2>1 DEF lineageVars
<1> QED BY <1>1, <1>2, <1>3, <1>4 DEF StoreNext, storeVars, LinkSevered, BindingRevoked

\* For any number of callers and attempts, whatever the transactions' outcomes
\* and however late they are reconciled: the durable aggregate only ever moves by
\* one decision of the domain on the snapshot it replaces.  compare_and_commit
\* compares versions; that is enough because a version names one snapshot.
THEOREM StoreRefinesTheDomain == StoreSpec => StoreFollowsTheDomain
<1>1. StoreInit => LineageInit
  BY DEF StoreInit
<1>2. [LineageNext]_lineageVars => (UNCHANGED lineageVars \/ LineageNext)
  OBVIOUS
<1> QED BY <1>1, <1>2, StoreStarts, StoreStep, PTL DEF StoreSpec, StoreFollowsTheDomain

-----------------------------------------------------------------------------
(* Along a lineage.                                                        *)

LineageIInv == kind \in Kinds /\ SnapshotOK(aggregate)

LEMMA LineageInvariant == LineageSpec => []LineageIInv
<1>1. LineageInit => LineageIInv
  <2> SUFFICES ASSUME LineageInit PROVE LineageIInv
    OBVIOUS
  <2>1. kind \in Kinds /\ (kind = "user" => UserOK(aggregate)) /\ (kind # "user" => aggregate = None)
    BY InvitedOK DEF LineageInit, Unborn
  <2> QED BY <2>1 DEF LineageIInv, SnapshotOK
<1>2. LineageIInv /\ [LineageNext]_lineageVars => LineageIInv'
  <2> SUFFICES ASSUME LineageIInv, [LineageNext]_lineageVars PROVE LineageIInv'
    OBVIOUS
  <2>1. CASE LineageNext
    <3>1. PICK t \in Decided(aggregate) : aggregate' = t.next /\ kind' = kind
      BY <2>1 DEF LineageNext
    <3>2. SnapshotOK(t.next)
      BY <3>1, Decides DEF LineageIInv
    <3> QED BY <3>1, <3>2 DEF LineageIInv, SnapshotOK
  <2>2. CASE UNCHANGED lineageVars
    BY <2>2 DEF LineageIInv, SnapshotOK, lineageVars
  <2> QED BY <2>1, <2>2
<1> QED BY <1>1, <1>2, PTL DEF LineageSpec

LEMMA SnapshotLoads ==
  ASSUME LineageIInv, kind # "organization", aggregate # None
  PROVE  Loadable(aggregate)
BY KindsAssumption DEF LineageIInv, SnapshotOK, Loadable, UserOK, Invitations, Keys

LEMMA DecisionReplays ==
  ASSUME LineageIInv, kind # "organization", NEW t \in Decided(aggregate)
  PROVE  Replays(t)
<1>1. CASE kind = "user"
  <2>1. UserMoves(aggregate, t)
    BY <1>1, UserDecides DEF LineageIInv, SnapshotOK, Decided
  <2> QED BY <1>1, <2>1 DEF UserMoves, Replays
<1>2. CASE kind = "invitation"
  <2>1. t.previous = aggregate /\ (aggregate = None \/ aggregate \in Invitations)
    BY <1>2, Decides DEF LineageIInv, SnapshotOK
  <2>2. IF aggregate = None THEN t \in Inv!Creations ELSE t \in Inv!Decisions(aggregate)
    BY <1>2 DEF Decided
  <2>3. CASE aggregate = None
    BY <1>2, <2>1, <2>2, <2>3, InvitationCreates DEF Replays
  <2>4. CASE aggregate # None
    BY <1>2, <2>1, <2>2, <2>4, InvitationDecides DEF Replays
  <2> QED BY <2>3, <2>4
<1>3. CASE kind = "api_key"
  <2>1. t.previous = aggregate /\ (aggregate = None \/ aggregate \in Keys)
    BY <1>3, Decides DEF LineageIInv, SnapshotOK
  <2>2. aggregate # None => t \in Key!Decisions(aggregate)
    BY <1>3 DEF Decided
  <2>3. aggregate # None => KeyReplays(aggregate, t)
    BY <2>1, <2>2, KeyDecides
  <2> QED BY <1>3, <2>1, <2>3 DEF KeyReplays, Replays
<1> QED BY <1>1, <1>2, <1>3, KindsAssumption DEF LineageIInv

\* For histories of any length: no legal sequence of commands leads to a user,
\* an invitation or a key that its repository refuses to load, and the machines
\* that verify and replay the persisted events accept every event the domain
\* emits.  (For organizations, whose formula counts memberships, this is left
\* to the model checker.)
THEOREM HistoriesStayLoadable ==
  LineageSpec => [](kind # "organization" => LineageStaysLoadable)
<1>1. LineageIInv => (kind # "organization" => LineageStaysLoadable)
  BY SnapshotLoads, DecisionReplays DEF LineageStaysLoadable
<1> QED BY <1>1, LineageInvariant, PTL

\* What a key honours is not what it gave up.
LEMMA HonoursLive ==
  ASSUME NEW k \in Keys, Key!Usable(k), NEW s \in Key!Retired(k), NEW at
  PROVE  ~Key!Honours(k, s, at)
BY DEF Keys, Key!ValidSnapshot, Key!Honours

LEMMA SecretsStep ==
  ASSUME LineageIInv, LineageNext, kind = "api_key", aggregate # None,
         NEW s \in GivenUp(aggregate) \cup GivenUp(aggregate'), NEW at \in Seconds
  PROVE  ~Key!Honours(aggregate', s, at)
<1>1. PICK t \in Decided(aggregate) : aggregate' = t.next
  BY DEF LineageNext
<1>2. aggregate \in Keys /\ t \in Key!Decisions(aggregate)
  BY <1>1 DEF LineageIInv, SnapshotOK, Decided
<1>3. aggregate' \in Keys /\ Key!Usable(aggregate) /\ Key!Retired(aggregate) \subseteq Key!Retired(aggregate')
  BY <1>1, <1>2, KeyDecides
<1>4. CASE Key!Usable(aggregate')
  <2>1. s \in Key!Retired(aggregate')
    BY <1>3, <1>4 DEF GivenUp
  <2> QED BY <1>3, <1>4, <2>1, HonoursLive
<1>5. CASE ~Key!Usable(aggregate')
  BY <1>5 DEF Key!Honours
<1> QED BY <1>4, <1>5

\* For keys of any number of secrets and rotations: a secret that a key gave up,
\* by a completed rotation, a revocation or its expiry, is not honoured again,
\* whatever commands follow and however a presentation is dated.
THEOREM SecretsAreNeverRevived == LineageSpec => SecretsStayRetired
<1>1. LineageIInv /\ [LineageNext]_lineageVars =>
        [kind = "api_key" /\ aggregate # None =>
           \A s \in GivenUp(aggregate) \cup GivenUp(aggregate'), at \in Seconds :
               ~Key!Honours(aggregate', s, at)]_lineageVars
  BY SecretsStep
<1> QED BY <1>1, LineageInvariant, PTL DEF LineageSpec, SecretsStayRetired

LEMMA StoreIsALineage == StoreSpec => LineageSpec
<1>1. StoreInit => LineageInit
  BY DEF StoreInit
<1> QED BY <1>1, StoreStarts, StoreStep, PTL DEF StoreSpec, LineageSpec

\* The same of the repository: no race of callers and no commit in doubt revives
\* a secret in the durable key.
THEOREM StoredSecretsStayRetired == StoreSpec => SecretsStayRetired
BY StoreIsALineage, SecretsAreNeverRevived

\* And no race or doubt leaves a durable snapshot that cannot be loaded.
THEOREM StoredHistoriesStayLoadable ==
  StoreSpec => [](kind # "organization" => LineageStaysLoadable)
BY StoreIsALineage, HistoriesStayLoadable

-----------------------------------------------------------------------------
(* The vault and its rotation journal.                                     *)

Column == Nat \cup {NoTime}

RotationPhases == {"Prepared", "NewVersionStored", "Active", "Completed", "Compensating", "Failed"}

RotationRows ==
    [previous : References, next : References, overlap_seconds : Nat, phase : RotationPhases,
     revision : 1..5, stored : Column, activated : Column, ends : Column,
     previous_revoked : Column, compensated : Column, updated : Nat]

SecretRows == [state : {"active", "revoked"}, created : Nat, revoked : Column]

VaultEntries == [kind : {"store", "revoke"}, reference : References, committed_at : Nat]

RotationEntries ==
    [rotation : Nat, transition : RotationTransitions \cup {"prepare"}, prior : 0..4,
     revision : 1..5, phase : RotationPhases, committed_at : Nat]

VaultTypeOK ==
    /\ vaultClock \in Nat
    /\ DOMAIN secrets \subseteq References
    /\ secrets \in [DOMAIN secrets -> SecretRows]
    /\ vaultLog \in Seq(VaultEntries)
    /\ journals \in Seq(RotationRows)
    /\ rotationLog \in Seq(RotationEntries)

\* A row of the journal, phase by phase.
HoldsVersion(row) == row.stored \in Nat /\ row.stored <= row.updated
Ran(row) ==
    /\ row.activated \in Nat /\ row.stored <= row.activated /\ row.activated <= row.updated
    /\ row.ends = row.activated + row.overlap_seconds * PerSecond
NeverRan(row) == row.activated = NoTime /\ row.ends = NoTime
NotEnded(row) == row.previous_revoked = NoTime /\ row.compensated = NoTime

RowFits(row) ==
    \/ /\ row.phase = "Prepared" /\ row.revision = 1
       /\ row.stored = NoTime /\ NeverRan(row) /\ NotEnded(row)
    \/ /\ row.phase = "NewVersionStored" /\ row.revision = 2
       /\ HoldsVersion(row) /\ NeverRan(row) /\ NotEnded(row)
    \/ /\ row.phase = "Active" /\ row.revision = 3
       /\ HoldsVersion(row) /\ Ran(row) /\ NotEnded(row)
    \/ /\ row.phase = "Completed" /\ row.revision = 4
       /\ HoldsVersion(row) /\ Ran(row)
       /\ row.previous_revoked \in Nat /\ row.ends <= row.previous_revoked
       /\ row.previous_revoked <= row.updated /\ row.compensated = NoTime
    \/ /\ row.phase = "Compensating" /\ HoldsVersion(row) /\ NotEnded(row)
       /\ \/ row.revision = 3 /\ NeverRan(row)
          \/ row.revision = 4 /\ Ran(row)
    \/ /\ row.phase = "Failed" /\ HoldsVersion(row) /\ row.previous_revoked = NoTime
       /\ row.compensated \in Nat /\ row.compensated <= row.updated
       /\ \/ row.revision = 4 /\ NeverRan(row)
          \/ row.revision = 5 /\ Ran(row)

\* The journal such a row stands for.
JournalFields == {"previous", "next", "overlap", "phase", "stored", "activated", "ends",
                  "previous_revoked", "compensated"}

StandsFor(row, j) ==
    /\ DOMAIN j = JournalFields
    /\ j.previous = row.previous /\ j.next = row.next
    /\ j.overlap = row.overlap_seconds * PerSecond /\ j.phase = row.phase
    /\ j.stored = row.stored /\ j.activated = row.activated /\ j.ends = row.ends
    /\ j.previous_revoked = row.previous_revoked /\ j.compensated = row.compensated

\* A log entry fits the row of its rotation.
EntryFits(e, row) ==
    /\ validate_mutation_fields(e)
    /\ e.revision <= row.revision /\ history(row.phase, row.revision)[e.revision] = e.phase
    /\ e.committed_at <= row.updated
    /\ e.revision = row.revision => e.committed_at = row.updated

VaultLogFits ==
    \A i \in DOMAIN vaultLog :
        /\ vaultLog[i].reference \in DOMAIN secrets
        /\ vaultLog[i].kind = "revoke" =>
             /\ secrets[vaultLog[i].reference].state = "revoked"
             /\ secrets[vaultLog[i].reference].revoked = vaultLog[i].committed_at

RowsFit ==
    \A id \in DOMAIN journals :
        /\ RowFits(journals[id])
        /\ (\A w \in Windows : w >= PerSecond) => journals[id].overlap_seconds > 0

RotationLogFits ==
    \A i \in DOMAIN rotationLog :
        /\ rotationLog[i].rotation \in DOMAIN journals
        /\ EntryFits(rotationLog[i], journals[rotationLog[i].rotation])

-----------------------------------------------------------------------------
\* Rebuilding.

\* A row that fits rebuilds to the journal it stands for, unless its overlap was
\* rounded down to nothing.
LEMMA Rebuilds ==
    ASSUME NEW row \in RotationRows, RowFits(row)
    PROVE  IF row.overlap_seconds > 0
           THEN \E j : decode_journal(row) = {j} /\ StandsFor(row, j)
           ELSE decode_journal(row) = {}
<1>a. CASE ~(row.overlap_seconds > 0)
  BY <1>a DEF decode_journal, reconstruct_journal, decode_overlap
<1>b. CASE row.overlap_seconds > 0
  <2> DEFINE o == row.overlap_seconds * PerSecond
             j0 == new_journal(row.previous, row.next, o)
             j1 == [j0 EXCEPT !.stored = row.stored, !.phase = "NewVersionStored"]
             j2 == [j1 EXCEPT !.activated = row.activated, !.ends = row.activated + o, !.phase = "Active"]
             c1 == [j1 EXCEPT !.phase = "Compensating"]
             c2 == [j2 EXCEPT !.phase = "Compensating"]
             f1 == [c1 EXCEPT !.compensated = row.compensated, !.phase = "Failed"]
             f2 == [c2 EXCEPT !.compensated = row.compensated, !.phase = "Failed"]
             d2 == [j2 EXCEPT !.previous_revoked = row.previous_revoked, !.phase = "Completed"]
  <2> DEFINE Same(j) == DOMAIN j = JournalFields /\ j.previous = row.previous /\ j.next = row.next /\ j.overlap = o
             NotDone(j) == j.previous_revoked = NoTime /\ j.compensated = NoTime
  <2>f0. /\ Same(j0) /\ NotDone(j0) /\ j0.phase = "Prepared" /\ j0.stored = NoTime
         /\ j0.activated = NoTime /\ j0.ends = NoTime
    BY DEF new_journal, JournalFields
  <2>f1. /\ Same(j1) /\ NotDone(j1) /\ j1.phase = "NewVersionStored" /\ j1.stored = row.stored
         /\ j1.activated = NoTime /\ j1.ends = NoTime
    BY DEF new_journal, JournalFields
  <2>f2. /\ Same(j2) /\ NotDone(j2) /\ j2.phase = "Active" /\ j2.stored = row.stored
         /\ j2.activated = row.activated /\ j2.ends = row.activated + o
    BY DEF new_journal, JournalFields
  <2>g1. /\ Same(c1) /\ NotDone(c1) /\ c1.phase = "Compensating" /\ c1.stored = row.stored
         /\ c1.activated = NoTime /\ c1.ends = NoTime
    BY DEF new_journal, JournalFields
  <2>g2. /\ Same(c2) /\ NotDone(c2) /\ c2.phase = "Compensating" /\ c2.stored = row.stored
         /\ c2.activated = row.activated /\ c2.ends = row.activated + o
    BY DEF new_journal, JournalFields
  <2>h1. /\ Same(f1) /\ f1.phase = "Failed" /\ f1.stored = row.stored
         /\ f1.activated = NoTime /\ f1.ends = NoTime
         /\ f1.previous_revoked = NoTime /\ f1.compensated = row.compensated
    BY DEF new_journal, JournalFields
  <2>h2. /\ Same(f2) /\ f2.phase = "Failed" /\ f2.stored = row.stored
         /\ f2.activated = row.activated /\ f2.ends = row.activated + o
         /\ f2.previous_revoked = NoTime /\ f2.compensated = row.compensated
    BY DEF new_journal, JournalFields
  <2>i2. /\ Same(d2) /\ d2.phase = "Completed" /\ d2.stored = row.stored
         /\ d2.activated = row.activated /\ d2.ends = row.activated + o
         /\ d2.previous_revoked = row.previous_revoked /\ d2.compensated = NoTime
    BY DEF new_journal, JournalFields
  <2>1. decode_overlap(row) = {o}
    BY <1>b DEF decode_overlap
  <2>2. ASSUME NEW j, NEW k,
               (UNION {reconstruct_activation(x, row) : x \in reconstruct_stored(j0, row)}) = {j},
               reconstruct_terminal(j, row) = {k}, StandsFor(row, k)
        PROVE  \E x : decode_journal(row) = {x} /\ StandsFor(row, x)
    <3> HIDE DEF j0, j1, j2, c1, c2, f1, f2, d2
    <3>1. k.phase = row.phase
      BY <2>2 DEF StandsFor
    <3>2. reconstruct_journal(row) = {k}
      BY <2>1, <2>2, <3>1 DEF reconstruct_journal, j0
    <3>3. validate_phase_revision(row.phase, row.revision)
      BY DEF RowFits, validate_phase_revision
    <3>4. decode_journal(row) = {k}
      BY <3>2, <3>3 DEF decode_journal
    <3> QED BY <2>2, <3>4
  <2>3. ASSUME HoldsVersion(row)
        PROVE  reconstruct_stored(j0, row) = {j1}
    <3> HIDE DEF j0
    <3>1. row.stored # NoTime
      BY <2>3 DEF HoldsVersion, NoTime
    <3>2. record_new_version(j0, Receipt(j0.next, row.stored), row.updated) = {j1}
      BY <2>3, <2>f0 DEF record_new_version, Receipt, HoldsVersion
    <3> QED BY <3>1, <3>2 DEF reconstruct_stored
  <2>4. ASSUME HoldsVersion(row), Ran(row)
        PROVE  (UNION {reconstruct_activation(k, row) : k \in reconstruct_stored(j0, row)}) = {j2}
    <3>1. row.activated # NoTime /\ row.ends # NoTime /\ row.ends = row.activated + o
      BY <2>4 DEF Ran, NoTime, RotationRows, PerSecond
    <3>2. reconstruct_stored(j0, row) = {j1}
      BY <2>3, <2>4
    <3> HIDE DEF j0, j1, o
    <3>3. activate(j1, row.activated) = {j2}
      BY <2>4, <2>f1 DEF activate, Ran, RotationRows
    <3> HIDE DEF j2
    <3>4. reconstruct_activation(j1, row) = {j2}
      BY <2>4, <3>1, <2>f2, <3>3 DEF reconstruct_activation, Ran
    <3> QED BY <3>2, <3>4
  <2>5. ASSUME HoldsVersion(row), NeverRan(row)
        PROVE  (UNION {reconstruct_activation(k, row) : k \in reconstruct_stored(j0, row)}) = {j1}
    <3>1. reconstruct_stored(j0, row) = {j1}
      BY <2>3, <2>5
    <3> HIDE DEF j0, j1
    <3> QED BY <2>5, <3>1 DEF NeverRan, reconstruct_activation
  <2>b1. begin_compensation(j1) = {c1}
    <3> HIDE DEF j1
    <3> QED BY <2>f1 DEF begin_compensation
  <2>b2. begin_compensation(j2) = {c2}
    <3> HIDE DEF j2
    <3> QED BY <2>f2 DEF begin_compensation
  <2> HIDE DEF c1, c2
  <2>r1. ASSUME row.compensated \in Nat, row.compensated <= row.updated
         PROVE  /\ record_compensation(c1, Receipt(c1.next, row.compensated), row.updated) = {f1}
                /\ record_compensation(c2, Receipt(c2.next, row.compensated), row.updated) = {f2}
    BY <2>r1, <2>g1, <2>g2 DEF record_compensation, Receipt
  <2>6. CASE row.phase = "Prepared"
    <3> HIDE DEF j0
    <3>1. row.stored = NoTime /\ NeverRan(row) /\ NotEnded(row)
      BY <2>6 DEF RowFits
    <3>2. StandsFor(row, j0)
      BY <2>6, <3>1, <2>f0 DEF NotEnded, NeverRan, StandsFor
    <3>3. reconstruct_stored(j0, row) = {j0} /\ reconstruct_activation(j0, row) = {j0}
      BY <3>1 DEF reconstruct_stored, reconstruct_activation, NeverRan
    <3>4. reconstruct_terminal(j0, row) = {j0}
      BY <2>6, <3>1 DEF reconstruct_terminal, NotEnded
    <3>5. (UNION {reconstruct_activation(x, row) : x \in reconstruct_stored(j0, row)}) = {j0}
      BY <3>3
    <3> QED BY <1>b, <3>2, <3>4, <3>5, <2>2
  <2>7. CASE row.phase = "NewVersionStored"
    <3> HIDE DEF j0, j1
    <3>1. HoldsVersion(row) /\ NeverRan(row) /\ NotEnded(row)
      BY <2>7 DEF RowFits
    <3>2. StandsFor(row, j1)
      BY <2>7, <3>1, <2>f1 DEF NotEnded, NeverRan, StandsFor
    <3>3. reconstruct_terminal(j1, row) = {j1}
      BY <2>7, <3>1 DEF reconstruct_terminal, NotEnded
    <3> QED BY <1>b, <3>1, <3>2, <3>3, <2>2, <2>5
  <2>8. CASE row.phase = "Active"
    <3> HIDE DEF j0, j2
    <3>1. HoldsVersion(row) /\ Ran(row) /\ NotEnded(row)
      BY <2>8 DEF RowFits
    <3>2. StandsFor(row, j2)
      BY <2>8, <3>1, <2>f2 DEF NotEnded, Ran, StandsFor
    <3>3. reconstruct_terminal(j2, row) = {j2}
      BY <2>8, <3>1 DEF reconstruct_terminal, NotEnded
    <3> QED BY <1>b, <3>1, <3>2, <3>3, <2>2, <2>4
  <2>9. CASE row.phase = "Completed"
    <3>1. /\ HoldsVersion(row) /\ Ran(row) /\ row.compensated = NoTime
          /\ row.previous_revoked \in Nat /\ row.ends <= row.previous_revoked
          /\ row.previous_revoked <= row.updated
      BY <2>9 DEF RowFits
    <3> HIDE DEF j0, j2
    <3>2. StandsFor(row, d2)
      <4> HIDE DEF d2
      <4> QED BY <2>9, <3>1, <2>i2 DEF Ran, StandsFor
    <3>3. validate_previous_revoke(j2, Receipt(j2.previous, row.previous_revoked), row.updated)
      BY <3>1, <2>f2 DEF validate_previous_revoke, Receipt, RotationRows, Column, NoTime, Ran, PerSecond
    <3>4. revoke_previous(j2, Receipt(j2.previous, row.previous_revoked), row.updated) = {d2}
      BY <2>f2, <3>3 DEF revoke_previous, Receipt
    <3> HIDE DEF d2
    <3>5. row.previous_revoked # NoTime
      BY <3>1 DEF NoTime
    <3>6. reconstruct_terminal(j2, row) = {d2}
      BY <2>9, <3>1, <3>4, <3>5 DEF reconstruct_terminal
    <3> QED BY <1>b, <3>1, <3>2, <3>6, <2>2, <2>4
  <2>10. CASE row.phase = "Compensating"
    <3>1. HoldsVersion(row) /\ NotEnded(row) /\ (NeverRan(row) \/ Ran(row))
      BY <2>10 DEF RowFits
    <3> HIDE DEF j0, j1, j2
    <3>2. reconstruct_terminal(j1, row) = {c1} /\ reconstruct_terminal(j2, row) = {c2}
      BY <2>10, <3>1, <2>b1, <2>b2 DEF reconstruct_terminal, NotEnded
    <3>3. CASE NeverRan(row)
      <4>1. StandsFor(row, c1)
        BY <2>10, <3>1, <3>3, <2>g1 DEF NotEnded, NeverRan, StandsFor
      <4> QED BY <1>b, <3>1, <3>2, <3>3, <4>1, <2>2, <2>5
    <3>4. CASE Ran(row)
      <4>1. StandsFor(row, c2)
        BY <2>10, <3>1, <3>4, <2>g2 DEF NotEnded, Ran, StandsFor
      <4> QED BY <1>b, <3>1, <3>2, <3>4, <4>1, <2>2, <2>4
    <3> QED BY <3>1, <3>3, <3>4
  <2>11. CASE row.phase = "Failed"
    <3>1. /\ HoldsVersion(row) /\ row.previous_revoked = NoTime /\ (NeverRan(row) \/ Ran(row))
          /\ row.compensated \in Nat /\ row.compensated <= row.updated
      BY <2>11 DEF RowFits
    <3> HIDE DEF j0, j1, j2, f1, f2
    <3>2. row.compensated # NoTime
      BY <3>1 DEF NoTime
    <3>3. reconstruct_terminal(j1, row) = {f1} /\ reconstruct_terminal(j2, row) = {f2}
      BY <2>11, <3>1, <3>2, <2>b1, <2>b2, <2>r1 DEF reconstruct_terminal
    <3>4. CASE NeverRan(row)
      <4>1. StandsFor(row, f1)
        BY <2>11, <3>1, <3>4, <2>h1 DEF NeverRan, StandsFor
      <4> QED BY <1>b, <3>1, <3>3, <3>4, <4>1, <2>2, <2>5
    <3>5. CASE Ran(row)
      <4>1. StandsFor(row, f2)
        BY <2>11, <3>1, <3>5, <2>h2 DEF Ran, StandsFor
      <4> QED BY <1>b, <3>1, <3>3, <3>5, <4>1, <2>2, <2>4
    <3> QED BY <3>1, <3>4, <3>5
  <2> QED BY <2>6, <2>7, <2>8, <2>9, <2>10, <2>11 DEF RowFits
<1> QED BY <1>a, <1>b

\* What an advance makes of a row that fits: a row that fits, one revision on, of
\* the phase the transition leads to; a rotation ends with the receipt of a
\* revocation.
LEMMA RowAdvances ==
    ASSUME VaultTypeOK, NEW row \in RotationRows, RowFits(row), vaultClock >= row.updated,
           NEW t \in RotationTransitions, NEW j \in decode_journal(row), NEW k \in apply_transition(j, t),
           NEW new, new = JournalRow(k, row.overlap_seconds, row.revision + 1)
    PROVE  /\ new \in RotationRows /\ RowFits(new)
           /\ new.previous = row.previous /\ new.next = row.next
           /\ new.overlap_seconds = row.overlap_seconds
           /\ new.revision = row.revision + 1 /\ new.updated = vaultClock
           /\ new.phase = k.phase /\ k.phase = expected_mutation_phase(t)
           /\ Unfinished(row)
           /\ history(new.phase, new.revision) = Append(history(row.phase, row.revision), new.phase)
           /\ Len(history(row.phase, row.revision)) = row.revision
           /\ new.phase = "Completed" =>
                /\ \E r \in Receipts("revoke") :
                     r.reference = row.previous /\ r.committed_at = new.previous_revoked
                /\ new.previous_revoked >= new.activated + new.overlap_seconds * PerSecond
           /\ new.phase = "Failed" =>
                \E r \in Receipts("revoke") :
                  r.reference = row.next /\ r.committed_at = new.compensated
<1>1. StandsFor(row, j)
  BY Rebuilds
<1>2. \A which : \A r \in Receipts(which) : r \in VaultEntries
  BY DEF Receipts, Range, VaultTypeOK
<1>3. /\ row.previous \in References /\ row.next \in References /\ row.overlap_seconds \in Nat
      /\ row.updated \in Nat /\ row.overlap_seconds * PerSecond \in Nat /\ vaultClock \in Nat
  BY DEF RotationRows, VaultTypeOK, PerSecond
<1>4. /\ new.previous = k.previous /\ new.next = k.next /\ new.overlap_seconds = row.overlap_seconds
      /\ new.phase = k.phase /\ new.revision = row.revision + 1 /\ new.stored = k.stored
      /\ new.activated = k.activated /\ new.ends = k.ends /\ new.updated = vaultClock
      /\ new.previous_revoked = k.previous_revoked /\ new.compensated = k.compensated
  BY DEF JournalRow, now
<1>5. /\ k.previous \in References /\ k.next \in References /\ k.phase \in RotationPhases
      /\ {k.stored, k.activated, k.ends, k.previous_revoked, k.compensated} \subseteq Column
      /\ row.revision + 1 \in 1..5
      => new \in RotationRows
  BY <1>3 DEF JournalRow, now, RotationRows
<1>6. CASE t = "record-new-version"
  <2>1. PICK r \in Receipts("store") : k \in record_new_version(j, r, vaultClock)
    BY <1>6 DEF apply_transition, now
  <2>2. /\ j.phase = "Prepared" /\ r.committed_at <= vaultClock
        /\ k = [j EXCEPT !.stored = r.committed_at, !.phase = "NewVersionStored"]
    BY <2>1 DEF record_new_version
  <2>3. r.committed_at \in Nat
    BY <1>2 DEF VaultEntries
  <2>4. /\ k.previous = row.previous /\ k.next = row.next /\ k.phase = "NewVersionStored"
        /\ k.stored = r.committed_at /\ k.activated = row.activated /\ k.ends = row.ends
        /\ k.previous_revoked = row.previous_revoked /\ k.compensated = row.compensated
    BY <1>1, <2>2 DEF StandsFor, JournalFields
  <2>5. row.phase = "Prepared" /\ row.revision = 1 /\ NeverRan(row) /\ NotEnded(row)
    BY <1>1, <2>2 DEF StandsFor, RowFits
  <2>6. RowFits(new)
    BY <1>4, <2>2, <2>3, <2>4, <2>5 DEF RowFits, HoldsVersion, NeverRan, NotEnded
  <2>7. history(new.phase, new.revision) = Append(history(row.phase, row.revision), new.phase)
        /\ Len(history(row.phase, row.revision)) = row.revision
    BY <1>4, <2>4, <2>5 DEF history
  <2>8. new \in RotationRows
    BY <1>3, <1>5, <2>3, <2>4, <2>5 DEF RotationPhases, Column, NeverRan, NotEnded
  <2> QED BY <1>4, <1>6, <2>4, <2>5, <2>6, <2>7, <2>8 DEF expected_mutation_phase, Unfinished
<1>7. CASE t = "activate"
  <2>1. PICK at \in 0..vaultClock : k \in activate(j, at)
    BY <1>7 DEF apply_transition, now
  <2>2. /\ j.phase = "NewVersionStored" /\ at >= j.stored
        /\ k = [j EXCEPT !.activated = at, !.ends = at + j.overlap, !.phase = "Active"]
    BY <2>1 DEF activate
  <2>3. /\ k.previous = row.previous /\ k.next = row.next /\ k.phase = "Active"
        /\ k.stored = row.stored /\ k.activated = at /\ k.ends = at + row.overlap_seconds * PerSecond
        /\ k.previous_revoked = row.previous_revoked /\ k.compensated = row.compensated
    BY <1>1, <2>2 DEF StandsFor, JournalFields
  <2>4. row.phase = "NewVersionStored" /\ row.revision = 2 /\ HoldsVersion(row) /\ NeverRan(row) /\ NotEnded(row)
    BY <1>1, <2>2 DEF StandsFor, RowFits
  <2>5. RowFits(new)
    <3>1. row.stored <= at /\ at <= vaultClock /\ at \in Nat
      BY <1>1, <1>3, <2>2 DEF StandsFor
    <3>2. HoldsVersion(new) /\ Ran(new) /\ NotEnded(new)
      BY <1>3, <1>4, <2>3, <2>4, <3>1 DEF HoldsVersion, Ran, NotEnded
    <3> QED BY <3>2, <1>4, <2>3, <2>4 DEF RowFits
  <2>6. history(new.phase, new.revision) = Append(history(row.phase, row.revision), new.phase)
        /\ Len(history(row.phase, row.revision)) = row.revision
    BY <1>4, <2>3, <2>4 DEF history
  <2>7. new \in RotationRows
    <3>1. at \in Nat /\ at + row.overlap_seconds * PerSecond \in Nat
      BY <1>3
    <3> QED BY <1>3, <1>5, <2>3, <2>4, <3>1 DEF RotationPhases, Column, HoldsVersion, NotEnded
  <2> QED BY <1>4, <1>7, <2>3, <2>4, <2>5, <2>6, <2>7 DEF expected_mutation_phase, Unfinished
<1>8. CASE t = "complete"
  <2>1. PICK r \in Receipts("revoke") : k \in revoke_previous(j, r, vaultClock)
    BY <1>8 DEF apply_transition, now
  <2>2. /\ j.phase = "Active" /\ validate_previous_revoke(j, r, vaultClock)
        /\ k = [j EXCEPT !.previous_revoked = r.committed_at, !.phase = "Completed"]
    BY <2>1 DEF revoke_previous
  <2>3. /\ r.reference = row.previous /\ r.committed_at >= row.ends /\ r.committed_at <= vaultClock
        /\ r.committed_at \in Nat
    BY <1>1, <1>2, <2>2 DEF StandsFor, validate_previous_revoke, VaultEntries
  <2>4. /\ k.previous = row.previous /\ k.next = row.next /\ k.phase = "Completed"
        /\ k.stored = row.stored /\ k.activated = row.activated /\ k.ends = row.ends
        /\ k.previous_revoked = r.committed_at /\ k.compensated = row.compensated
    BY <1>1, <2>2 DEF StandsFor, JournalFields
  <2>5. row.phase = "Active" /\ row.revision = 3 /\ HoldsVersion(row) /\ Ran(row) /\ NotEnded(row)
    BY <1>1, <2>2 DEF StandsFor, RowFits
  <2>6. RowFits(new)
    <3>1. HoldsVersion(new) /\ Ran(new) /\ new.compensated = NoTime
      BY <1>3, <1>4, <2>4, <2>5 DEF HoldsVersion, Ran, NotEnded
    <3>2. new.previous_revoked \in Nat /\ new.ends <= new.previous_revoked /\ new.previous_revoked <= new.updated
      <4>1. row.ends \in Nat
        BY <1>3, <2>5 DEF Ran
      <4> QED BY <1>4, <2>3, <2>4, <4>1
    <3> QED BY <3>1, <3>2, <1>4, <2>4, <2>5 DEF RowFits
  <2>7. history(new.phase, new.revision) = Append(history(row.phase, row.revision), new.phase)
        /\ Len(history(row.phase, row.revision)) = row.revision
    BY <1>4, <2>4, <2>5 DEF history
  <2>8. new \in RotationRows
    <3>1. row.activated \in Nat /\ row.ends \in Nat
      BY <1>3, <2>5 DEF Ran
    <3> QED BY <1>3, <1>5, <2>3, <2>4, <2>5, <3>1 DEF RotationPhases, Column, HoldsVersion, NotEnded
  <2>9. new.previous_revoked >= new.activated + new.overlap_seconds * PerSecond
    BY <1>3, <1>4, <2>3, <2>4, <2>5 DEF Ran
  <2>10. \E x \in Receipts("revoke") : x.reference = row.previous /\ x.committed_at = new.previous_revoked
    BY <1>4, <2>3, <2>4
  <2> QED BY <1>4, <1>8, <2>4, <2>5, <2>6, <2>7, <2>8, <2>9, <2>10 DEF expected_mutation_phase, Unfinished
<1>9. CASE t = "begin-compensation"
  <2>1. k \in begin_compensation(j)
    BY <1>9 DEF apply_transition
  <2>2. j.phase \in {"NewVersionStored", "Active"} /\ k = [j EXCEPT !.phase = "Compensating"]
    BY <2>1 DEF begin_compensation
  <2>3. /\ k.previous = row.previous /\ k.next = row.next /\ k.phase = "Compensating"
        /\ k.stored = row.stored /\ k.activated = row.activated /\ k.ends = row.ends
        /\ k.previous_revoked = row.previous_revoked /\ k.compensated = row.compensated
    BY <1>1, <2>2 DEF StandsFor, JournalFields
  <2>4. /\ HoldsVersion(row) /\ NotEnded(row)
        /\ \/ row.phase = "NewVersionStored" /\ row.revision = 2 /\ NeverRan(row)
           \/ row.phase = "Active" /\ row.revision = 3 /\ Ran(row)
    BY <1>1, <2>2 DEF StandsFor, RowFits
  <2>5. HoldsVersion(new) /\ NotEnded(new) /\ (NeverRan(row) => NeverRan(new)) /\ (Ran(row) => Ran(new))
    BY <1>3, <1>4, <2>3, <2>4 DEF HoldsVersion, Ran, NeverRan, NotEnded
  <2>6. RowFits(new)
    BY <1>4, <2>3, <2>4, <2>5 DEF RowFits
  <2>7. history(new.phase, new.revision) = Append(history(row.phase, row.revision), new.phase)
        /\ Len(history(row.phase, row.revision)) = row.revision
    <3>1. CASE row.phase = "NewVersionStored"
      BY <1>4, <2>3, <2>4, <3>1 DEF history
    <3>2. CASE row.phase = "Active"
      BY <1>4, <2>3, <2>4, <3>2 DEF history
    <3> QED BY <2>4, <3>1, <3>2
  <2>8. new \in RotationRows
    <3>1. row.activated \in Column /\ row.ends \in Column
      BY DEF RotationRows
    <3> QED BY <1>3, <1>5, <2>3, <2>4, <3>1 DEF RotationPhases, Column, HoldsVersion, NotEnded
  <2> QED BY <1>4, <1>9, <2>3, <2>4, <2>6, <2>7, <2>8 DEF expected_mutation_phase, Unfinished
<1>10. CASE t = "record-compensation"
  <2>1. PICK r \in Receipts("revoke") : k \in record_compensation(j, r, vaultClock)
    BY <1>10 DEF apply_transition, now
  <2>2. /\ j.phase = "Compensating" /\ r.reference = j.next /\ r.committed_at <= vaultClock
        /\ k = [j EXCEPT !.compensated = r.committed_at, !.phase = "Failed"]
    BY <2>1 DEF record_compensation
  <2>3. r.reference = row.next /\ r.committed_at \in Nat
    BY <1>1, <1>2, <2>2 DEF StandsFor, VaultEntries
  <2>4. /\ k.previous = row.previous /\ k.next = row.next /\ k.phase = "Failed"
        /\ k.stored = row.stored /\ k.activated = row.activated /\ k.ends = row.ends
        /\ k.previous_revoked = row.previous_revoked /\ k.compensated = r.committed_at
    BY <1>1, <2>2 DEF StandsFor, JournalFields
  <2>5. /\ HoldsVersion(row) /\ NotEnded(row) /\ row.phase = "Compensating"
        /\ \/ row.revision = 3 /\ NeverRan(row)
           \/ row.revision = 4 /\ Ran(row)
    BY <1>1, <2>2 DEF StandsFor, RowFits
  <2>6. HoldsVersion(new) /\ (NeverRan(row) => NeverRan(new)) /\ (Ran(row) => Ran(new))
    BY <1>3, <1>4, <2>4, <2>5 DEF HoldsVersion, Ran, NeverRan
  <2>7. RowFits(new)
    BY <1>4, <2>2, <2>3, <2>4, <2>5, <2>6 DEF RowFits, NotEnded
  <2>8. history(new.phase, new.revision) = Append(history(row.phase, row.revision), new.phase)
        /\ Len(history(row.phase, row.revision)) = row.revision
    BY <1>4, <2>4, <2>5 DEF history
  <2>9. new \in RotationRows
    <3>1. row.activated \in Column /\ row.ends \in Column
      BY DEF RotationRows
    <3> QED BY <1>3, <1>5, <2>3, <2>4, <2>5, <3>1 DEF RotationPhases, Column, HoldsVersion, NotEnded
  <2>10. \E x \in Receipts("revoke") : x.reference = row.next /\ x.committed_at = new.compensated
    BY <1>4, <2>3, <2>4
  <2> QED BY <1>4, <1>10, <2>4, <2>5, <2>7, <2>8, <2>9, <2>10 DEF expected_mutation_phase, Unfinished
<1> QED BY <1>6, <1>7, <1>8, <1>9, <1>10 DEF RotationTransitions

-----------------------------------------------------------------------------
\* The operations.

\* The first and the third part of RotationsAreTrue; the second, row by row.
RotationsDisjoint ==
    \A a, b \in DOMAIN journals :
        a # b /\ Unfinished(journals[a]) /\ Unfinished(journals[b])
          => {journals[a].previous, journals[a].next} \cap {journals[b].previous, journals[b].next} = {}

EndsAreTrue(row) ==
    /\ row.phase = "Completed" =>
         /\ row.previous \in DOMAIN secrets /\ secrets[row.previous].revoked = row.previous_revoked
         /\ row.previous_revoked >= row.activated + row.overlap_seconds * PerSecond
    /\ row.phase = "Failed" =>
         row.next \in DOMAIN secrets /\ secrets[row.next].revoked = row.compensated

RevokedForGood ==
    \A id \in DOMAIN journals :
        /\ journals[id].phase = "Completed" =>
             journals[id].previous \in DOMAIN secrets /\ secrets[journals[id].previous].state = "revoked"
        /\ journals[id].phase = "Failed" =>
             journals[id].next \in DOMAIN secrets /\ secrets[journals[id].next].state = "revoked"

EndsTrue == \A id \in DOMAIN journals : EndsAreTrue(journals[id])

OncePerReference ==
    \A i, k \in DOMAIN vaultLog :
        i < k /\ vaultLog[i].reference = vaultLog[k].reference
          => vaultLog[i].kind = "store" /\ vaultLog[k].kind = "revoke"

\* RotationsAreTrue, part by part.
LEMMA TruthParts == RotationsAreTrue <=> RotationsDisjoint /\ EndsTrue /\ OncePerReference
BY DEF RotationsAreTrue, RotationsDisjoint, EndsTrue, EndsAreTrue, OncePerReference

VaultIInv ==
    /\ VaultTypeOK /\ VaultLogFits /\ RowsFit /\ RotationLogFits
    /\ RotationsDisjoint /\ EndsTrue /\ RevokedForGood /\ OncePerReference

\* The invariant holds of empty tables.
LEMMA VaultStarts == VaultInit => VaultIInv
BY DEF VaultInit, VaultIInv, VaultTypeOK, VaultLogFits, RowsFit, RotationLogFits, RotationsDisjoint,
       EndsTrue, RevokedForGood, OncePerReference

\* store adds an entry for a secret that was not there.
LEMMA SecretKeeps ==
    ASSUME VaultIInv, NEW r \in References, store(r)
    PROVE  VaultIInv'
<1> DEFINE e == [kind |-> "store", reference |-> r, committed_at |-> vaultClock]
<1>1. /\ r \notin DOMAIN secrets /\ vaultLog' = Append(vaultLog, e)
      /\ secrets' = [x \in DOMAIN secrets \cup {r} |->
                  IF x = r THEN [state |-> "active", created |-> vaultClock, revoked |-> NoTime]
                  ELSE secrets[x]]
      /\ UNCHANGED <<vaultClock, journals, rotationLog>>
  BY DEF store, require_new_secret, insert_secret, insert_mutation, now
<1>2. e \in VaultEntries /\ e.kind = "store" /\ e.reference = r
  BY DEF VaultEntries, VaultIInv, VaultTypeOK
<1>3. /\ vaultLog \in Seq(VaultEntries) /\ vaultLog' \in Seq(VaultEntries)
      /\ DOMAIN vaultLog' = DOMAIN vaultLog \cup {Len(vaultLog) + 1}
      /\ vaultLog'[Len(vaultLog) + 1] = e
      /\ \A i \in DOMAIN vaultLog : i \in 1..Len(vaultLog) /\ vaultLog'[i] = vaultLog[i]
  <2> HIDE DEF e
  <2> QED BY <1>1, <1>2 DEF VaultIInv, VaultTypeOK
<1> HIDE DEF e
<1>4. /\ DOMAIN secrets' = DOMAIN secrets \cup {r}
      /\ \A x \in DOMAIN secrets : secrets'[x] = secrets[x]
      /\ secrets'[r] \in SecretRows
  BY <1>1 DEF SecretRows, VaultIInv, VaultTypeOK, Column
<1>5. VaultTypeOK'
  <2>1. secrets' \in [DOMAIN secrets' -> SecretRows]
    BY <1>1, <1>4 DEF VaultIInv, VaultTypeOK
  <2> QED BY <1>1, <1>3, <1>4, <2>1 DEF VaultIInv, VaultTypeOK
<1>6. VaultLogFits'
  BY <1>2, <1>3, <1>4 DEF VaultIInv, VaultLogFits
<1>7. EndsTrue' /\ RevokedForGood'
  BY <1>1, <1>4 DEF VaultIInv, EndsTrue, EndsAreTrue, RevokedForGood
<1>8. OncePerReference'
  BY <1>1, <1>2, <1>3 DEF VaultIInv, OncePerReference, VaultLogFits
<1>9. RowsFit' /\ RotationLogFits' /\ RotationsDisjoint'
  BY <1>1 DEF VaultIInv, RowsFit, RotationLogFits, RotationsDisjoint
<1> QED BY <1>5, <1>6, <1>7, <1>8, <1>9 DEF VaultIInv

\* revoke adds the one revocation of an active secret.
LEMMA RevokeKeeps ==
    ASSUME VaultIInv, NEW r \in References, revoke(r)
    PROVE  VaultIInv'
<1> DEFINE e == [kind |-> "revoke", reference |-> r, committed_at |-> vaultClock]
<1>1. /\ r \in DOMAIN secrets /\ secrets[r].state = "active" /\ vaultLog' = Append(vaultLog, e)
      /\ secrets' = [secrets EXCEPT ![r] = [secrets[r] EXCEPT !.state = "revoked", !.revoked = vaultClock]]
      /\ UNCHANGED <<vaultClock, journals, rotationLog>>
  BY DEF revoke, require_active_secret, load_secret, persist_revoke, insert_mutation, now
<1>2. e \in VaultEntries /\ e.kind = "revoke" /\ e.reference = r /\ e.committed_at = vaultClock
  BY DEF VaultEntries, VaultIInv, VaultTypeOK
<1>3. /\ vaultLog \in Seq(VaultEntries) /\ vaultLog' \in Seq(VaultEntries)
      /\ DOMAIN vaultLog' = DOMAIN vaultLog \cup {Len(vaultLog) + 1}
      /\ vaultLog'[Len(vaultLog) + 1] = e
      /\ \A i \in DOMAIN vaultLog : i \in 1..Len(vaultLog) /\ vaultLog'[i] = vaultLog[i]
  <2> HIDE DEF e
  <2> QED BY <1>1, <1>2 DEF VaultIInv, VaultTypeOK
<1> HIDE DEF e
<1>4. /\ DOMAIN secrets' = DOMAIN secrets
      /\ \A x \in DOMAIN secrets : x # r => secrets'[x] = secrets[x]
      /\ secrets'[r] \in SecretRows /\ secrets'[r].state = "revoked" /\ secrets'[r].revoked = vaultClock
  BY <1>1 DEF SecretRows, VaultIInv, VaultTypeOK, Column
<1>5. VaultTypeOK'
  <2>1. secrets' \in [DOMAIN secrets' -> SecretRows]
    BY <1>1, <1>4 DEF VaultIInv, VaultTypeOK
  <2> QED BY <1>1, <1>3, <1>4, <2>1 DEF VaultIInv, VaultTypeOK
<1>6. VaultLogFits'
  BY <1>1, <1>2, <1>3, <1>4 DEF VaultIInv, VaultLogFits
<1>7. EndsTrue' /\ RevokedForGood'
  BY <1>1, <1>4 DEF VaultIInv, EndsTrue, EndsAreTrue, RevokedForGood
<1>8. OncePerReference'
  <2>1. \A i \in DOMAIN vaultLog : vaultLog[i].reference = r => vaultLog[i].kind = "store"
    <3>1. \A i \in DOMAIN vaultLog : vaultLog[i].kind \in {"store", "revoke"}
      <4> SUFFICES ASSUME NEW i \in DOMAIN vaultLog PROVE vaultLog[i].kind \in {"store", "revoke"}
        OBVIOUS
      <4>1. vaultLog[i] \in VaultEntries
        BY <1>3
      <4> QED BY <4>1 DEF VaultEntries
    <3>2. \A i \in DOMAIN vaultLog : vaultLog[i].reference = r => vaultLog[i].kind # "revoke"
      BY <1>1 DEF VaultIInv, VaultLogFits
    <3> QED BY <3>1, <3>2
  <2> QED BY <1>1, <1>2, <1>3, <2>1 DEF VaultIInv, OncePerReference
<1>9. RowsFit' /\ RotationLogFits' /\ RotationsDisjoint'
  BY <1>1 DEF VaultIInv, RowsFit, RotationLogFits, RotationsDisjoint
<1> QED BY <1>5, <1>6, <1>7, <1>8, <1>9 DEF VaultIInv

\* prepare opens a rotation over secrets that no open rotation names.
LEMMA PrepareKeeps ==
    ASSUME VaultIInv, NEW p \in References, NEW n \in References, NEW o \in Windows, prepare(p, n, o)
    PROVE  VaultIInv'
<1> DEFINE row == JournalRow(new_journal(p, n, o), o \div PerSecond, 1)
           id == Len(journals) + 1
           e == [rotation |-> id, transition |-> "prepare", prior |-> 0, revision |-> 0 + 1,
                 phase |-> "Prepared", committed_at |-> vaultClock]
<1>1. /\ require_no_overlap(p, n) /\ journals' = Append(journals, row)
      /\ rotationLog' = Append(rotationLog, e) /\ UNCHANGED <<vaultClock, secrets, vaultLog>>
  BY DEF prepare, insert_rotation_mutation, now
<1>0. o \in Nat /\ o > 0 /\ o \div PerSecond \in Nat /\ (o >= PerSecond => o \div PerSecond > 0)
      /\ vaultClock \in Nat /\ id \in Nat /\ id > 0
  BY VaultAssumption DEF PerSecond, VaultIInv, VaultTypeOK
<1>2. /\ row \in RotationRows /\ row.previous = p /\ row.next = n /\ row.phase = "Prepared"
      /\ row.revision = 1 /\ row.updated = vaultClock
      /\ row.overlap_seconds = o \div PerSecond /\ RowFits(row)
  BY <1>0 DEF JournalRow, new_journal, now, RotationRows, RotationPhases, Column, RowFits, NeverRan, NotEnded
<1>3. /\ e \in RotationEntries /\ e.rotation = id /\ e.prior = 0 /\ e.revision = 1
      /\ e.phase = "Prepared" /\ e.committed_at = vaultClock /\ e.transition = "prepare"
  BY <1>0 DEF RotationEntries, RotationPhases
<1>4. EntryFits(e, row)
  <2> HIDE DEF e, row
  <2>1. history(row.phase, row.revision)[1] = "Prepared"
    BY <1>2 DEF history
  <2> QED BY <1>0, <1>2, <1>3, <2>1 DEF EntryFits, validate_mutation_fields, expected_mutation_phase
<1> HIDE DEF row, e
<1>5. /\ journals \in Seq(RotationRows) /\ journals' \in Seq(RotationRows)
      /\ DOMAIN journals' = DOMAIN journals \cup {id} /\ journals'[id] = row
      /\ \A x \in DOMAIN journals : x # id /\ journals'[x] = journals[x]
  BY <1>1, <1>2 DEF VaultIInv, VaultTypeOK
<1>6. /\ rotationLog' \in Seq(RotationEntries)
      /\ DOMAIN rotationLog' = DOMAIN rotationLog \cup {Len(rotationLog) + 1}
      /\ rotationLog'[Len(rotationLog) + 1] = e
      /\ \A x \in DOMAIN rotationLog : rotationLog'[x] = rotationLog[x]
  BY <1>1, <1>3 DEF VaultIInv, VaultTypeOK
<1> HIDE DEF id
<1>7. VaultTypeOK'
  BY <1>1, <1>5, <1>6 DEF VaultIInv, VaultTypeOK
<1>8. RowsFit'
  BY <1>0, <1>2, <1>5 DEF VaultIInv, RowsFit
<1>9. RotationLogFits'
  BY <1>3, <1>4, <1>5, <1>6 DEF VaultIInv, RotationLogFits
<1>10. RotationsDisjoint'
  BY <1>1, <1>2, <1>5 DEF VaultIInv, RotationsDisjoint, require_no_overlap
<1>11. EndsTrue' /\ RevokedForGood'
  BY <1>1, <1>2, <1>5 DEF VaultIInv, EndsTrue, EndsAreTrue, RevokedForGood
<1>12. VaultLogFits' /\ OncePerReference'
  BY <1>1 DEF VaultIInv, VaultLogFits, OncePerReference
<1> QED BY <1>7, <1>8, <1>9, <1>10, <1>11, <1>12 DEF VaultIInv

\* A transition rebuilds the journal from its row, applies, and writes both.
LEMMA AdvanceKeeps ==
    ASSUME VaultIInv, NEW id \in DOMAIN journals, NEW t \in RotationTransitions, advance(id, t)
    PROVE  VaultIInv'
<1> DEFINE row == journals[id]
<1>1. PICK j \in decode_journal(row) : \E k \in apply_transition(j, t) :
         /\ journals' = [journals EXCEPT ![id] = JournalRow(k, row.overlap_seconds, row.revision + 1)]
         /\ insert_rotation_mutation(id, t, row.revision, k.phase)
  BY DEF advance
<1>2. PICK k \in apply_transition(j, t) :
         /\ journals' = [journals EXCEPT ![id] = JournalRow(k, row.overlap_seconds, row.revision + 1)]
         /\ insert_rotation_mutation(id, t, row.revision, k.phase)
  BY <1>1
<1> DEFINE new == JournalRow(k, row.overlap_seconds, row.revision + 1)
           e == [rotation |-> id, transition |-> t, prior |-> row.revision,
                 revision |-> row.revision + 1, phase |-> k.phase, committed_at |-> vaultClock]
<1>3. /\ vaultClock >= row.updated /\ UNCHANGED <<vaultClock, secrets, vaultLog>>
      /\ rotationLog' = Append(rotationLog, e)
  BY <1>2 DEF advance, require_non_regressing_time, insert_rotation_mutation, now
<1>4. row \in RotationRows /\ RowFits(row) /\ id \in Nat /\ vaultClock \in Nat /\ VaultTypeOK
  BY DEF VaultIInv, VaultTypeOK, RowsFit
<1> HIDE DEF row
<1>5. /\ new \in RotationRows /\ RowFits(new)
      /\ new.previous = row.previous /\ new.next = row.next
      /\ new.overlap_seconds = row.overlap_seconds
      /\ new.revision = row.revision + 1 /\ new.updated = vaultClock
      /\ new.phase = k.phase /\ k.phase = expected_mutation_phase(t)
      /\ Unfinished(row)
      /\ history(new.phase, new.revision) = Append(history(row.phase, row.revision), new.phase)
      /\ Len(history(row.phase, row.revision)) = row.revision
      /\ new.phase = "Completed" =>
           /\ \E r \in Receipts("revoke") :
                r.reference = row.previous /\ r.committed_at = new.previous_revoked
           /\ new.previous_revoked >= new.activated + new.overlap_seconds * PerSecond
      /\ new.phase = "Failed" =>
           \E r \in Receipts("revoke") :
             r.reference = row.next /\ r.committed_at = new.compensated
  <2> HIDE DEF new
  <2>1. new = JournalRow(k, row.overlap_seconds, row.revision + 1)
    BY DEF new
  <2> QED BY <1>3, <1>4, <2>1, RowAdvances
<1>6. /\ e \in RotationEntries /\ e.rotation = id /\ e.prior = row.revision /\ e.revision = row.revision + 1
      /\ e.phase = k.phase /\ e.committed_at = vaultClock /\ e.transition = t
  <2>1. new.revision \in 1..5 /\ new.phase \in RotationPhases /\ row.revision \in 1..5
    <3> HIDE DEF new
    <3> QED BY <1>4, <1>5 DEF RotationRows
  <2>2. k.phase \in RotationPhases /\ row.revision + 1 \in 1..5 /\ row.revision \in 0..4
    <3> HIDE DEF new
    <3> QED BY <1>5, <2>1
  <2> QED BY <1>4, <2>2 DEF RotationEntries
<1>7. journals' = [journals EXCEPT ![id] = new]
  BY <1>2
<1> HIDE DEF new, e
<1>8. row.revision \in Nat /\ row.revision > 0 /\ row.updated \in Nat /\ row = journals[id]
  BY <1>4 DEF RotationRows, row
<1>9. /\ journals' \in Seq(RotationRows) /\ DOMAIN journals' = DOMAIN journals
      /\ journals'[id] = new /\ \A x \in DOMAIN journals : x # id => journals'[x] = journals[x]
  BY <1>5, <1>7 DEF VaultIInv, VaultTypeOK
<1>10. /\ rotationLog \in Seq(RotationEntries) /\ rotationLog' \in Seq(RotationEntries)
       /\ DOMAIN rotationLog' = DOMAIN rotationLog \cup {Len(rotationLog) + 1}
       /\ rotationLog'[Len(rotationLog) + 1] = e
       /\ \A x \in DOMAIN rotationLog : rotationLog'[x] = rotationLog[x]
  BY <1>3, <1>6 DEF VaultIInv, VaultTypeOK
<1>11. VaultTypeOK'
  BY <1>3, <1>9, <1>10 DEF VaultIInv, VaultTypeOK
<1>12. RowsFit'
  BY <1>5, <1>8, <1>9 DEF VaultIInv, RowsFit
<1> DEFINE H == history(row.phase, row.revision)
<1>13. EntryFits(e, new)
  <2>1. history(new.phase, new.revision)[new.revision] = new.phase
    BY <1>5, <1>8
  <2>2. t # "prepare"
    BY DEF RotationTransitions
  <2> QED BY <1>4, <1>5, <1>6, <1>8, <2>1, <2>2 DEF EntryFits, validate_mutation_fields
<1>14. ASSUME NEW x \in RotationEntries, EntryFits(x, row)
       PROVE  EntryFits(x, new)
  <2>1. x.revision \in 1..row.revision /\ x.committed_at \in Nat
    BY <1>8, <1>14 DEF RotationEntries, EntryFits
  <2>2. history(new.phase, new.revision)[x.revision] = H[x.revision]
    BY <1>5, <1>8, <2>1
  <2> QED BY <1>3, <1>4, <1>5, <1>8, <1>14, <2>1, <2>2 DEF EntryFits
<1>15. RotationLogFits'
  <2>1. \A x \in DOMAIN rotationLog : rotationLog[x] \in RotationEntries
    BY <1>10
  <2> QED BY <1>6, <1>8, <1>9, <1>10, <1>13, <1>14, <2>1 DEF VaultIInv, RotationLogFits
<1>16. RotationsDisjoint'
  BY <1>5, <1>8, <1>9 DEF VaultIInv, RotationsDisjoint
<1>17. \A r \in Receipts("revoke") :
         /\ r.reference \in DOMAIN secrets /\ secrets[r.reference].revoked = r.committed_at
         /\ secrets[r.reference].state = "revoked"
  BY DEF Receipts, Range, VaultIInv, VaultLogFits
<1>18. EndsTrue' /\ RevokedForGood'
  <2>1. EndsAreTrue(new)
    BY <1>5, <1>17 DEF EndsAreTrue
  <2>2. /\ new.phase = "Completed" =>
             new.previous \in DOMAIN secrets /\ secrets[new.previous].state = "revoked"
        /\ new.phase = "Failed" =>
             new.next \in DOMAIN secrets /\ secrets[new.next].state = "revoked"
    BY <1>5, <1>17
  <2>3. EndsTrue'
    BY <1>3, <1>9, <2>1 DEF VaultIInv, EndsTrue, EndsAreTrue
  <2>4. RevokedForGood'
    BY <1>3, <1>9, <2>2 DEF VaultIInv, RevokedForGood
  <2> QED BY <2>3, <2>4
<1>19. VaultLogFits' /\ OncePerReference'
  BY <1>3 DEF VaultIInv, VaultLogFits, OncePerReference
<1> QED BY <1>11, <1>12, <1>15, <1>16, <1>18, <1>19 DEF VaultIInv

\* Every step keeps the invariant.
LEMMA VaultKeeps == VaultIInv /\ [VaultNext]_vaultVars => VaultIInv'
<1> SUFFICES ASSUME VaultIInv, [VaultNext]_vaultVars PROVE VaultIInv'
  OBVIOUS
<1>1. CASE VaultClockMoves
  <2>1. vaultClock' \in Nat /\ UNCHANGED <<secrets, vaultLog, journals, rotationLog>>
    BY <1>1 DEF VaultClockMoves, VaultIInv, VaultTypeOK
  <2> QED BY <2>1 DEF VaultIInv, VaultTypeOK, VaultLogFits, RowsFit, RotationLogFits,
               RotationsDisjoint, EndsTrue, EndsAreTrue, RevokedForGood, OncePerReference
<1>2. CASE UNCHANGED vaultVars
  BY <1>2 DEF vaultVars, VaultIInv, VaultTypeOK, VaultLogFits, RowsFit, RotationLogFits,
              RotationsDisjoint, EndsTrue, EndsAreTrue, RevokedForGood, OncePerReference
<1> QED BY <1>1, <1>2, SecretKeeps, RevokeKeeps, PrepareKeeps, AdvanceKeeps DEF VaultNext

\* The inductive invariant: what each row and each log entry says of the others.
THEOREM VaultInvariant == VaultSpec => []VaultIInv
BY VaultStarts, VaultKeeps, PTL DEF VaultSpec

\* However stores, revocations, transitions and the clock interleave, unfinished
\* rotations share no reference, a completed one ended with its previous version revoked
\* after the overlap, a failed one with its next version revoked, and no reference was
\* stored or revoked twice.
THEOREM JournalTellsTheTruth == VaultSpec => []RotationsAreTrue
<1>1. VaultIInv => RotationsAreTrue
  BY TruthParts DEF VaultIInv
<1> QED BY <1>1, VaultInvariant, PTL

\* Every rotation mutation the log holds can be answered again, whatever its rotation has
\* become since, provided that no overlap window is shorter than the second it is stored
\* in.
THEOREM RepeatedMutationsAreAnswered ==
    ASSUME \A w \in Windows : w >= PerSecond
    PROVE  VaultSpec => []MutationsReplay
<1>1. VaultIInv => MutationsReplay
  <2> SUFFICES ASSUME VaultIInv, NEW i \in DOMAIN rotationLog PROVE replay_existing(rotationLog[i])
    BY DEF MutationsReplay
  <2> DEFINE e == rotationLog[i]
             row == journals[e.rotation]
  <2>1. /\ e.rotation \in DOMAIN journals /\ EntryFits(e, row) /\ e \in RotationEntries
    BY DEF VaultIInv, RotationLogFits, VaultTypeOK
  <2>2. row \in RotationRows /\ RowFits(row) /\ row.overlap_seconds > 0
    BY <2>1 DEF VaultIInv, RowsFit, VaultTypeOK
  <2> HIDE DEF e, row
  <2>3. PICK j : decode_journal(row) = {j} /\ StandsFor(row, j)
    BY <2>2, Rebuilds
  <2>4. DOMAIN history(row.phase, row.revision) = 1..row.revision
    <3>1. row.phase \in RotationPhases
      BY <2>2 DEF RotationRows
    <3>2. CASE row.phase \in {"Prepared", "NewVersionStored", "Active", "Completed"}
      <4>1. <<row.phase, row.revision>> \in
              {<<"Prepared", 1>>, <<"NewVersionStored", 2>>, <<"Active", 3>>, <<"Completed", 4>>}
        BY <2>2, <3>2 DEF RowFits
      <4>2. CASE row.phase = "Prepared" /\ row.revision = 1
        BY <4>2 DEF history
      <4>3. CASE row.phase = "NewVersionStored" /\ row.revision = 2
        BY <4>3 DEF history
      <4>4. CASE row.phase = "Active" /\ row.revision = 3
        BY <4>4 DEF history
      <4>5. CASE row.phase = "Completed" /\ row.revision = 4
        BY <4>5 DEF history
      <4> QED BY <4>1, <4>2, <4>3, <4>4, <4>5
    <3>3. CASE row.phase = "Compensating"
      <4>1. row.revision = 3 \/ row.revision = 4
        BY <2>2, <3>3 DEF RowFits
      <4> QED BY <3>3, <4>1 DEF history
    <3>4. CASE row.phase = "Failed"
      <4>1. row.revision = 4 \/ row.revision = 5
        BY <2>2, <3>4 DEF RowFits
      <4> QED BY <3>4, <4>1 DEF history
    <3> QED BY <3>1, <3>2, <3>3, <3>4 DEF RotationPhases
  <2>5. receipt_matches_snapshot(j, row, e)
    <3>1. j.phase = row.phase /\ e.revision \in 1..row.revision
      BY <2>1, <2>2, <2>3 DEF StandsFor, EntryFits, RotationEntries, RotationRows
    <3> QED BY <2>1, <2>2, <2>4, <3>1 DEF receipt_matches_snapshot, EntryFits, RotationEntries, RotationRows
  <2>6. j \in decode_journal(journals[e.rotation]) /\ receipt_matches_snapshot(j, journals[e.rotation], e)
    BY <2>3, <2>5 DEF row
  <2>7. replay_existing(e)
    BY <2>1, <2>6 DEF replay_existing, EntryFits
  <2> QED BY <2>7 DEF e
<1> QED BY <1>1, VaultInvariant, PTL
=============================================================================
