-------------------------- MODULE AggregateLineage --------------------------
(***************************************************************************)
(* What the identity repositories promise of an aggregate: its durable     *)
(* snapshot only ever moves by one decision of the domain, taken on the    *)
(* snapshot it replaces.  One aggregate, of any kind.                      *)
(***************************************************************************)
EXTENDS Naturals

CONSTANTS
    Users, Teams, Principals, Secrets, Seconds, Never, None,
    MaxMemberships, MaxTeams, MaxAssignments, MaxReauthAge, MaxTransferLife, MaxHistory,
    MaxInvitationLife, MaxKeyLife, MaxOverlap, MaxRetired,
    MaxLineage   \* bound: the versions of an aggregate, per kind

ASSUME LineageAssumption ==
    /\ Seconds \subseteq Nat /\ Never \notin Seconds
    /\ None \notin Users \cup Secrets \cup Seconds /\ MaxRetired \in Nat

Org == INSTANCE Organization WITH Times <- Seconds
Usr == INSTANCE UserLifecycle WITH Times <- Seconds
Inv == INSTANCE Invitation WITH Times <- Seconds, MaxLifetime <- MaxInvitationLife
Key == INSTANCE ApiKey WITH Times <- Seconds, MaxLifetime <- MaxKeyLife

\* A snapshot is not its absence.
ASSUME AbsenceAssumption == None \notin Inv!Snapshot /\ None \notin Key!Snapshot

VARIABLES
    kind,        \* what the aggregate is
    aggregate    \* its snapshot, or None

lineageVars == <<kind, aggregate>>

Kinds == DOMAIN MaxLineage

ASSUME KindsAssumption == Kinds \subseteq {"organization", "user", "invitation", "api_key"}

Unborn(k) == IF k = "user" THEN Usr!Invited ELSE None

\* The transitions that the domain decides on a snapshot.
Decided(a) ==
    {t \in CASE kind = "organization" -> IF a = None THEN Org!Creations ELSE Org!Decisions(a)
             [] kind = "user" -> Usr!Decisions(a)
             [] kind = "invitation" -> IF a = None THEN Inv!Creations ELSE Inv!Decisions(a)
             [] kind = "api_key" -> IF a = None THEN Key!Creations ELSE Key!Decisions(a)
        : t.next.version <= MaxLineage[kind]}

LineageInit == \E k \in Kinds : kind = k /\ aggregate = Unborn(k)

LineageNext == \E t \in Decided(aggregate) : aggregate' = t.next /\ UNCHANGED kind

LineageSpec == LineageInit /\ [][LineageNext]_lineageVars

\* What is verified of a snapshot whenever it is loaded.
Loadable(a) ==
    CASE kind = "organization" -> Org!ValidSnapshot(a)
      [] kind = "user" -> Usr!ValidSnapshot(a)
      [] kind = "invitation" -> Inv!ValidSnapshot(a)
      [] kind = "api_key" -> Key!ValidSnapshot(a)

\* What is verified of its events: each leads from the one snapshot to the other.
Replays(t) ==
    CASE kind = "organization" ->
            Org!ValidEvent(t.event) /\ (t.previous # None => Org!Replay(t.previous, t.event) = {t})
      [] kind = "user" ->
            /\ Usr!Advanced(t.previous.is, t.event) = {t.next.is}
            /\ Usr!TargetFits(t.next.is, t.event) /\ Usr!CurrentFits(t.next, t.event)
      [] kind = "invitation" ->
            IF t.previous = None THEN Inv!IssuanceFits(t.next, t.event) ELSE Inv!TerminalFits(t.next, t.event)
      [] kind = "api_key" ->
            t.previous # None => Key!Replay(t.previous, [event |-> t.event, next |-> t.next]) = {t}

\* No legal sequence of commands leads to an aggregate that its repository can
\* no longer load: the version formula of organizations, the parity of a user's
\* version and the machines that replay persisted events agree with the domain
\* on every history.
LineageStaysLoadable ==
    /\ aggregate # None => Loadable(aggregate)
    /\ \A t \in Decided(aggregate) : Replays(t)

\* What a key gave up: its retired secrets and, once it has ended, all of them.
GivenUp(k) == IF Key!Usable(k) THEN Key!Retired(k) ELSE Secrets

\* A secret that a key gave up is never honoured again, whatever rotations and
\* whatever commands follow, and however a presentation is dated.
SecretsStayRetired ==
    [][kind = "api_key" /\ aggregate # None =>
          \A s \in GivenUp(aggregate) \cup GivenUp(aggregate'), at \in Seconds :
              ~Key!Honours(aggregate', s, at)]_lineageVars

=============================================================================
