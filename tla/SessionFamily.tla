---------------------------- MODULE SessionFamily ----------------------------
(***************************************************************************)
(* Browser session families (ariadnion-auth-session): a family has one     *)
(* active leaf and the leaves it replaced.  Presenting the active leaf's   *)
(* token rotates it; presenting a replaced one ends the family.  Decisions *)
(* are pure: a command on a snapshot yields the next snapshot and an       *)
(* event, or an error.  Here a decision is the set of its results, empty   *)
(* for an error.  A leaf's identity and its token digest are drawn         *)
(* together and compared separately.                                       *)
(***************************************************************************)
EXTENDS Integers, Sequences, SequencesExt

CONSTANTS
    Leaves,       \* leaf identities, each with its token digest
    Times,        \* UTC seconds
    MaxIdle,      \* MAX_IDLE_LIFETIME_SECONDS
    MaxAbsolute,  \* MAX_ABSOLUTE_LIFETIME_SECONDS
    MaxRotated,   \* MAX_ROTATED_SESSIONS
    Actors        \* principals that issue commands

ASSUME FamilyAssumption ==
    Times \subseteq Int /\ MaxIdle \in Nat /\ MaxAbsolute \in Nat /\ MaxRotated \in Nat

\* Leaves and families as they are stored.
LeafRows ==
    [id : Leaves, at : Times, idle : Times, version : Nat,
     state : {"Active", "Rotated", "Revoked", "Expired"}]
Families ==
    [version : Nat, state : {"Active", "Revoked", "Expired"}, issued : Times, absolute : Times,
     current : LeafRows, rotated : Seq(LeafRows)]

ActiveLeaf(id, at, idle) == [id |-> id, at |-> at, idle |-> idle, version |-> 1, state |-> "Active"]

\* with_state.
WithState(leaf, state) == [leaf EXCEPT !.version = @ + 1, !.state = state]

Event(family, actor, at, kind) ==
    [kind |-> kind, leaf |-> family.current.id, version |-> family.version, actor |-> actor, at |-> at]

Transition(family, actor, at, kind) == [family |-> family, event |-> Event(family, actor, at, kind)]

ValidIdle(at, idle, absolute) == at < idle /\ idle - at <= MaxIdle /\ idle <= absolute

\* issue_session.
Issue(id, actor, at, idle, absolute) ==
    LET family == [version |-> 1, state |-> "Active", issued |-> at, absolute |-> absolute,
                   current |-> ActiveLeaf(id, at, idle), rotated |-> <<>>]
    IN {t \in {Transition(family, actor, at, "Issued")} :
            absolute - at \in 1..MaxAbsolute /\ ValidIdle(at, idle, absolute)}

\* A command: the leaf and token it presents (two leaves, when they differ),
\* and for a rotation the successor and its idle deadline.
Commands ==
    [action : {"Rotate"}, actor : Actors, at : Times,
     session : Leaves, token : Leaves, successor : Leaves, idle : Times]
    \cup [action : {"DetectReuse"}, actor : Actors, at : Times, session : Leaves, token : Leaves]
    \cup [action : {"Revoke", "Expire"}, actor : Actors, at : Times]

RotatedIds(f) == {f.rotated[i].id : i \in DOMAIN f.rotated}

\* Every leaf of an ended family has the family's final state.
Ended(f, state) ==
    [f EXCEPT !.version = @ + 1, !.state = state,
              !.current = WithState(@, state),
              !.rotated = [i \in DOMAIN @ |-> WithState(@[i], state)]]

RevokeForReuse(f, c) == {Transition(Ended(f, "Revoked"), c.actor, c.at, "ReuseRevoked")}

OutOfTime(f, at) == at >= f.absolute \/ at >= f.current.idle

RotateActiveLeaf(f, c) ==
    LET next == [f EXCEPT !.version = @ + 1,
                          !.current = ActiveLeaf(c.successor, c.at, c.idle),
                          !.rotated = Append(@, WithState(f.current, "Rotated"))]
    IN {t \in {Transition(next, c.actor, c.at, "Rotated")} :
            /\ ValidIdle(c.at, c.idle, f.absolute)
            /\ Len(f.rotated) < MaxRotated
            /\ c.successor \notin RotatedIds(f) \cup {f.current.id}}

ApplyRotation(f, c) ==
    IF c.session # f.current.id \/ OutOfTime(f, c.at) THEN {}
    ELSE IF c.token = f.current.id THEN RotateActiveLeaf(f, c)
    ELSE IF c.token \in RotatedIds(f) THEN RevokeForReuse(f, c)
    ELSE {}

ApplyReuseDetection(f, c) ==
    IF c.session = c.token /\ c.session \in RotatedIds(f) THEN RevokeForReuse(f, c) ELSE {}

ApplyExpire(f, c) ==
    IF OutOfTime(f, c.at) THEN {Transition(Ended(f, "Expired"), c.actor, c.at, "Expired")} ELSE {}

\* transition_session_family, given a command for the version it was made for.
Decide(f, c, expected) ==
    IF f.version # expected \/ c.at < f.issued \/ c.at < f.current.at \/ f.state # "Active" THEN {}
    ELSE CASE c.action = "Rotate"      -> ApplyRotation(f, c)
           [] c.action = "DetectReuse" -> ApplyReuseDetection(f, c)
           [] c.action = "Revoke"      -> {Transition(Ended(f, "Revoked"), c.actor, c.at, "Revoked")}
           [] c.action = "Expire"      -> ApplyExpire(f, c)

-----------------------------------------------------------------------------
(* What the repository does with snapshots.                                *)

AllLeaves(f) == Append(f.rotated, f.current)

\* lifecycle_expectation: the state and version of a current and a replaced
\* leaf.
Expected(state) ==
    IF state = "Active" THEN [current |-> <<"Active", 1>>, rotated |-> <<"Rotated", 2>>]
    ELSE [current |-> <<state, 2>>, rotated |-> <<state, 3>>]

\* validate_snapshot.
ValidSnapshot(f) ==
    LET leaves == AllLeaves(f)
        Stage(leaf) == <<leaf.state, leaf.version>>
    IN /\ Len(f.rotated) <= MaxRotated
       /\ f.absolute - f.issued \in 1..MaxAbsolute
       /\ f.version = Len(f.rotated) + (IF f.state = "Active" THEN 1 ELSE 2)
       /\ Stage(f.current) = Expected(f.state).current
       /\ \A i \in DOMAIN f.rotated : Stage(f.rotated[i]) = Expected(f.state).rotated
       /\ leaves[1].at = f.issued
       /\ \A i \in 2..Len(leaves) : leaves[i].at >= leaves[i - 1].at
       /\ \A i \in DOMAIN leaves : ValidIdle(leaves[i].at, leaves[i].idle, f.absolute)
       /\ \A i, j \in DOMAIN leaves : leaves[i].id = leaves[j].id => i = j

\* verify_event_history: one event per version, of the leaf of that version.
EventsMatch(f, events) ==
    LET leaves == AllLeaves(f)
    IN /\ Len(events) = f.version
       /\ \A v \in DOMAIN leaves :
            /\ events[v].kind = IF v = 1 THEN "Issued" ELSE "Rotated"
            /\ events[v].leaf = leaves[v].id /\ events[v].version = v /\ events[v].at = leaves[v].at
       /\ f.state # "Active" => LET last == events[Len(leaves) + 1] IN
            /\ last.leaf = f.current.id /\ last.version = f.version
            /\ \/ f.state = "Revoked" /\ last.kind = "ReuseRevoked" /\ f.rotated # <<>> /\ last.at >= f.current.at
               \/ f.state = "Revoked" /\ last.kind = "Revoked" /\ last.at >= f.current.at
               \/ f.state = "Expired" /\ last.kind = "Expired" /\ OutOfTime(f, last.at)

HistoricalLeaf(leaf, state) ==
    [leaf EXCEPT !.version = IF state = "Active" THEN 1 ELSE 2, !.state = state]

\* family_at_version: the snapshot committed at an earlier version, rebuilt
\* from the latest one.  Every version but the latest was active.
FamilyAt(f, version) ==
    IF version = f.version THEN f
    ELSE LET leaves == AllLeaves(f)
         IN [f EXCEPT !.version = version, !.state = "Active",
                      !.current = HistoricalLeaf(leaves[version], "Active"),
                      !.rotated = [i \in 1..(version - 1) |-> HistoricalLeaf(leaves[i], "Rotated")]]

\* replay_action: the command that the repository thinks led to a transition.
\* Which token was presented is not part of one.
ReplayAction(f, t) ==
    LET actor == t.event.actor
        at == t.event.at
    IN CASE t.event.kind = "Rotated" ->
              [action |-> "Rotate", actor |-> actor, at |-> at, session |-> f.current.id,
               token |-> f.current.id, successor |-> t.family.current.id, idle |-> t.family.current.idle]
         [] t.event.kind = "ReuseRevoked" ->
              [action |-> "DetectReuse", actor |-> actor, at |-> at,
               session |-> f.rotated[1].id, token |-> f.rotated[1].id]
         [] t.event.kind = "Revoked" -> [action |-> "Revoke", actor |-> actor, at |-> at]
         [] OTHER -> [action |-> "Expire", actor |-> actor, at |-> at]

Replay(f, t, expected) == Decide(f, ReplayAction(f, t), expected)

=============================================================================
