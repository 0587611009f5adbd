--------------------------- MODULE UserLifecycle ---------------------------
(***************************************************************************)
(* Users (ariadnion-user-domain) and what their repository checks          *)
(* (ariadnion-storage-rnmdb: user_repository.rs).  The state of a user     *)
(* determines the parity of its version, which the snapshot is checked     *)
(* for; reconciliation walks the later lifecycle rows with a machine of    *)
(* its own.  The first version has no lifecycle row.                       *)
(***************************************************************************)
EXTENDS Naturals, FiniteSets

CONSTANTS
    Times,   \* UTC seconds, as the commands state them
    None     \* absent metadata

Simple(state) == [state |-> state, requested |-> None, not_before |-> None, recovery |-> None]

Pending(requested, not_before, recovery) ==
    [state |-> "DeletionPending", requested |-> requested, not_before |-> not_before, recovery |-> recovery]

\* A user as it was created, outside of the domain's transitions.
Invited == [version |-> 1, is |-> Simple("Invited")]

\* LifecycleRecord: the columns of an event.
Event(version, kind, at, not_before, recovery) ==
    [version |-> version, kind |-> kind, at |-> at, not_before |-> not_before, recovery |-> recovery]

\* evolve, when the command is allowed.
Evolved(allowed, user, is, kind, at, not_before, recovery) ==
    IF allowed THEN {[previous |-> user, next |-> [version |-> user.version + 1, is |-> is],
                      event |-> Event(user.version + 1, kind, at, not_before, recovery)]}
    ELSE {}

activate(user, at) == Evolved(user.is.state = "Invited", user, Simple("Active"), "activated", at, None, None)

suspend(user, at) == Evolved(user.is.state = "Active", user, Simple("Suspended"), "suspended", at, None, None)

resume(user, at) == Evolved(user.is.state = "Suspended", user, Simple("Active"), "resumed", at, None, None)

request_deletion(user, at, not_before) ==
    Evolved(not_before > at /\ user.is.state \in {"Active", "Suspended"},
        user, Pending(at, not_before, user.is.state), "deletion_requested", at, not_before, user.is.state)

\* recover_deletion, with an authorization for a pending version and a window.
recover_deletion(user, at, version, from, until) ==
    Evolved(/\ user.is.state = "DeletionPending"
            /\ version = user.version /\ from <= until /\ from <= at /\ at <= until,
        user, Simple(user.is.recovery), "deletion_recovered", at, None, user.is.recovery)

complete_deletion(user, at) ==
    Evolved(user.is.state = "DeletionPending" /\ at >= user.is.not_before,
        user, Simple("Deleted"), "deleted", at, None, None)

\* dispatch_user_action, for every command.
Decisions(user) ==
    UNION {activate(user, at) \cup suspend(user, at) \cup resume(user, at) \cup complete_deletion(user, at)
             \cup (UNION {request_deletion(user, at, b) : b \in Times})
             \cup (UNION {recover_deletion(user, at, v, b, u) :
                            v \in {user.version - 1, user.version}, b \in Times, u \in Times})
           : at \in Times}

-----------------------------------------------------------------------------
(* from_snapshot.                                                          *)

Even(v) == v % 2 = 0

\* user_state_from_snapshot.
ValidSnapshot(user) ==
    LET v == user.version IN
    CASE user.is.state = "Invited" -> v = 1
      [] user.is.state = "Active" -> v >= 2 /\ Even(v)
      [] user.is.state = "Suspended" -> v >= 3 /\ ~Even(v)
      [] user.is.state = "DeletionPending" ->
            /\ user.is.not_before > user.is.requested
            /\ IF user.is.recovery = "Active" THEN v >= 3 /\ ~Even(v) ELSE v >= 4 /\ Even(v)
      [] user.is.state = "Deleted" -> v >= 4

-----------------------------------------------------------------------------
(* The repository.                                                         *)

\* Mutant: the row is replaced whatever version it has by now.
AcceptsStale(user, rows, t, expected) ==
    t.event.version = t.next.version /\ t.next.version = expected + 1

\* compare_and_update_user, on the version alone.
Accepts(user, rows, t, expected) ==
    /\ t.event.version = t.next.version /\ t.next.version = expected + 1
    /\ user.version = expected

\* HistoryState: what the walk over later rows keeps of a user's state.
HistoryState(is) == [state |-> is.state, recovery |-> is.recovery, not_before |-> is.not_before]

NoMetadata(e) == e.not_before = None /\ e.recovery = None

PendingEvent(e, recovery) ==
    /\ e.kind = "deletion_requested" /\ e.recovery = recovery
    /\ e.not_before # None /\ e.at < e.not_before
    /\ Even(e.version) <=> recovery = "Suspended"

RecoveryEvent(e, recovery) ==
    /\ e.kind = "deletion_recovered" /\ e.recovery = recovery /\ e.not_before = None
    /\ Even(e.version) <=> recovery = "Active"

\* state_after_target_event: the event of the target fits its own snapshot.
TargetFits(is, e) ==
    CASE e.kind = "activated" -> is.state = "Active" /\ e.version = 2 /\ NoMetadata(e)
      [] e.kind = "suspended" -> is.state = "Suspended" /\ ~Even(e.version) /\ NoMetadata(e)
      [] e.kind = "resumed" -> is.state = "Active" /\ Even(e.version) /\ e.version >= 4 /\ NoMetadata(e)
      [] e.kind = "deletion_requested" ->
            is.state = "DeletionPending" /\ e.not_before = is.not_before /\ PendingEvent(e, is.recovery)
      [] e.kind = "deletion_recovered" -> is.state \in {"Active", "Suspended"} /\ RecoveryEvent(e, is.state)
      [] e.kind = "deleted" -> is.state = "Deleted" /\ NoMetadata(e)

\* advance_history and snapshot_after_event: the snapshot after a later row, if
\* the row may follow.
Advanced(is, e) ==
    CASE is.state = "Invited" /\ e.kind = "activated" /\ e.version = 2 /\ NoMetadata(e) -> {Simple("Active")}
      [] is.state = "Active" /\ e.kind = "suspended" /\ ~Even(e.version) /\ NoMetadata(e) -> {Simple("Suspended")}
      [] is.state = "Suspended" /\ e.kind = "resumed" /\ Even(e.version) /\ NoMetadata(e) -> {Simple("Active")}
      [] is.state \in {"Active", "Suspended"} /\ PendingEvent(e, is.state) -> {Pending(e.at, e.not_before, is.state)}
      [] is.state = "DeletionPending" /\ RecoveryEvent(e, is.recovery) -> {Simple(is.recovery)}
      [] is.state = "DeletionPending" /\ e.kind = "deleted" /\ e.at >= is.not_before /\ NoMetadata(e) ->
            {Simple("Deleted")}
      [] OTHER -> {}

\* validate_current_lifecycle_facts: the last row fits the snapshot.
CurrentFits(user, e) ==
    LET is == user.is
    IN CASE is.state = "Active" ->
               \/ e.kind = "activated" /\ e.version = 2 /\ NoMetadata(e)
               \/ e.kind = "resumed" /\ e.version > 2 /\ NoMetadata(e)
               \/ e.kind = "deletion_recovered" /\ e.version > 2 /\ e.not_before = None /\ e.recovery = "Active"
         [] is.state = "Suspended" ->
               \/ e.kind = "suspended" /\ e.version >= 3 /\ NoMetadata(e)
               \/ e.kind = "deletion_recovered" /\ e.version >= 5 /\ e.not_before = None /\ e.recovery = "Suspended"
         [] is.state = "DeletionPending" ->
               /\ e.kind = "deletion_requested" /\ e.at = is.requested
               /\ e.not_before = is.not_before /\ e.recovery = is.recovery
         [] is.state = "Deleted" -> e.kind = "deleted" /\ NoMetadata(e)
         [] OTHER -> FALSE

\* The evidence of a version is found by the digest of the request, the event
\* and the snapshot.
Evidenced(rows, v, request, event, is) ==
    rows[v].request = request /\ rows[v].event = event /\ rows[v].next.is = is

\* verify_history_rows: the snapshots the later rows lead to, per version.
Walk(rows, v, is) ==
    LET at[w \in v..(v + Cardinality({u \in DOMAIN rows : u > v}))] ==
            IF w = v THEN {is} ELSE UNION {Advanced(s, rows[w].event) : s \in at[w - 1]}
    IN at

\* reconcile_commit.
Confirms(user, rows, t, request) ==
    LET v == t.next.version
        last == user.version
    IN /\ ValidSnapshot(user) /\ last >= v
       /\ last = v => user = t.next
       /\ \A w \in DOMAIN rows : w <= last
       /\ last > v =>
            /\ v..last \subseteq DOMAIN rows
            /\ rows[v].event = t.event /\ TargetFits(t.next.is, t.event)
            /\ {HistoryState(is) : is \in Walk(rows, v, t.next.is)[last]} = {HistoryState(user.is)}
            /\ CurrentFits(user, rows[last].event)
       /\ Evidenced(rows, v, request, t.event, t.next.is)
       /\ \A w \in (v + 1)..last : \A is \in Walk(rows, v, t.next.is)[w] :
            Evidenced(rows, w, rows[w].request, rows[w].event, is)

=============================================================================
