----------------------------- MODULE RateLimit -----------------------------
(***************************************************************************)
(* Concurrent holders of the rate and concurrency controller.  Each holder *)
(* reads the monotonic clock before it gets the lock, so readings reach    *)
(* the controller in any order.  A handle is gone once its owner closes,   *)
(* finalizes or drops it; its record in the controller may be gone before  *)
(* (expired) or after (retained until it expires).                         *)
(***************************************************************************)
EXTENDS RateController

VARIABLES
    ctl,       \* the controller
    handles,   \* lease identities whose AdmissionLease is still open
    dropping,  \* handles consumed by a close that failed, not yet dropped
    retained   \* leases consumed without releasing their permits

rateVars == <<ctl, handles, dropping, retained>>

RateInit ==
    /\ ctl = NewController(0)
    /\ handles = {}
    /\ dropping = {}
    /\ retained = {}

Admit(req, now) ==
    LET answer == TryAdmit(ctl, req, now) IN
    /\ ctl' = answer.ctl
    /\ handles' = IF answer.code = "Ok" THEN handles \cup {answer.ctl.identity} ELSE handles
    /\ UNCHANGED <<dropping, retained>>

Snapshot(k, now) ==
    /\ ctl' = Inspect(ctl, k, now).ctl
    /\ UNCHANGED <<handles, dropping, retained>>

\* commit_rate keeps the handle open.
CommitHeld(id, now) ==
    /\ ctl' = CommitRateAt(ctl, id, now).ctl
    /\ UNCHANGED <<handles, dropping, retained>>

\* finalize_accepted consumes the handle whatever it returns.
Finalize(id, now) ==
    LET answer == FinalizeAccepted(ctl, id, now) IN
    /\ ctl' = answer.ctl
    /\ handles' = handles \ {id}
    /\ retained' = IF answer.code = "ReconciliationRequired" THEN retained \cup {id} ELSE retained
    /\ UNCHANGED dropping

FinalizeWithoutClock(id) ==
    /\ ctl' = FinalizeUntimed(ctl, id).ctl
    /\ handles' = handles \ {id}
    /\ retained' = retained \cup {id}
    /\ UNCHANGED dropping

Retain(id, now) ==
    /\ ctl' = RetainDispatched(ctl, id, now).ctl
    /\ handles' = handles \ {id}
    /\ retained' = retained \cup {id}
    /\ UNCHANGED dropping

\* release or cancel; when the reading regresses the lease stays on record
\* and is closed without a reading as the consumed handle is dropped.
Close(id, now) ==
    LET answer == CloseLease(ctl, id, now) IN
    /\ ctl' = answer.ctl
    /\ handles' = handles \ {id}
    /\ dropping' = IF answer.code = "ClockRegressed" THEN dropping \cup {id} ELSE dropping
    /\ UNCHANGED retained

DropHandle(id) ==
    /\ ctl' = CloseUntimed(ctl, id)
    /\ handles' = handles \ {id}
    /\ dropping' = dropping \ {id}
    /\ UNCHANGED retained

RateNext ==
    \/ \E now \in Instant :
        \/ \E req \in RateRequests : Admit(req, now)
        \/ \E k \in LimitKeys : Snapshot(k, now)
        \/ \E id \in handles :
            \/ CommitHeld(id, now)
            \/ Finalize(id, now)
            \/ Retain(id, now)
            \/ Close(id, now)
    \/ \E id \in handles : FinalizeWithoutClock(id)
    \/ \E id \in handles \cup dropping : DropHandle(id)

RateSpec == RateInit /\ [][RateNext]_rateVars

-----------------------------------------------------------------------------
(* Properties.                                                             *)

RateLease == [id : 1..MaxIdentity, keys : SUBSET LimitKeys, units : Nat \ {0},
          expires : Instant, charged : BOOLEAN]

\* Windows, permits and leases are well formed: no counter is below zero and no
\* instant or identity beyond the end of its range.
RateTypeOK ==
    /\ ctl.lastNow \in Instant
    /\ ctl.identity \in 0..MaxIdentity
    /\ ctl.windows \in [LimitKeys -> [ends : Instant, committed : Nat, pending : Nat]]
    /\ ctl.active \in [LimitKeys -> Nat]
    /\ ctl.leases \subseteq RateLease
    /\ handles \subseteq 1..MaxIdentity
    /\ dropping \subseteq 1..MaxIdentity
    /\ retained \subseteq 1..MaxIdentity

\* The pending units and the active permits of every key are those of the
\* leases on record: no order of expiry, drop, charge and window restart
\* leaks capacity or gives it back twice.
CapacityIsAccounted ==
    \A k \in LimitKeys :
        /\ ctl.windows[k].pending = PendingUnits(ctl.leases, k)
        /\ ctl.active[k] = Permits(ctl.leases, k)

\* Charged and pending units of a window never exceed the rate, and active
\* permits never the concurrency limit.
WithinLimits ==
    \A k \in LimitKeys :
        /\ ctl.windows[k].committed + ctl.windows[k].pending <= RateCapacity[k]
        /\ ctl.active[k] <= ConcurrencyLimit[k]

\* A lease ends no later than the windows it pends in, so a window is only
\* restarted when nothing pends in it and no unit moves to a later window.
LeasesEndWithTheirWindow ==
    \A l \in ctl.leases : \A k \in Rated(l.keys) : l.expires <= ctl.windows[k].ends

\* Every lease on record has somebody who will end it: an open handle, or its
\* expiry once the handle was consumed to retain it.
NoOrphanedLease == \A l \in ctl.leases : l.id \in handles \cup dropping \cup retained

\* Nothing is admitted beyond a limit, no limit is used up by capacity that
\* nobody holds or will ever return, and no unit moves to a later window.
AccountedWithinLimits ==
    CapacityIsAccounted /\ WithinLimits /\ LeasesEndWithTheirWindow /\ NoOrphanedLease

\* A retained permit is returned only by an observation at or after its
\* expiry, also not by the call that consumes the handle.
RetainedUntilExpiry ==
    [][\A l \in ctl.leases :
          l.id \in retained' /\ LeaseOf(ctl', l.id) = {} => ctl'.lastNow >= l.expires]_rateVars

=============================================================================
