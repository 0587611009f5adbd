--------------------------- MODULE RateController ---------------------------
(***************************************************************************)
(* The rate and concurrency controller (ariadnion-rate-limit) as a value   *)
(* and the operations that its mutex makes atomic.  RateLimit and          *)
(* RoutingAdmission turn the operations into steps.                        *)
(*                                                                         *)
(* A limit key has a fixed-window rate rule, a concurrency rule or both; a *)
(* lease pends its units on every rate key and holds a permit of every     *)
(* concurrency key until it is closed or its expiry is observed.  Checked  *)
(* u32 additions stay below the capacity that the checks before them use,  *)
(* so they have no overflow branch here; the u64 times and identities do.  *)
(***************************************************************************)
EXTENDS Naturals, FiniteSets, FiniteSetsExt

CONSTANTS
    LimitKeys,
    RateCapacity,        \* units per window of each key; 0: no rate rule
    RateWindow,          \* length of each key's window
    ConcurrencyLimit,    \* permits of each key; 0: no concurrency rule
    LeaseDuration,       \* longest life of a permit of each key
    RateRequests,        \* admission requests: keys and units
    MaxInstant,          \* largest monotonic time (u64::MAX in the code)
    MaxIdentity          \* largest identity (u64::MAX)

\* Every policy has a rate rule, a concurrency rule or both.
ValidLimits ==
    /\ RateCapacity \in [LimitKeys -> Nat]
    /\ RateWindow \in [LimitKeys -> Nat \ {0}]
    /\ ConcurrencyLimit \in [LimitKeys -> Nat]
    /\ LeaseDuration \in [LimitKeys -> Nat \ {0}]
    /\ \A k \in LimitKeys : RateCapacity[k] > 0 \/ ConcurrencyLimit[k] > 0

RateRequest == [keys : (SUBSET LimitKeys) \ {{}}, units : Nat \ {0}]

ASSUME RateAssumption ==
    /\ ValidLimits
    /\ RateRequests \subseteq RateRequest
    /\ MaxInstant \in Nat
    /\ MaxIdentity \in Nat

Instant == 0..MaxInstant

\* A window that no admission has opened yet.
NoWindow == [ends |-> 0, committed |-> 0, pending |-> 0]

Rated(keys) == {k \in keys : RateCapacity[k] > 0}
Permitted(keys) == {k \in keys : ConcurrencyLimit[k] > 0}

NewController(now) ==
    [lastNow  |-> now,
     identity |-> 0,
     windows  |-> [k \in LimitKeys |-> NoWindow],
     active   |-> [k \in LimitKeys |-> 0],
     leases   |-> {}]

Monus(a, b) == IF a > b THEN a - b ELSE 0

LeaseOf(c, id) == {l \in c.leases : l.id = id}

PendingUnits(leases, k) ==
    MapThenSumSet(LAMBDA l : l.units, {l \in leases : ~l.charged /\ k \in Rated(l.keys)})

Permits(leases, k) == Cardinality({l \in leases : k \in Permitted(l.keys)})

\* remove_lease, for a set of leases at once: permits return, and so do the
\* units of leases that were not charged.
RemoveLeases(c, gone) ==
    [c EXCEPT
        !.active = [k \in LimitKeys |-> Monus(@[k], Permits(gone, k))],
        !.windows = [k \in LimitKeys |->
            [c.windows[k] EXCEPT !.pending = Monus(@, PendingUnits(gone, k))]],
        !.leases = @ \ gone]

\* observe_and_expire; the caller has checked that time does not regress.
Observe(c, now) ==
    [RemoveLeases(c, {l \in c.leases : l.expires <= now}) EXCEPT !.lastNow = now]

Regresses(c, now) == now < c.lastNow

Answer(c, code) == [ctl |-> c, code |-> code]

-----------------------------------------------------------------------------
(* try_admit.                                                              *)

\* prepare_windows: a window that ended, or was never opened, starts now.
PrepareWindows(c, keys, now) ==
    [c EXCEPT !.windows = [k \in LimitKeys |->
        IF k \in Rated(keys) /\ @[k].ends <= now
        THEN [ends |-> now + RateWindow[k], committed |-> 0, pending |-> 0]
        ELSE @[k]]]

WindowsOverflow(keys, now) == \E k \in Rated(keys) : now + RateWindow[k] > MaxInstant

RateExceeded(c, req) ==
    \E k \in Rated(req.keys) :
        req.units > Monus(RateCapacity[k], c.windows[k].committed + c.windows[k].pending)

ConcurrencyExceeded(c, req) ==
    \E k \in Permitted(req.keys) : c.active[k] >= ConcurrencyLimit[k]

\* Mutant: a permit may outlive the window its units are pending in.
PermitExpiryOnly(c, keys, now) ==
    IF Permitted(keys) = {} THEN Min({c.windows[k].ends : k \in Rated(keys)})
    ELSE Min({now + LeaseDuration[k] : k \in Permitted(keys)})

\* lease_expiry: the earliest end of a window or of a permit.
LeaseExpiry(c, keys, now) ==
    Min({c.windows[k].ends : k \in Rated(keys)}
        \cup {now + LeaseDuration[k] : k \in Permitted(keys)})

\* allocate_identities: a reservation and a lease identity per admission.
Allocate(c) == [c EXCEPT !.identity = @ + 2]

\* reserve: pend the units, take the permits, record the lease.
Grant(c, req, expires) ==
    [c EXCEPT
        !.windows = [k \in LimitKeys |->
            IF k \in Rated(req.keys) THEN [c.windows[k] EXCEPT !.pending = @ + req.units] ELSE @[k]],
        !.active = [k \in LimitKeys |->
            IF k \in Permitted(req.keys) THEN @[k] + 1 ELSE @[k]],
        !.leases = @ \cup {[id |-> c.identity, keys |-> req.keys, units |-> req.units,
                            expires |-> expires, charged |-> FALSE]}]

\* prepare_admission, with the two capacity refusals in a fixed order (the
\* code interleaves them key by key; only the code returned differs).  What a
\* refusal had already done (time observed, leases expired, windows
\* restarted, identities used) stays done.
TryAdmit(c, req, now) ==
    LET observed  == Observe(c, now)
        prepared  == PrepareWindows(observed, req.keys, now)
        allocated == Allocate(prepared)
    IN IF Regresses(c, now) THEN Answer(c, "ClockRegressed")
       ELSE IF WindowsOverflow(req.keys, now) THEN Answer(observed, "CounterExhausted")
       ELSE IF RateExceeded(prepared, req) THEN Answer(prepared, "RateLimited")
       ELSE IF ConcurrencyExceeded(prepared, req) THEN Answer(prepared, "ConcurrencyLimited")
       ELSE IF prepared.identity + 2 > MaxIdentity THEN Answer(prepared, "CounterExhausted")
       ELSE IF \E k \in Permitted(req.keys) : now + LeaseDuration[k] > MaxInstant
            THEN Answer(allocated, "CounterExhausted")
       ELSE Answer(Grant(allocated, req, LeaseExpiry(prepared, req.keys, now)), "Ok")

-----------------------------------------------------------------------------
(* What the holder of a lease does with it.                                *)

\* commit_rate: pending units become charged units, once.
ChargeUnits(c, id) ==
    [c EXCEPT
        !.windows = [k \in LimitKeys |->
            IF \E l \in LeaseOf(c, id) : ~l.charged /\ k \in Rated(l.keys)
            THEN LET units == (CHOOSE l \in LeaseOf(c, id) : TRUE).units
                 IN [c.windows[k] EXCEPT !.pending = Monus(@, units), !.committed = @ + units]
            ELSE @[k]],
        !.leases = {IF l.id = id THEN [l EXCEPT !.charged = TRUE] ELSE l : l \in @}]

CommitRate(c, id) ==
    IF LeaseOf(c, id) = {} THEN Answer(c, "LeaseExpired") ELSE Answer(ChargeUnits(c, id), "Ok")

\* AdmissionLease::commit_rate.
CommitRateAt(c, id, now) ==
    IF Regresses(c, now) THEN Answer(c, "ClockRegressed") ELSE CommitRate(Observe(c, now), id)

\* finalize_accepted: charge before looking at the clock, so that an expiry
\* discovered by this very call cannot refund accepted work.  Without a
\* usable reading the permits stay until they expire.
FinalizeAccepted(c, id, now) ==
    LET charged  == ChargeUnits(c, id)
        observed == Observe(charged, now)
    IN IF LeaseOf(c, id) = {} THEN Answer(c, "LeaseExpired")
       ELSE IF Regresses(charged, now) THEN Answer(charged, "ReconciliationRequired")
       ELSE IF LeaseOf(observed, id) = {} THEN Answer(observed, "LeaseExpired")
       ELSE Answer(RemoveLeases(observed, LeaseOf(observed, id)), "Completed")

FinalizeUntimed(c, id) ==
    IF LeaseOf(c, id) = {} THEN Answer(c, "LeaseExpired")
    ELSE Answer(ChargeUnits(c, id), "ReconciliationRequired")

\* Mutant: the consumed lease returns its permits at once.
RetainThenRelease(c, id, now) ==
    IF LeaseOf(c, id) = {} THEN Answer(c, "LeaseExpired")
    ELSE LET charged == ChargeUnits(c, id) IN
         Answer(RemoveLeases(charged, LeaseOf(charged, id)), "Ok")

\* commit_rate_and_retain_concurrency.
RetainDispatched(c, id, now) ==
    LET charged  == ChargeUnits(c, id)
        observed == Observe(charged, now)
    IN IF LeaseOf(c, id) = {} THEN Answer(c, "LeaseExpired")
       ELSE IF Regresses(charged, now) THEN Answer(charged, "Ok")
       ELSE IF LeaseOf(observed, id) = {} THEN Answer(observed, "LeaseExpired")
       ELSE Answer(observed, "Ok")

\* release and cancel.
CloseLease(c, id, now) ==
    LET observed == Observe(c, now)
    IN IF Regresses(c, now) THEN Answer(c, "ClockRegressed")
       ELSE IF LeaseOf(observed, id) = {} THEN Answer(observed, "LeaseExpired")
       ELSE Answer(RemoveLeases(observed, LeaseOf(observed, id)), "Ok")

\* Drop of a lease that was not closed.
CloseUntimed(c, id) == RemoveLeases(c, LeaseOf(c, id))

\* snapshot of one key, which also observes the time and restarts its window.
Inspect(c, k, now) ==
    IF Regresses(c, now) THEN Answer(c, "ClockRegressed")
    ELSE IF WindowsOverflow({k}, now) THEN Answer(Observe(c, now), "CounterExhausted")
    ELSE Answer(PrepareWindows(Observe(c, now), {k}, now), "Ok")

=============================================================================
