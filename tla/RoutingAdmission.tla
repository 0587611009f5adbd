-------------------------- MODULE RoutingAdmission --------------------------
(***************************************************************************)
(* The coordinator that admits a routed request against the rate           *)
(* controller and the budget book (ariadnion-routing-admission).  Each     *)
(* store has its own mutex and there is no transaction over both: every    *)
(* operation of a coupled lease is two steps, one per store, and other     *)
(* requests, sweeps and clock observations come in between.                *)
(*                                                                         *)
(* One process per request.  Its monotonic readings never go back, but a   *)
(* reading is taken before the lock and may be older than one another      *)
(* request has shown to the controller meanwhile.  UTC readings are free.  *)
(***************************************************************************)
EXTENDS BudgetBook, RateController

CONSTANTS
    Handles,           \* one per request
    RoutingRequests,   \* a rate request with a budget request
    Policies,          \* the budget policies of the book
    Utc                \* UTC readings

RoutingRequest == [rate : RateRequests, budget : BudgetRequests]

ASSUME RoutingAssumption ==
    /\ RoutingRequests \subseteq RoutingRequest
    /\ Policies \in PolicySet
    /\ Utc \subseteq Nat

VARIABLES
    ctl,    \* the shared rate controller
    book,   \* the shared budget book
    lease   \* the coupled lease of each request

vars == <<ctl, book, lease>>

NoLease == [pc |-> "Idle", op |-> "None", req |-> "None", rid |-> "None", id |-> 0, seen |-> 0,
            budgetOk |-> FALSE, kept |-> FALSE, closeFailed |-> FALSE, result |-> "None"]

Init ==
    /\ ctl = NewController(0)
    /\ book = NewBook(Policies)
    /\ lease = [h \in Handles |-> NoLease]

At(h, pc) == lease[h].pc = pc

\* One step of h, ending at pc with the given changes to its record.
Move(h, record) == lease' = [lease EXCEPT ![h] = record]

Later(h) == {now \in Instant : now >= lease[h].seen}

-----------------------------------------------------------------------------
(* admit: rate first, then budget, then the rollback if there is one.      *)

AdmitRate(h, req, rid, now) ==
    LET answer == TryAdmit(ctl, req.rate, now) IN
    /\ At(h, "Idle")
    /\ ctl' = answer.ctl
    /\ Move(h, IF answer.code = "Ok"
               THEN [NoLease EXCEPT !.pc = "Reserving", !.rid = rid, !.req = req.budget,
                                    !.id = answer.ctl.identity, !.seen = now]
               ELSE [NoLease EXCEPT !.pc = "Rejected", !.result = answer.code])
    /\ UNCHANGED book

AdmitBudget(h, utc) ==
    LET result == ReserveFresh(book, lease[h].rid, lease[h].req, utc) IN
    /\ At(h, "Reserving")
    /\ book' = result.book
    /\ Move(h, [lease[h] EXCEPT !.pc = IF result.code = "Ok" THEN "Open" ELSE "RollingBack",
                                !.req = "None"])
    /\ UNCHANGED ctl

\* Mutant: the rejection is returned with the rate lease still pending.
RollBackSkipped(h) ==
    /\ At(h, "RollingBack")
    /\ Move(h, [lease[h] EXCEPT !.pc = "Rejected", !.result = "BudgetRejected"])
    /\ UNCHANGED <<ctl, book>>

\* The rollback reuses the reading of the admission, which others may have
\* overtaken; the lease it then leaves behind is closed by its drop.
RollBack(h) ==
    LET answer == CloseLease(ctl, lease[h].id, lease[h].seen)
        record == [lease[h] EXCEPT
                      !.result = IF answer.code = "Ok" THEN "BudgetRejected" ELSE "RollbackFailed"]
    IN /\ At(h, "RollingBack")
       /\ ctl' = answer.ctl
       /\ Move(h, IF answer.code = "ClockRegressed"
                  THEN [record EXCEPT !.pc = "DropRate", !.closeFailed = TRUE]
                  ELSE [record EXCEPT !.pc = "Rejected"])
       /\ UNCHANGED book

-----------------------------------------------------------------------------
(* The operations of an open coupled lease: budget step, then rate step.   *)

SettlesBudgetBy(op) == IF op = "Release" THEN "Released" ELSE "Committed"

\* commit keeps the lease open when the budget refuses, release is consumed
\* and dropped, finalize_accepted and commit_dispatch_unknown go on.
BudgetStep(h, op) ==
    LET result == Transition(book, lease[h].rid, SettlesBudgetBy(op))
        settled == result.code = "Ok"
    IN /\ At(h, "Open")
       /\ book' = result.book
       /\ \/ /\ settled \/ op \in {"Accept", "Unknown"}
             /\ Move(h, [lease[h] EXCEPT !.pc = "RateStep", !.op = op, !.budgetOk = settled])
          \/ /\ ~settled /\ op = "Commit"
             /\ Move(h, [lease[h] EXCEPT !.result = "LeaseClosed"])
          \/ /\ ~settled /\ op = "Release"
             /\ Move(h, [lease[h] EXCEPT !.pc = "DropBudget", !.result = "LeaseClosed"])
       /\ UNCHANGED ctl

\* What the caller of commit, finalize_accepted or commit_dispatch_unknown
\* learns.
FinalResult(h, code) ==
    IF lease[h].budgetOk /\ code \in {"Completed", "Ok"} THEN "Committed"
                                                         ELSE "CommitIncomplete"

FinalizeRate(h, now) ==
    LET answer == FinalizeAccepted(ctl, lease[h].id, now) IN
    /\ At(h, "RateStep") /\ lease[h].op \in {"Commit", "Accept"}
    /\ lease[h].budgetOk
    /\ ctl' = answer.ctl
    /\ Move(h, [lease[h] EXCEPT !.pc = "Done", !.seen = now,
                                !.result = FinalResult(h, answer.code),
                                !.kept = answer.code = "ReconciliationRequired"])
    /\ UNCHANGED book

\* finalize_accepted without a reading, or after the budget refused.
FinalizeRateUntimed(h) ==
    LET answer == FinalizeUntimed(ctl, lease[h].id) IN
    /\ At(h, "RateStep") /\ lease[h].op = "Accept"
    /\ ctl' = answer.ctl
    /\ Move(h, [lease[h] EXCEPT !.pc = "Done", !.kept = TRUE,
                                !.result = FinalResult(h, answer.code)])
    /\ UNCHANGED book

\* Mutant: an execution of unknown fate returns its permits.
RetainRateClosing(h, now) ==
    /\ At(h, "RateStep") /\ lease[h].op = "Unknown"
    /\ ctl' = CloseUntimed(ChargeUnits(ctl, lease[h].id), lease[h].id)
    /\ Move(h, [lease[h] EXCEPT !.pc = "Done", !.seen = now, !.kept = TRUE,
                                !.result = FinalResult(h, "Ok")])
    /\ UNCHANGED book

RetainRate(h, now) ==
    LET answer == RetainDispatched(ctl, lease[h].id, now) IN
    /\ At(h, "RateStep") /\ lease[h].op = "Unknown"
    /\ ctl' = answer.ctl
    /\ Move(h, [lease[h] EXCEPT !.pc = "Done", !.seen = now, !.kept = TRUE,
                                !.result = FinalResult(h, answer.code)])
    /\ UNCHANGED book

ReleaseRate(h, now) ==
    LET answer == CloseLease(ctl, lease[h].id, now)
        record == [lease[h] EXCEPT !.seen = now, !.result = answer.code]
    IN /\ At(h, "RateStep") /\ lease[h].op = "Release"
       /\ ctl' = answer.ctl
       /\ Move(h, IF answer.code = "ClockRegressed"
                  THEN [record EXCEPT !.pc = "DropRate", !.closeFailed = TRUE]
                  ELSE [record EXCEPT !.pc = "Done"])
       /\ UNCHANGED book

-----------------------------------------------------------------------------
(* Drop, in the order Rust runs it: Drop::drop, then the rate field.       *)

DropOpen(h) ==
    /\ At(h, "Open")
    /\ Move(h, [lease[h] EXCEPT !.pc = "DropBudget"])
    /\ UNCHANGED <<ctl, book>>

DropBudget(h) ==
    /\ At(h, "DropBudget")
    /\ book' = Transition(book, lease[h].rid, "Released").book
    /\ Move(h, [lease[h] EXCEPT !.pc = "DropRate"])
    /\ UNCHANGED ctl

DropRate(h) ==
    /\ At(h, "DropRate")
    /\ ctl' = CloseUntimed(ctl, lease[h].id)
    /\ Move(h, [lease[h] EXCEPT !.pc = IF lease[h].result = "RollbackFailed"
                                       THEN "Rejected" ELSE "Done"])
    /\ UNCHANGED book

-----------------------------------------------------------------------------
(* Other users of the two stores.                                          *)

SweepBudgets(utc) ==
    /\ book' = ExpireBook(book, utc).book
    /\ UNCHANGED <<ctl, lease>>

ObserveLimits(k, now) ==
    /\ ctl' = Inspect(ctl, k, now).ctl
    /\ UNCHANGED <<book, lease>>

Next ==
    \/ \E h \in Handles :
        \/ \E req \in RoutingRequests, rid \in ReservationIds, now \in Instant :
               AdmitRate(h, req, rid, now)
        \/ \E utc \in Utc : AdmitBudget(h, utc)
        \/ RollBack(h)
        \/ \E op \in {"Commit", "Accept", "Unknown", "Release"} : BudgetStep(h, op)
        \/ \E now \in Later(h) : FinalizeRate(h, now) \/ RetainRate(h, now) \/ ReleaseRate(h, now)
        \/ FinalizeRateUntimed(h)
        \/ DropOpen(h)
        \/ DropBudget(h)
        \/ DropRate(h)
    \/ \E utc \in Utc : SweepBudgets(utc)
    \/ \E k \in LimitKeys, now \in Instant : ObserveLimits(k, now)

Spec == Init /\ [][Next]_vars

-----------------------------------------------------------------------------
(* Properties.                                                             *)

Ended(h) == lease[h].pc \in {"Idle", "Rejected", "Done"}

\* Every reserved amount belongs to exactly one request that has yet to
\* settle it; no failure between the two stores leaves it behind, and a reused
\* identity never gets a second owner.
ReservationsHaveOneOwner ==
    \A rid \in InState(book, "Reserved") :
        Cardinality({h \in Handles : lease[h].pc \in {"Open", "DropBudget"}
                                     /\ lease[h].rid = rid}) = 1

\* Every rate lease on record belongs to a request that is still running, or
\* was kept on purpose by one that ended with its units charged.  A refused
\* request in particular holds nothing, whichever store refused it and
\* whatever happened to the clock before its rollback.
RateLeasesHaveAnOwner ==
    \A l \in ctl.leases :
        \E h \in Handles : lease[h].id = l.id /\ (~Ended(h) \/ (lease[h].kept /\ l.charged))

\* Success means both: a caller told that its execution is committed has its
\* budget committed, and its units left pending nowhere.
CommittedOnBothSides ==
    \A h \in Handles : lease[h].result = "Committed" =>
        /\ book.reservations[lease[h].rid].state = "Committed"
        /\ \A l \in LeaseOf(ctl, lease[h].id) : l.charged

\* An execution that the provider accepted, or may have accepted, is never
\* refunded: its budget is committed, or had expired before anyone reported
\* the acceptance, and its lease is not closed as if it had not been sent.
AcceptedIsNotRefunded ==
    \A h \in Handles : lease[h].op \in {"Accept", "Unknown"} =>
        /\ book.reservations[lease[h].rid].state \in {"Committed", "Expired"}
        /\ lease[h].pc \in {"RateStep", "Done"}

\* The two stores agree at every moment between their two locks: no failure leaves
\* a reservation or a rate lease that nobody will settle, none has two owners, and
\* what a caller is told of its execution holds in both.
BothStoresAgree ==
    /\ ReservationsHaveOneOwner /\ RateLeasesHaveAnOwner
    /\ CommittedOnBothSides /\ AcceptedIsNotRefunded

\* The coupled leases use the controller as its own specification allows.
Controller == INSTANCE RateLimit WITH
    handles  <- {lease[h].id : h \in {x \in Handles :
                    lease[x].pc \in {"Reserving", "RollingBack", "Open", "RateStep", "DropBudget"}
                    \/ (lease[x].pc = "DropRate" /\ ~lease[x].closeFailed)}},
    dropping <- {lease[h].id : h \in {x \in Handles :
                    lease[x].pc = "DropRate" /\ lease[x].closeFailed}},
    retained <- {lease[h].id : h \in {x \in Handles : lease[x].kept}}

UsesTheController ==
    Controller!RateInit /\ [][vars # vars' => Controller!RateNext]_(Controller!rateVars)

=============================================================================
