----------------------------- MODULE BudgetBook -----------------------------
(***************************************************************************)
(* One in-process budget ledger (ariadnion-account-budget, BudgetBook) as  *)
(* a value and the operations that its mutex makes atomic.  An operation   *)
(* maps a book to a new book and the code its caller receives; BudgetLedger *)
(* and RoutingAdmission turn the operations into steps.                    *)
(*                                                                         *)
(* A policy is identified by its scope and currency, which the code keeps  *)
(* unique within a book; a request carries the set of scopes its tenant,   *)
(* group, account and currency match.                                      *)
(***************************************************************************)
EXTENDS Naturals, FiniteSets, FiniteSetsExt

CONSTANTS
    Scopes,            \* (scope, currency) keys a policy can have
    ReservationIds,
    BudgetRequests,    \* reservation requests the callers make
    MaxUnits,          \* largest money amount (u64::MAX in the code)
    MaxReservations    \* records a book retains (MAX_RESERVATIONS)

\* A reservation request: the scopes it charges, its amount and its expiry.
BudgetRequest == [scopes : SUBSET Scopes, amount : 1..MaxUnits, expires : Nat]

ASSUME BudgetAssumption ==
    /\ BudgetRequests \subseteq BudgetRequest
    /\ MaxUnits \in Nat
    /\ MaxReservations \in Nat

Policy == [limit : 1..MaxUnits, hard : BOOLEAN]
PolicySet == UNION {[D -> Policy] : D \in (SUBSET Scopes) \ {{}}}

NoRecord == [state |-> "Absent"]

\* BudgetBook::new: every counter at zero and no reservation.
NewBook(policies) ==
    [policies     |-> policies,
     reserved     |-> [s \in Scopes |-> 0],
     committed    |-> [s \in Scopes |-> 0],
     reservations |-> [id \in ReservationIds |-> NoRecord]]

Retained(b) == {id \in ReservationIds : b.reservations[id] # NoRecord}
InState(b, state) == {id \in ReservationIds : b.reservations[id].state = state}

\* Amount that a set of reservations has on one scope.
AmountOn(b, ids, s) ==
    MapThenSumSet(LAMBDA id : b.reservations[id].request.amount,
                  {id \in ids : s \in b.reservations[id].applied})

Result(b, code) == [book |-> b, code |-> code]

-----------------------------------------------------------------------------
(* Expiry, which reserve and reserve_fresh run before they insert.         *)

Due(b, now) ==
    {id \in InState(b, "Reserved") : b.reservations[id].request.expires <= now}

\* expiry_decrements and validate_expiry_decrements reject the whole pass.
SweepFails(b, now) ==
    \E s \in Scopes : AmountOn(b, Due(b, now), s) \notin 0..b.reserved[s]

\* Mutant: the records expire and the counters keep their amounts.
SweepKeepsCounters(b, now) ==
    [b EXCEPT !.reservations = [id \in ReservationIds |->
        IF id \in Due(b, now) THEN [@[id] EXCEPT !.state = "Expired"] ELSE @[id]]]

Sweep(b, now) ==
    [policies     |-> b.policies,
     reserved     |-> [s \in Scopes |-> b.reserved[s] - AmountOn(b, Due(b, now), s)],
     committed    |-> b.committed,
     reservations |-> [id \in ReservationIds |->
         IF id \in Due(b, now) THEN [b.reservations[id] EXCEPT !.state = "Expired"]
                               ELSE b.reservations[id]]]

ExpireBook(b, now) ==
    IF SweepFails(b, now) THEN Result(b, "ArithmeticOverflow")
                          ELSE Result(Sweep(b, now), "Ok")

-----------------------------------------------------------------------------
(* reserve and reserve_fresh.                                              *)

Applicable(b, req) == req.scopes \cap DOMAIN b.policies

Projected(b, s, amount) == b.committed[s] + b.reserved[s] + amount

Breached(b, req) ==
    {s \in Applicable(b, req) : Projected(b, s, req.amount) > b.policies[s].limit}

\* Mutant: a soft breach beside the hard one turns the refusal into a report.
RefusalUnlessSoft(b, req, now) ==
    IF req.expires <= now THEN "InvalidArgument"
    ELSE IF Cardinality(Retained(b)) >= MaxReservations THEN "LimitExceeded"
    ELSE IF Applicable(b, req) = {} THEN "NoApplicablePolicy"
    ELSE IF \E s \in Applicable(b, req) : Projected(b, s, req.amount) > MaxUnits
         THEN "ArithmeticOverflow"
    ELSE IF Breached(b, req) # {} /\ \A s \in Breached(b, req) : b.policies[s].hard
         THEN "HardLimitExceeded"
    ELSE "Ok"

\* validate_new_reservation, applicable_policy_ids, validate_capacity: the
\* early returns in the order of the code.
Refusal(b, req, now) ==
    IF req.expires <= now THEN "InvalidArgument"
    ELSE IF Cardinality(Retained(b)) >= MaxReservations THEN "LimitExceeded"
    ELSE IF Applicable(b, req) = {} THEN "NoApplicablePolicy"
    ELSE IF \E s \in Applicable(b, req) : Projected(b, s, req.amount) > MaxUnits
         THEN "ArithmeticOverflow"
    ELSE IF \E s \in Breached(b, req) : b.policies[s].hard
         THEN "HardLimitExceeded"
    ELSE "Ok"

\* reserve_capacity and the new record.
Charge(b, id, req) ==
    [policies     |-> b.policies,
     reserved     |-> [s \in Scopes |->
         IF s \in Applicable(b, req) THEN b.reserved[s] + req.amount ELSE b.reserved[s]],
     committed    |-> b.committed,
     reservations |-> [b.reservations EXCEPT ![id] =
         [state    |-> "Reserved",
          request  |-> req,
          applied  |-> Applicable(b, req),
          breaches |-> Breached(b, req)]]]

InsertReservation(b, id, req, now) ==
    IF Refusal(b, req, now) = "Ok" THEN Result(Charge(b, id, req), "Ok")
                                   ELSE Result(b, Refusal(b, req, now))

\* replay_reservation.
ReplayCode(record, req) ==
    IF record.request # req THEN "ReplayConflict"
    ELSE IF record.state # "Reserved" THEN "ReservationFinalized"
    ELSE "Ok"

Reserve(b, id, req, now) ==
    IF SweepFails(b, now) THEN Result(b, "ArithmeticOverflow")
    ELSE LET swept == Sweep(b, now) IN
         IF id \in Retained(swept)
            THEN Result(swept, ReplayCode(swept.reservations[id], req))
            ELSE InsertReservation(swept, id, req, now)

\* Mutant: only identities that still hold capacity count as used.
ReserveFreshReusing(b, id, req, now) ==
    IF id \in InState(b, "Reserved") \cup InState(b, "Committed")
    THEN Result(b, "ReplayConflict")
    ELSE IF SweepFails(b, now) THEN Result(b, "ArithmeticOverflow")
    ELSE InsertReservation(Sweep(b, now), id, req, now)

\* The identity check comes first: a duplicate changes nothing at all.
ReserveFresh(b, id, req, now) ==
    IF id \in Retained(b) THEN Result(b, "ReplayConflict")
    ELSE IF SweepFails(b, now) THEN Result(b, "ArithmeticOverflow")
    ELSE InsertReservation(Sweep(b, now), id, req, now)

-----------------------------------------------------------------------------
(* commit and release: no clock is read, so a reservation past its         *)
(* deadline still commits until some sweep has expired it.                 *)

\* apply_transition_usage, checked for every policy before any changes.
TransitionOverflows(b, record, target) ==
    \E s \in record.applied :
        \/ b.reserved[s] < record.request.amount
        \/ target = "Committed" /\ b.committed[s] + record.request.amount > MaxUnits

Settle(b, id, target) ==
    LET record == b.reservations[id]
        amount == record.request.amount
    IN [policies     |-> b.policies,
        reserved     |-> [s \in Scopes |->
            IF s \in record.applied THEN b.reserved[s] - amount ELSE b.reserved[s]],
        committed    |-> [s \in Scopes |->
            IF s \in record.applied /\ target = "Committed"
            THEN b.committed[s] + amount ELSE b.committed[s]],
        reservations |-> [b.reservations EXCEPT ![id] = [record EXCEPT !.state = target]]]

\* transition_record: repeating the same transition is harmless.
Transition(b, id, target) ==
    LET record == b.reservations[id] IN
    IF record = NoRecord THEN Result(b, "ReservationNotFound")
    ELSE IF record.state = target THEN Result(b, "Ok")
    ELSE IF record.state # "Reserved" THEN Result(b, "ReservationFinalized")
    ELSE IF TransitionOverflows(b, record, target) THEN Result(b, "ArithmeticOverflow")
    ELSE Result(Settle(b, id, target), "Ok")

=============================================================================
