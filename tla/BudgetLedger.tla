---------------------------- MODULE BudgetLedger ----------------------------
(***************************************************************************)
(* BudgetPolicyBook: budget ledgers published one generation after the     *)
(* other.  Publishing starts an empty ledger; callers that still hold a    *)
(* snapshot keep reserving, committing and expiring on theirs.             *)
(***************************************************************************)
EXTENDS BudgetBook

CONSTANTS
    PolicySets,      \* policy sets an administrator publishes
    MaxGeneration,   \* largest generation (u64::MAX in the code)
    Time             \* UTC readings of the callers, in any order

ASSUME LedgerAssumption ==
    /\ PolicySets \subseteq PolicySet
    /\ MaxGeneration \in Nat
    /\ Time \subseteq Nat

VARIABLES
    generation,   \* of the published book
    books,        \* every book a snapshot may still hold, by generation
    outcome       \* what the last call returned

budgetVars == <<generation, books, outcome>>

BudgetInit ==
    /\ generation = 0
    /\ \E policies \in PolicySets : books = [g \in {0} |-> NewBook(policies)]
    /\ outcome = "Ok"

\* Callers keep the Arc of whichever snapshot they read.
Held == 0..generation

\* A call on one book: its mutex makes the whole operation one step.
Call(g, result) ==
    /\ books' = [books EXCEPT ![g] = result.book]
    /\ outcome' = result.code
    /\ UNCHANGED generation

ReserveCall(g, id, req, now) == Call(g, Reserve(books[g], id, req, now))
ReserveFreshCall(g, id, req, now) == Call(g, ReserveFresh(books[g], id, req, now))
Commit(g, id) == Call(g, Transition(books[g], id, "Committed"))
Release(g, id) == Call(g, Transition(books[g], id, "Released"))
Expire(g, now) == Call(g, ExpireBook(books[g], now))

\* A stale expected generation, or an exhausted one, is refused.
Publish(expected, policies) ==
    IF expected = generation /\ generation < MaxGeneration
    THEN /\ generation' = generation + 1
         /\ books' = [g \in 0..generation + 1 |->
                         IF g = generation + 1 THEN NewBook(policies) ELSE books[g]]
         /\ outcome' = "Ok"
    ELSE /\ outcome' = IF expected = generation THEN "GenerationExhausted"
                                                 ELSE "GenerationConflict"
         /\ UNCHANGED <<generation, books>>

BudgetNext ==
    \/ \E g \in Held, id \in ReservationIds :
        \/ Commit(g, id)
        \/ Release(g, id)
        \/ \E req \in BudgetRequests, now \in Time :
            \/ ReserveCall(g, id, req, now)
            \/ ReserveFreshCall(g, id, req, now)
    \/ \E g \in Held, now \in Time : Expire(g, now)
    \/ \E expected \in 0..MaxGeneration, policies \in PolicySets : Publish(expected, policies)

BudgetSpec == BudgetInit /\ [][BudgetNext]_budgetVars

-----------------------------------------------------------------------------
(* Properties.                                                             *)

Record == [state : {"Reserved", "Committed", "Released", "Expired"},
           request : BudgetRequests,
           applied : SUBSET Scopes,
           breaches : SUBSET Scopes]

Book == [policies : PolicySet,
         reserved : [Scopes -> Nat],
         committed : [Scopes -> Nat],
         reservations : [ReservationIds -> Record \cup {NoRecord}]]

\* Every published book is well formed; no counter is below zero.
BudgetTypeOK ==
    /\ generation \in 0..MaxGeneration
    /\ books \in [0..generation -> Book]

\* The counters of every book are exactly the amounts of its reserved and
\* committed reservations, whichever calls, replays, sweeps and late commits
\* came before: nothing is leaked, refunded twice or charged twice.
UsageIsAccounted ==
    \A g \in Held, s \in Scopes :
        /\ books[g].reserved[s] = AmountOn(books[g], InState(books[g], "Reserved"), s)
        /\ books[g].committed[s] = AmountOn(books[g], InState(books[g], "Committed"), s)

\* No hard policy is exceeded by what is committed and reserved together.
HardLimitsHold ==
    \A g \in Held : \A s \in DOMAIN books[g].policies :
        books[g].policies[s].hard =>
            books[g].committed[s] + books[g].reserved[s] <= books[g].policies[s].limit

\* A soft policy over its limit was reported: some reservation that still
\* counts carries the breach on its receipt, also after others were released.
SoftOverrunsAreReported ==
    \A g \in Held : \A s \in DOMAIN books[g].policies :
        books[g].committed[s] + books[g].reserved[s] > books[g].policies[s].limit
            => \E id \in InState(books[g], "Reserved") \cup InState(books[g], "Committed") :
                    s \in books[g].reservations[id].breaches

\* Usage is exact, and soft overruns are on somebody's receipt.
UsageIsReported == UsageIsAccounted /\ SoftOverrunsAreReported

\* A finalized reservation never changes again and a retained one is never
\* replaced, so a retry cannot recreate consumed capacity.
FinalizedIsFinal ==
    [][\A g \in Held, id \in ReservationIds :
          LET before == books[g].reservations[id]
              after  == books'[g].reservations[id]
          IN /\ before.state \notin {"Absent", "Reserved"} => after = before
             /\ before.state = "Reserved" =>
                    after # NoRecord /\ after.request = before.request]_budgetVars

=============================================================================
