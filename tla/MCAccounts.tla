----------------------------- MODULE MCAccounts -----------------------------
(***************************************************************************)
(* TLC instances of the account components: the circuit breaker, the       *)
(* budget ledger, the rate controller, batches of account transitions and  *)
(* the credential vault with its rotation journal.  They share no state,   *)
(* so a behaviour runs one of them, `focus', and leaves the others at      *)
(* their start.                                                            *)
(***************************************************************************)
EXTENDS AccountCircuit, BudgetLedger, RateLimit, AccountBatch, VaultStore, TLC

CONSTANTS
    Foci,            \* the modules to be run
    account, tenant, model

VARIABLE focus

\* Budgets: every reservation touches one hard and one soft policy, so that one
\* may refuse while the other has room.
MCScopes == {account, tenant}
MCBudgetRequests ==
    {[scopes |-> MCScopes, amount |-> 1, expires |-> 1],
     [scopes |-> MCScopes, amount |-> 2, expires |-> 2]}
Limit(n, hard) == [limit |-> n, hard |-> hard]
MCPolicySets ==
    {[s \in MCScopes |-> IF s = account THEN Limit(2, TRUE) ELSE Limit(1, FALSE)],
     [s \in MCScopes |-> IF s = account THEN Limit(1, FALSE) ELSE Limit(4, TRUE)]}

\* Rates: an account with both rules, a tenant with a rate only and a model with
\* permits only.
MCKeys == {account, tenant, model}
MCCapacity == [k \in MCKeys |-> CASE k = account -> 2 [] k = tenant -> 3 [] k = model -> 0]
MCWindow == [k \in MCKeys |-> IF k = account THEN 2 ELSE 3]
MCLimit == [k \in MCKeys |-> CASE k = account -> 1 [] k = tenant -> 0 [] k = model -> 2]
MCDuration == [k \in MCKeys |-> IF k = account THEN 3 ELSE 1]
MCRateRequests ==
    {[keys |-> {account, tenant}, units |-> 1],
     [keys |-> {tenant, model}, units |-> 2],
     [keys |-> {model}, units |-> 1]}

\* Batches: one plan that runs item by item with a retry, and a dry run of it
\* that may claim both items at once but never again.
MCItems ==
    <<[account |-> 1, expected |-> 1, action |-> "Activate"],
      [account |-> 2, expected |-> 1, action |-> "Suspend"]>>
MCPlans ==
    {[intent |-> "Execute", deadline |-> 2, max_parallel |-> 1, max_claim |-> 2,
      max_attempts |-> 2, items |-> MCItems],
     [intent |-> "DryRun", deadline |-> 2, max_parallel |-> 2, max_claim |-> 1,
      max_attempts |-> 1, items |-> MCItems]}
MCRegistry == {[a \in 1..2 |-> [version |-> 1, status |-> "Provisioning"]]}

\* Secrets: three versions under one locator.
MCReferences == {[locator |-> 1, version |-> v] : v \in 1..3}

AccountsInit ==
    /\ focus \in Foci
    /\ CircuitInit /\ BudgetInit /\ RateInit /\ BatchInit /\ VaultInit
    /\ focus = "budget" \/ books[0] = NewBook(CHOOSE policies \in PolicySets : TRUE)

accountsVars == <<focus, circuitVars, budgetVars, rateVars, batchVars, vaultVars>>

AccountsNext ==
    \/ focus = "circuit" /\ CircuitNext
       /\ UNCHANGED <<focus, budgetVars, rateVars, batchVars, vaultVars>>
    \/ focus = "budget" /\ BudgetNext
       /\ UNCHANGED <<focus, circuitVars, rateVars, batchVars, vaultVars>>
    \/ focus = "rate" /\ RateNext
       /\ UNCHANGED <<focus, circuitVars, budgetVars, batchVars, vaultVars>>
    \/ focus = "batch" /\ BatchNext
       /\ UNCHANGED <<focus, circuitVars, budgetVars, rateVars, vaultVars>>
    \/ focus = "vault" /\ VaultNext
       /\ UNCHANGED <<focus, circuitVars, budgetVars, rateVars, batchVars>>

AccountsSpec == AccountsInit /\ [][AccountsNext]_accountsVars

\* What the last budget call returned decides nothing.
View == <<focus, circuitVars, generation, books, rateVars, batchVars, vaultVars>>

Symmetry == Permutations(ReservationIds)

=============================================================================
