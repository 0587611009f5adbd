----------------------------- MODULE MCIdentity -----------------------------
(* TLC instance of the identity repositories.  A behaviour runs the lineage *)
(* of an aggregate, to long histories, or its repository, with racing       *)
(* callers: `focus'.                                                        *)
EXTENDS AggregateStore, TLC

VARIABLE focus

MCMaxLineage == [organization |-> 8, user |-> 9, invitation |-> 2, api_key |-> 6]
MCMaxAttempts == [organization |-> 3, user |-> 4, invitation |-> 4, api_key |-> 3]

IdentityInit == focus \in {"lineage", "store"} /\ StoreInit

IdentityNext ==
    \/ focus = "lineage" /\ LineageNext /\ UNCHANGED <<focus, rows, attempt, made_by, authenticatorVars>>
    \/ focus = "store" /\ StoreNext /\ UNCHANGED focus

IdentitySpec == IdentityInit /\ [][IdentityNext]_<<focus, storeVars>>

\* What was committed can be read back and tells the truth: no long history of
\* legal commands leaves an aggregate that its repository refuses to load, and
\* every reconciliation is exact.  Every snapshot the repository reaches is one
\* of a lineage, so that is where loading is checked.
HistoriesStaySound == (focus = "lineage" => LineageStaysLoadable) /\ ReconciliationIsExact

\* The secrets are named as the users are, so that few permutations serve every
\* kind.
Symmetric == Permutations(Callers) \cup Permutations(Users) \cup Permutations(Principals)

=============================================================================
