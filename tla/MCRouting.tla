----------------------------- MODULE MCRouting -----------------------------
(***************************************************************************)
(* TLC instances of routing admission, for requests of one account that    *)
(* has a rate, a permit and a hard budget, and of the routing runtime, for *)
(* two requests over two accounts of one tenant.  The worlds differ in     *)
(* what the snapshots say of the accounts and in what the policy answers.  *)
(* The two share no state, so a behaviour runs one of them, `focus'.       *)
(***************************************************************************)
EXTENDS RoutingAdmission, RoutingRuntime, TLC

CONSTANTS account

VARIABLE focus

MCKeys == {account}
MCRateRequests == {[keys |-> {account}, units |-> 1]}
MCBudgetRequests ==
    {[scopes |-> {account}, amount |-> 1, expires |-> 1], [scopes |-> {account}, amount |-> 2, expires |-> 2]}
MCRoutingRequests == [rate : MCRateRequests, budget : MCBudgetRequests]
MCPolicies == [s \in {account} |-> [limit |-> 2, hard |-> TRUE]]
Two == [k \in MCKeys |-> 2]
Three == [k \in MCKeys |-> 3]

-----------------------------------------------------------------------------
(* The runtime.                                                            *)

Account(price, priority, weight, load) ==
    [available |-> TRUE, mapped |-> TRUE, effective |-> TRUE,
     price |-> price, priority |-> priority, weight |-> weight, load |-> load]

Says(view) == [present |-> TRUE, failClosed |-> TRUE, view |-> view]
Fine == Says([c \in Candidates |-> "Pass"])

Base == [inputs |-> "Ok", priced |-> TRUE, hard |-> 3, soft |-> 2,
         meta |-> [c \in Candidates |-> Account(1, 1, 1, c)],
         signals |-> [k \in {"Health", "Circuit", "Quota", "Schedule", "Proxy"} |-> Fine],
         affinity |-> [asked |-> FALSE, present |-> FALSE, failClosed |-> TRUE, binding |-> 0],
         wasm |-> [answer |-> "NotInstalled", pick |-> 0]]

MCWorlds ==
    {Base,
     [Base EXCEPT !.signals["Health"].view[1] = "Deny"],
     [Base EXCEPT !.meta[2].weight = 0, !.meta[1].load = 3],
     [Base EXCEPT !.affinity = [asked |-> TRUE, present |-> TRUE, failClosed |-> TRUE, binding |-> 2]],
     [Base EXCEPT !.wasm = [answer |-> "Select", pick |-> 2]],
     [Base EXCEPT !.wasm.answer = "Degraded"],
     [Base EXCEPT !.priced = FALSE]}

\* One request with three attempts and one with a single attempt.
CONSTANTS long
MCSlots == [r \in Requests |-> IF r = long THEN 3 ELSE 1]

\* The first account serves both requests at once, the second only one.
MCPermits == [c \in Candidates |-> IF c = 1 THEN 2 ELSE 1]

\* The short request may always retry, and the first circuit starts closed.
RoutingInit ==
    /\ focus \in {"admission", "runtime"}
    /\ Init /\ RuntimeInit
    /\ \A r \in Requests : runs[r].plan.safe \/ (r = long /\ focus = "runtime")
    /\ \A c \in Candidates : circuits[c].state = "Closed" \/ (c = 2 /\ focus = "runtime")

RoutingNext ==
    \/ focus = "admission" /\ Next /\ UNCHANGED <<focus, runtimeVars>>
    \/ focus = "runtime" /\ RuntimeNext /\ UNCHANGED <<focus, vars>>

RoutingSpec == RoutingInit /\ [][RoutingNext]_<<focus, vars, runtimeVars>>

Symmetry == Permutations(Handles) \cup Permutations(ReservationIds)

=============================================================================
