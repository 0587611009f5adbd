----------------------------- MODULE MCLifecycles -----------------------------
(* TLC instances of LifecycleSupervisor and SessionStore: what is started   *)
(* and ended once and for all, modules and browser sessions.  A behaviour   *)
(* runs one of them, `focus', and leaves the other at its start.            *)
EXTENDS LifecycleSupervisor, SessionStore, TLC

CONSTANTS
    Foci,                    \* the modules to be run
    base, mid, leaf, x, y,   \* three modules and two capabilities
    admin                    \* an actor beside the owner of a session

VARIABLE focus

\* base provides x; mid needs x and provides y; leaf needs x and y.
ChainOfThree == [provides |-> (base :> {x}) @@ (mid :> {y}) @@ (leaf :> {}),
                 requires |-> (base :> {}) @@ (mid :> {x}) @@ (leaf :> {x, y})]
\* leaf provides x as well and needs y: whichever of base and leaf registers
\* second is in conflict, and without base, mid and leaf need each other.
Tangle == [provides |-> (base :> {x}) @@ (mid :> {y}) @@ (leaf :> {x}),
           requires |-> (base :> {}) @@ (mid :> {x}) @@ (leaf :> {y})]

Both == {ChainOfThree, Tangle}
ChainOnly == {ChainOfThree}

\* The declared priorities alone would stop base first and leaf last.
MCBefore == (base :> {mid, leaf}) @@ (mid :> {leaf}) @@ (leaf :> {})

\* Two requests at a time and four in all: an issuance, two rotations and an end
\* are reached, with the other request stale or in doubt at any point.
MCActors == {Owner, admin}
Symmetric == Permutations(Requests) \cup Permutations(Leaves)

LifecyclesInit ==
    /\ focus \in Foci /\ LifecycleInit /\ SessionInit
    /\ focus = "modules" \/ descriptors = ChainOfThree

LifecyclesNext ==
    \/ focus = "modules" /\ LifecycleNext /\ UNCHANGED <<focus, sessionVars>>
    \/ focus = "sessions" /\ SessionNext /\ UNCHANGED <<focus, lifecycleVars>>

LifecyclesSpec ==
    LifecyclesInit /\ [][LifecyclesNext]_<<focus, lifecycleVars, sessionVars>>
=============================================================================
