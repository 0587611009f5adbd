------------------------ MODULE LifecycleSupervisor ------------------------
(***************************************************************************)
(* The module lifecycle of ariadnion-core (lifecycle.rs, capability.rs).   *)
(* One supervisor thread registers modules, resolves their capabilities,   *)
(* validates, starts, probes and stops them.  Every module operation runs  *)
(* on a worker thread with a deadline; a worker that misses its deadline   *)
(* is detached and finishes later, concurrently with the supervisor, and   *)
(* retires whatever handle it still owns.                                  *)
(*                                                                         *)
(* One step is the supervisor's work on one module of the loop it is in,   *)
(* with any outcome run_bounded can report, or the end of one detached     *)
(* worker.                                                                 *)
(***************************************************************************)
EXTENDS Naturals, Sequences, FiniteSets

CONSTANTS
    Modules,      \* module identities
    Capabilities, \* capability identities
    Descriptors,  \* tables of what each module provides and requires
    StaticOk,     \* modules whose ABI and configuration schema match
    BadVersion,   \* <<consumer, provider>> pairs of incompatible versions
    Before        \* Before[a]: modules that stop after a when independent

ASSUME DescriptorAssumption ==
    /\ IsFiniteSet(Modules)
    /\ Descriptors \subseteq [provides : [Modules -> SUBSET Capabilities],
                             requires : [Modules -> SUBSET Capabilities]]
    /\ StaticOk \subseteq Modules
    /\ BadVersion \subseteq Modules \X Modules
    /\ Before \in [Modules -> SUBSET Modules]
    /\ \A a, b \in Modules : a # b => (b \in Before[a] <=> a \notin Before[b])
    /\ \A a, b, c \in Modules : b \in Before[a] /\ c \in Before[b] => c \in Before[a]

VARIABLES
    descriptors, \* the descriptors of the modules in the build, fixed
    modules,     \* registered modules, in registration order
    state,       \* the lifecycle state of each module
    resolution,  \* the providers a module is bound to, or Unresolved
    handle,      \* whether the supervisor holds the live handle
    moduleCancelled,   \* the module's own cancellation token
    rootCancelled,        \* the supervisor's token, the parent of every module token
    generation,  \* successful starts
    call,        \* the call in progress: its phase and the modules to visit
    order,       \* validation_order
    detached,    \* workers that missed their deadline and still run
    instance     \* the running module itself: none, live or retired

lifecycleVars == <<descriptors, modules, state, resolution, handle, moduleCancelled,
                   rootCancelled, generation,
          call, order, detached, instance>>

Provides == descriptors.provides
Requires == descriptors.requires

Unresolved == {"unresolved"}
ModuleState == {"absent", "Discovered", "Validated", "Starting", "Ready", "Degraded",
                "Unavailable", "Stopping", "Stopped"}
Phases == {"idle", "validate", "validate_start", "start", "health", "shutdown"}
Idle == [phase |-> "idle", todo |-> <<>>]

\* What run_bounded reports: the module's own answer, a missed deadline, or a
\* worker thread that could not be spawned.
Outcome == {"ok", "error", "deadline", "no_worker"}

Participates(s) == s \in {"Discovered", "Validated", "Starting", "Ready", "Degraded"}

Registered == {modules[i] : i \in 1..Len(modules)}

LifecycleInit ==
    /\ descriptors \in Descriptors
    /\ modules = <<>>
    /\ state = [m \in Modules |-> "absent"]
    /\ resolution = [m \in Modules |-> Unresolved]
    /\ handle = [m \in Modules |-> FALSE]
    /\ moduleCancelled = [m \in Modules |-> FALSE]
    /\ rootCancelled = FALSE
    /\ generation = [m \in Modules |-> 0]
    /\ call = Idle
    /\ order = <<>>
    /\ detached = {}
    /\ instance = [m \in Modules |-> "none"]

-----------------------------------------------------------------------------
(* Capability resolution and dependency order.                             *)

Active == {m \in Registered : Participates(state[m])}

\* CapabilityGraph::register_batch, module by module: all of a module's
\* capabilities enter the graph, or none and the module is in conflict.
Graph ==
    LET Conflicts(m, g) == \E p \in g : Provides[p] \cap Provides[m] # {}
        Add(m, g) == IF m \in Active /\ ~Conflicts(m, g) THEN g \cup {m} ELSE g
        graph[i \in 0..Len(modules)] == IF i = 0 THEN {} ELSE Add(modules[i], graph[i - 1])
    IN graph[Len(modules)]

\* CapabilityGraph::resolve: the one provider of every requirement.
Providers(m, graph) == {p \in graph : Provides[p] \cap Requires[m] # {}}

Resolves(m, graph) ==
    /\ \A r \in Requires[m] : \E p \in graph : r \in Provides[p]
    /\ \A p \in Providers(m, graph) : <<m, p>> \notin BadVersion

\* dependency_indices: what m is bound to among the modules that participate.
Deps(m, active, graph) == IF m \in active THEN Providers(m, graph) \cap active ELSE {}

\* Mutant: only a module bound to itself counts as a cycle.
SelfBound(m, active, graph) == m \in Deps(m, active, graph)

\* dependency_path_returns_to: some path of bindings leads back to m.
OnCycle(m, active, graph) ==
    LET Widen(S) == S \cup UNION {Deps(p, active, graph) : p \in S}
        reach[n \in 0..Len(modules)] ==
            IF n = 0 THEN Deps(m, active, graph) ELSE Widen(reach[n - 1])
    IN m \in reach[Len(modules)]

\* initial_queue and release_dependents queue modules in the order of their index.
InIndexOrder(S) ==
    LET pick[i \in 0..Len(modules)] ==
            IF i = 0 THEN <<>>
            ELSE IF modules[i] \in S THEN Append(pick[i - 1], modules[i]) ELSE pick[i - 1]
    IN pick[Len(modules)]

\* dependency_order: Kahn's algorithm with a FIFO queue over module indices.
DependencyOrder(active, graph) ==
    LET Free(done) == {m \in active : Deps(m, active, graph) \subseteq done}
        Release(done, m, queue) == queue \o InIndexOrder(Free(done \cup {m}) \ Free(done))
        Pop(r) ==
            IF r.queue = <<>> THEN r
            ELSE [queue |-> Release({r.order[i] : i \in 1..Len(r.order)}, Head(r.queue), Tail(r.queue)),
                  order |-> Append(r.order, Head(r.queue))]
        run[n \in 0..Len(modules)] ==
            IF n = 0 THEN [queue |-> InIndexOrder(Free({})), order |-> <<>>] ELSE Pop(run[n - 1])
    IN run[Len(modules)].order

\* The module that stops first by priority and identity alone.
First(S) == CHOOSE m \in S : S \ {m} \subseteq Before[m]

\* Mutant: the priority decides whether or not a consumer is left.
PriorityOnly(left) == First(left)

BoundTo(c, m) == resolution[c] # Unresolved /\ m \in resolution[c]

\* next_shutdown_module: a module without remaining dependents; when only a
\* cycle is left, any.
NextShutdown(left) ==
    LET Users(m) == {c \in left \ {m} : BoundTo(c, m)}
        leaves == {m \in left : Users(m) = {}}
    IN First(IF leaves = {} THEN left ELSE leaves)

\* shutdown_order over the modules that hold a handle.
ShutdownOrder ==
    LET Pop(r) ==
            IF r.left = {} THEN r
            ELSE [left |-> r.left \ {NextShutdown(r.left)},
                  order |-> Append(r.order, NextShutdown(r.left))]
        run[n \in 0..Len(modules)] ==
            IF n = 0 THEN [left |-> {m \in Registered : handle[m]}, order |-> <<>>]
            ELSE Pop(run[n - 1])
    IN run[Len(modules)].order

-----------------------------------------------------------------------------
(* State changes shared by the operations.                                 *)

\* mark_unavailable cancels the module's token and keeps its handle.
MarkUnavailable(S) ==
    /\ state' = [m \in Modules |-> IF m \in S THEN "Unavailable" ELSE state[m]]
    /\ moduleCancelled' = [m \in Modules |-> moduleCancelled[m] \/ m \in S]

Rest == Tail(call.todo)

Visit(rest) == call' = [call EXCEPT !.todo = rest]

Detach(m, op) == detached' = detached \cup {[module |-> m, op |-> op]}

-----------------------------------------------------------------------------
(* register, validate_all and start_all.                                   *)

Register(m) ==
    /\ call = Idle
    /\ m \notin Registered
    /\ modules' = Append(modules, m)
    /\ state' = [state EXCEPT ![m] = IF m \in StaticOk THEN "Discovered" ELSE "Unavailable"]
    /\ moduleCancelled' = [moduleCancelled EXCEPT ![m] = m \notin StaticOk]
    /\ UNCHANGED <<descriptors, resolution, handle, rootCancelled, generation, call, order,
                   detached, instance>>

\* validate_all up to its validation loop: the graph is rebuilt from all
\* participating modules, live ones included; a module that conflicts, lacks
\* a provider or sits on a cycle becomes unavailable.
BeginValidate(phase) ==
    LET graph == Graph
        resolved == {m \in graph : Resolves(m, graph)}
        acyclic == {m \in resolved : ~OnCycle(m, resolved, graph)}
    IN /\ call = Idle
       /\ MarkUnavailable(Active \ acyclic)
       /\ resolution' = [m \in Modules |-> IF m \in resolved THEN Providers(m, graph) ELSE resolution[m]]
       /\ order' = DependencyOrder(acyclic, graph)
       /\ call' = [phase |-> phase, todo |-> order']
       /\ UNCHANGED <<descriptors, modules, rootCancelled, handle, generation, detached, instance>>

Bound(m, accepted) ==
    resolution[m] # Unresolved /\ \A p \in resolution[m] : state[p] \in accepted

\* One module of validate_in_order.  A late validation result is dropped.
ValidateNext(outcome) ==
    LET m == Head(call.todo) IN
    /\ call.phase \in {"validate", "validate_start"} /\ call.todo # <<>>
    /\ Visit(Rest)
    /\ \/ /\ state[m] # "Discovered"
          /\ outcome = "ok"
          /\ UNCHANGED <<state, moduleCancelled, detached>>
       \/ /\ state[m] = "Discovered"
          /\ ~Bound(m, {"Validated", "Ready", "Degraded"})
          /\ outcome = "ok"
          /\ MarkUnavailable({m})
          /\ UNCHANGED detached
       \/ /\ state[m] = "Discovered"
          /\ Bound(m, {"Validated", "Ready", "Degraded"})
          /\ outcome = "ok"
          /\ state' = [state EXCEPT ![m] = "Validated"]
          /\ UNCHANGED <<moduleCancelled, detached>>
       \/ /\ state[m] = "Discovered"
          /\ Bound(m, {"Validated", "Ready", "Degraded"})
          /\ outcome # "ok"
          /\ MarkUnavailable({m})
          /\ IF outcome = "deadline" THEN Detach(m, "validate") ELSE UNCHANGED detached
    /\ UNCHANGED <<descriptors, modules, rootCancelled, resolution, handle, generation, order,
                   instance>>

EndLoop ==
    /\ call # Idle /\ call.todo = <<>>
    /\ call' = IF call.phase = "validate_start" THEN [phase |-> "start", todo |-> order] ELSE Idle
    /\ UNCHANGED <<descriptors, modules, state, resolution, handle, moduleCancelled,
                   rootCancelled, generation, order,
                   detached, instance>>

\* start_one for the next module of the dependency order.
StartNext(outcome) ==
    LET m == Head(call.todo)
        eligible == state[m] = "Validated" /\ Bound(m, {"Ready", "Degraded"})
    IN
    /\ call.phase = "start" /\ call.todo # <<>>
    /\ Visit(Rest)
    /\ \/ /\ ~eligible
          /\ outcome = "ok"
          /\ IF state[m] = "Validated" THEN MarkUnavailable({m}) ELSE UNCHANGED <<state,
                                                                                  moduleCancelled>>
          /\ UNCHANGED <<handle, generation, detached, instance>>
       \/ /\ eligible
          /\ outcome = "ok"
          /\ state' = [state EXCEPT ![m] = "Ready"]
          /\ handle' = [handle EXCEPT ![m] = TRUE]
          /\ generation' = [generation EXCEPT ![m] = @ + 1]
          /\ instance' = [instance EXCEPT ![m] = "live"]
          /\ UNCHANGED <<moduleCancelled, detached>>
       \/ /\ eligible
          /\ outcome # "ok"
          /\ MarkUnavailable({m})
          /\ IF outcome = "deadline" THEN Detach(m, "start") ELSE UNCHANGED detached
          /\ UNCHANGED <<handle, generation, instance>>
    /\ UNCHANGED <<descriptors, modules, rootCancelled, resolution, order>>

-----------------------------------------------------------------------------
(* Retiring a handle: health, shutdown_all and detached workers.           *)

\* run_shutdown_operation: the handle leaves the supervisor unless no worker
\* could be spawned; shutdown is called exactly when a worker runs.
RunShutdown(m, outcome) ==
    /\ handle' = [handle EXCEPT ![m] = outcome = "no_worker"]
    /\ instance' = [instance EXCEPT ![m] = IF outcome \in {"ok", "error"} THEN "retired" ELSE @]
    /\ IF outcome = "deadline" THEN Detach(m, "shutdown") ELSE UNCHANGED detached

BeginHealth ==
    /\ call = Idle
    /\ call' = [phase |-> "health", todo |-> modules]
    /\ UNCHANGED <<descriptors, modules, state, resolution, handle, moduleCancelled,
                   rootCancelled, generation, order,
                   detached, instance>>

\* refresh_module_health: any module that still has a handle is probed.  A
\* usable answer overwrites the state; anything else makes the module
\* unavailable and retires the handle, unless the late worker owns it.
HealthNext ==
    LET m == Head(call.todo) IN
    /\ call.phase = "health" /\ call.todo # <<>>
    /\ Visit(Rest)
    /\ \/ /\ ~handle[m]
          /\ UNCHANGED <<state, moduleCancelled, handle, detached, instance>>
       \/ /\ handle[m]                         \* a usable snapshot
          /\ \E status \in {"Starting", "Ready", "Degraded"} :
                state' = [state EXCEPT ![m] = status]
          /\ UNCHANGED <<moduleCancelled, handle, detached, instance>>
       \/ /\ handle[m]                         \* the probe missed its deadline
          /\ MarkUnavailable({m})
          /\ handle' = [handle EXCEPT ![m] = FALSE]
          /\ Detach(m, "health")
          /\ UNCHANGED instance
       \/ /\ handle[m]                         \* unavailable, failed or not run
          /\ MarkUnavailable({m})
          /\ \E outcome \in Outcome : RunShutdown(m, outcome)
    /\ UNCHANGED <<descriptors, modules, rootCancelled, resolution, generation, order>>

\* shutdown_all cancels the root token and fixes its order before it stops the
\* first module.
BeginShutdown ==
    /\ call = Idle
    /\ rootCancelled' = TRUE
    /\ call' = [phase |-> "shutdown", todo |-> ShutdownOrder]
    /\ UNCHANGED <<descriptors, modules, state, resolution, handle, moduleCancelled, generation,
                   order,
                   detached, instance>>

\* shutdown_one: run_shutdown_operation cancels the token, and only a clean
\* answer ends in Stopped.
ShutdownNext(outcome) ==
    LET m == Head(call.todo) IN
    /\ call.phase = "shutdown" /\ call.todo # <<>>
    /\ Visit(Rest)
    /\ handle[m]
    /\ RunShutdown(m, outcome)
    /\ state' = [state EXCEPT ![m] = IF outcome = "ok" THEN "Stopped" ELSE "Unavailable"]
    /\ moduleCancelled' = [moduleCancelled EXCEPT ![m] = TRUE]
    /\ UNCHANGED <<descriptors, modules, rootCancelled, resolution, generation, order>>

\* Mutant: the cleanup of an abandoned result does not stop the handle.
LateResultDropped(w, ok) ==
    /\ w \in detached
    /\ detached' = detached \ {w}
    /\ UNCHANGED <<descriptors, modules, state, resolution, handle, moduleCancelled,
                   rootCancelled, generation, call, order, instance>>

\* publish_worker_output after abandonment: a handle the late worker produced
\* or still owns is shut down on the worker's own thread.
LateResult(w, ok) ==
    /\ w \in detached
    /\ detached' = detached \ {w}
    /\ IF w.op = "validate" \/ (w.op = "start" /\ ~ok)
       THEN UNCHANGED <<moduleCancelled, instance>>
       ELSE /\ instance' = [instance EXCEPT ![w.module] = "retired"]
            /\ moduleCancelled' = [moduleCancelled EXCEPT ![w.module] = TRUE]
    /\ UNCHANGED <<descriptors, modules, rootCancelled, state, resolution, handle, generation,
                   call, order>>

-----------------------------------------------------------------------------
LifecycleNext ==
    \/ \E m \in Modules : Register(m)
    \/ \E phase \in {"validate", "validate_start"} : BeginValidate(phase)
    \/ BeginHealth
    \/ BeginShutdown
    \/ EndLoop
    \/ \E o \in Outcome : ValidateNext(o) \/ StartNext(o) \/ ShutdownNext(o)
    \/ HealthNext
    \/ \E w \in detached, ok \in BOOLEAN : LateResult(w, ok)

LifecycleSpec == LifecycleInit /\ [][LifecycleNext]_lifecycleVars

-----------------------------------------------------------------------------
(* Properties.                                                             *)

Worker == [module : Modules, op : {"validate", "start", "health", "shutdown"}]

\* Module states, workers and the loop of the running call are well formed.
LifecycleTypeOK ==
    /\ descriptors \in Descriptors
    /\ modules \in Seq(Modules)
    /\ state \in [Modules -> ModuleState]
    /\ resolution \in [Modules -> (SUBSET Modules) \cup {Unresolved}]
    /\ handle \in [Modules -> BOOLEAN]
    /\ moduleCancelled \in [Modules -> BOOLEAN]
    /\ rootCancelled \in BOOLEAN
    /\ generation \in [Modules -> Nat]
    /\ call \in [phase : Phases, todo : Seq(Modules)]
    /\ order \in Seq(Modules)
    /\ detached \subseteq Worker
    /\ instance \in [Modules -> {"none", "live", "retired"}]

\* A module that reports Ready or Degraded has a live handle in the supervisor:
\* no failed start, missed deadline or half-finished retirement leaves a state
\* that promises capabilities nobody serves.
LiveHasHandle ==
    \A m \in Modules : state[m] \in {"Ready", "Degraded"} => handle[m] /\ instance[m] = "live"

\* A module that runs is always owned: by the supervisor's slot or by exactly
\* one detached worker that will retire it.  No path drops a live instance.
NoOrphan ==
    \A m \in Modules :
        instance[m] = "live" =>
            handle[m] # (\E w \in detached : w.module = m /\ w.op \in {"health", "shutdown"})

\* However operations fail, a module retains at most one detached worker.
OneDetachedWorker ==
    \A v, w \in detached : v.module = w.module => v = w

\* Whatever fails or is late, every running module has exactly one owner, no
\* module has two workers, and a module that reports to be working is served.
InstancesAreOwned == LiveHasHandle /\ NoOrphan /\ OneDetachedWorker

\* While shutdown_all runs, no module waits behind a provider it is bound to:
\* every consumer stops before its providers.  Only where each module that is
\* left has a user that is left, so that the bindings run in a circle, does one
\* stop before a consumer.
ConsumersStopFirst ==
    call.phase = "shutdown" =>
        LET todo == call.todo
            n == Len(todo)
        IN \A i \in 1..n :
             (\E j \in i + 1..n : BoundTo(todo[j], todo[i])) =>
                 \A k \in i..n : \E l \in i..n : l # k /\ BoundTo(todo[l], todo[k])

\* Once start_all begins to start modules, validation has reached a verdict on
\* every registered one: the cycle check and the dependency order together
\* leave no module behind that is neither ordered nor rejected.
ValidationIsTotal ==
    call.phase = "start" => \A m \in Registered : state[m] # "Discovered"

\* A module in a working state has a usable context: its own token is not
\* cancelled (the token it observes to stop its work).
WorkingIsUncancelled ==
    \A m \in Modules : state[m] \in {"Starting", "Ready", "Degraded"} => ~moduleCancelled[m]

=============================================================================
