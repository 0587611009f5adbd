-------------------------- MODULE LifecycleProofs --------------------------
(***************************************************************************)
(* Proofs about what begins and ends once and for all: cancellation,       *)
(* modules and browser sessions.                                           *)
(*                                                                         *)
(* CancellationToken: for every tree, every set of tasks and cancellers    *)
(* and every capacity, a pending registration covers the whole parent      *)
(* chain until some node of the chain is cancelled, and a cancelled token  *)
(* leaves no waiter behind once the calls on it have ended.                *)
(*                                                                         *)
(* LifecycleSupervisor: for any modules, descriptors and priorities, every *)
(* running module has exactly one owner, validation reaches a verdict on   *)
(* every module, and consumers stop before their providers.                *)
(*                                                                         *)
(* SessionStore: for any leaves, clocks and requests, receipts are true,   *)
(* a token is honoured once, every version can be rebuilt and replayed,    *)
(* and an ended family stays ended.  One transition adds to the leaves of  *)
(* a family and overwrites their states only (Follows), which is why what  *)
(* was committed earlier can be rebuilt.                                   *)
(***************************************************************************)
EXTENDS CancellationToken, LifecycleSupervisor, SessionStore, FiniteSums, Integers

-----------------------------------------------------------------------------
\* Cancellation.

\* A call in progress has observed (or made) the cancellation it acts on.
InFlightIsCancelled ==
    \A t \in Threads :
        /\ pc[t] \in {"take", "prune", "wake"} => cancelled[tok[t]]
        /\ pc[t] = "unlink" => IsCancelled(tok[t])

\* A list only holds waiters of tokens below its node, under their own task.
WaitersBelong ==
    \A n \in Tokens : \A w \in waiters[n] : n \in Chain[w[1]] /\ w[1] = TokenOf[w[2]]

\* A task works on its token, at a node of that token's chain; a canceller is
\* never inside register_waker.
TasksOnChain ==
    /\ \A t \in Tasks : tok[t] = TokenOf[t]
    /\ \A c \in Cancellers : pc[c] \in {"idle", "take", "prune", "wake"}
    /\ \A t \in Threads : node[t] \in Chain[tok[t]]

\* The nodes a registration has already passed.
Passed(t) ==
    IF pc[t] \in {"check", "pending"} THEN Chain[tok[t]]
    ELSE IF pc[t] \in {"load", "purge", "push"} THEN Chain[tok[t]] \ Chain[node[t]]
    ELSE {}

\* Each passed node lists the task, unless the token is cancelled by now.
PassedIsCovered ==
    \A t \in Tasks : ~IsCancelled(tok[t]) => \A n \in Passed(t) : Entry(t) \in waiters[n]

\* Thread t will still take an entry of its token, cancelled by now, off node n.
Sweeps(t, n) ==
    \/ pc[t] \in Registering \cup {"swap", "take"}
    \/ pc[t] = "wake" /\ t \in Tasks
    \/ pc[t] \in {"prune", "unlink"} /\ n \in Chain[node[t]]

\* Each waiter of a cancelled token is yet to be swept by a call on that token.
StaleAreSwept ==
    \A k \in Tokens, n \in Tokens :
        cancelled[k] /\ OwnedBy(k, waiters[n]) # {} => \E t \in Threads : tok[t] = k /\ Sweeps(t, n)

IInv == TypeOK /\ TasksOnChain /\ WaitersBelong /\ InFlightIsCancelled /\ PassedIsCovered

\* Facts about the parent chain of a token.
LEMMA ChainFacts ==
    ASSUME NEW k \in Tokens
    PROVE  /\ k \in Chain[k]
           /\ Chain[k] \subseteq Tokens
           /\ \A n \in Chain[k] : Chain[n] \subseteq Chain[k]
           /\ Parent[k] # NoToken =>
                /\ Parent[k] \in Tokens
                /\ Chain[k] = {k} \cup Chain[Parent[k]]
                /\ Parent[k] \in Chain[k]
           /\ Parent[k] = NoToken => Chain[k] = {k}
<1>1. \A j \in Tokens : j \in Chain[j]
  BY TreeAssumption
<1>2. Parent[k] # NoToken => Parent[k] \in Tokens
  BY TreeAssumption
<1> QED BY <1>1, <1>2, TreeAssumption

\* A cancelled flag is never cleared.
LEMMA FlagsAreStable ==
    ASSUME TypeOK, [Next]_vars
    PROVE  \A n \in Tokens : cancelled[n] => cancelled'[n]
<1>1. CASE UNCHANGED cancelled
  BY <1>1
<1>2. ASSUME NEW c \in Cancellers, NEW j \in Held, BeginCancel(c, j)
      PROVE  \A n \in Tokens : cancelled[n] => cancelled'[n]
  BY <1>2, ThreadAssumption DEF BeginCancel, TypeOK
<1>3. ASSUME NEW t \in Threads, CancelExhausted(t)
      PROVE  \A n \in Tokens : cancelled[n] => cancelled'[n]
  BY <1>3 DEF CancelExhausted, TypeOK
<1> QED
  BY <1>1, <1>2, <1>3 DEF Next, Step, vars, BeginRegister, DropTask, LoadFlag,
     RemoveInactiveWaiters, PushWaiter, FinalCheck, UnlinkNode, TakeWaiters,
     PruneNode, WakeWaiters

\* So IsCancelled is stable.
LEMMA CancelledIsStable ==
    ASSUME TypeOK, [Next]_vars, NEW k \in Tokens
    PROVE  IsCancelled(k) => IsCancelled(k)'
BY FlagsAreStable, ChainFacts DEF IsCancelled

\* Climb and Goto keep a thread on the chain of its token.
LEMMA ClimbType ==
    ASSUME TypeOK, TasksOnChain, NEW t \in Threads, NEW a \in PC, NEW b \in PC,
           Climb(t, a, b) \/ Goto(t, a)
    PROVE  /\ pc' \in [Threads -> PC]
           /\ node' \in [Threads -> Tokens]
           /\ node'[t] \in Chain[tok[t]]
           /\ pc'[t] \in {a, b}
           /\ \A u \in Threads \ {t} : pc'[u] = pc[u] /\ node'[u] = node[u]
<1>1. node[t] \in Tokens /\ tok[t] \in Tokens /\ node[t] \in Chain[tok[t]]
  BY DEF TypeOK, TasksOnChain
<1>2. Parent[node[t]] # NoToken => Parent[node[t]] \in Tokens /\ Parent[node[t]] \in Chain[tok[t]]
  BY <1>1, ChainFacts
<1>3. tok[t] \in Chain[tok[t]]
  BY <1>1, ChainFacts
<1> QED BY <1>1, <1>2, <1>3 DEF Climb, Goto, TypeOK

\* A thread that only moves keeps the invariants of its position.
LEMMA MoveType ==
    ASSUME TypeOK, TasksOnChain, NEW t \in Threads, NEW a \in PC, NEW b \in PC,
           Climb(t, a, b) \/ Goto(t, a),
           t \in Cancellers => {a, b} \subseteq {"idle", "take", "prune", "wake"},
           tok' = tok,
           cancelled' \in [Tokens -> BOOLEAN],
           waiters' \in [Tokens -> SUBSET Waiter],
           taken' \in [Threads -> SUBSET Waiter],
           woken' \in [Tasks -> BOOLEAN]
    PROVE  TypeOK' /\ TasksOnChain'
<1>1. /\ pc' \in [Threads -> PC]
      /\ node' \in [Threads -> Tokens]
      /\ node'[t] \in Chain[tok[t]]
      /\ pc'[t] \in {a, b}
      /\ \A u \in Threads \ {t} : pc'[u] = pc[u] /\ node'[u] = node[u]
  BY ClimbType
<1>2. \A c \in Cancellers : c \in Threads
  BY DEF Threads
<1> QED BY <1>1, <1>2 DEF TypeOK, TasksOnChain

\* Every step keeps the types and keeps each thread on its token's chain.
LEMMA TypeStep ==
    ASSUME TypeOK, TasksOnChain, [Next]_vars
    PROVE  TypeOK' /\ TasksOnChain'
<1>0. \A t \in Tasks : t \in Threads /\ t \notin Cancellers
  BY ThreadAssumption DEF Threads
<1>a. \A l \in {"idle", "pending", "done", "dropped", "unlink", "load", "purge", "push",
               "check", "swap", "take", "prune", "wake"} : l \in PC
  BY DEF PC, Registering, Cancelling
<1>b. /\ cancelled \in [Tokens -> BOOLEAN]
      /\ waiters \in [Tokens -> SUBSET Waiter]
      /\ taken \in [Threads -> SUBSET Waiter]
      /\ woken \in [Tasks -> BOOLEAN]
  BY DEF TypeOK
<1>c. \A t \in Threads : t \in Cancellers => pc[t] \in {"idle", "take", "prune", "wake"}
  BY DEF TasksOnChain
<1>1. ASSUME NEW t \in Tasks, BeginRegister(t) PROVE TypeOK' /\ TasksOnChain'
  <2>1. woken' \in [Tasks -> BOOLEAN]
    BY <1>1, <1>b DEF BeginRegister
  <2>2. Goto(t, "load") /\ UNCHANGED <<cancelled, waiters, tok, taken>>
    BY <1>1 DEF BeginRegister
  <2> QED BY <1>0, <1>a, <1>b, <2>1, <2>2, MoveType
<1>2. ASSUME NEW t \in Tasks, DropTask(t) PROVE TypeOK' /\ TasksOnChain'
  BY <1>0, <1>a, <1>2 DEF DropTask, TypeOK, TasksOnChain, Threads
<1>3. ASSUME NEW c \in Cancellers, NEW k \in Held, BeginCancel(c, k)
      PROVE  TypeOK' /\ TasksOnChain'
  <2>1. c \in Threads /\ c \notin Tasks /\ k \in Tokens /\ k \in Chain[k]
    BY ChainFacts, ThreadAssumption DEF Threads
  <2> QED BY <1>0, <1>a, <1>3, <2>1 DEF BeginCancel, TypeOK, TasksOnChain, Threads
<1>4. ASSUME NEW t \in Threads, Step(t) PROVE TypeOK' /\ TasksOnChain'
  <2>1. CASE LoadFlag(t)
    <3>1. CASE Goto(t, "unlink")
      BY <1>a, <1>b, <1>c, <2>1, <3>1, MoveType DEF LoadFlag
    <3>2. CASE pc' = [pc EXCEPT ![t] = "purge"] /\ UNCHANGED node
      BY <1>a, <1>c, <2>1, <3>2 DEF LoadFlag, TypeOK, TasksOnChain
    <3> QED BY <2>1, <3>1, <3>2 DEF LoadFlag
  <2>2. CASE RemoveInactiveWaiters(t)
    BY <1>a, <1>c, <2>2 DEF RemoveInactiveWaiters, TypeOK, TasksOnChain
  <2>3. CASE PushWaiter(t)
    <3>1. pc[t] = "push" /\ UNCHANGED <<cancelled, tok, taken, woken>> /\ t \notin Cancellers
      BY <1>c, <2>3 DEF PushWaiter
    <3>2. Entry(t) \in Waiter
      BY <3>1 DEF Entry, Waiter, Threads, TypeOK
    <3>3. waiters' \in [Tokens -> SUBSET Waiter]
      BY <1>b, <2>3, <3>2 DEF PushWaiter
    <3>4. Goto(t, "unlink") \/ Goto(t, "swap") \/ Climb(t, "load", "check")
      BY <2>3 DEF PushWaiter
    <3> QED BY <1>a, <1>b, <3>1, <3>3, <3>4, MoveType
  <2>4. CASE FinalCheck(t)
    <3>1. (Goto(t, "unlink") \/ Goto(t, "pending")) /\ pc[t] = "check"
      BY <2>4 DEF FinalCheck
    <3> QED BY <1>a, <1>b, <1>c, <2>4, <3>1, MoveType DEF FinalCheck
  <2>5. CASE UnlinkNode(t)
    <3>1. waiters' \in [Tokens -> SUBSET Waiter]
      BY <1>b, <2>5 DEF UnlinkNode
    <3> QED BY <1>a, <1>b, <1>c, <2>5, <3>1, MoveType DEF UnlinkNode
  <2>6. CASE CancelExhausted(t)
    <3>1. (Goto(t, "unlink") \/ Goto(t, "take")) /\ pc[t] = "swap"
      BY <2>6 DEF CancelExhausted
    <3>2. cancelled' \in [Tokens -> BOOLEAN]
      BY <1>b, <2>6 DEF CancelExhausted
    <3> QED BY <1>a, <1>b, <1>c, <2>6, <3>1, <3>2, MoveType DEF CancelExhausted
  <2>7. CASE TakeWaiters(t)
    <3>1. waiters' \in [Tokens -> SUBSET Waiter] /\ taken' \in [Threads -> SUBSET Waiter]
      BY <1>b, <2>7 DEF TakeWaiters, TypeOK
    <3> QED BY <1>a, <1>b, <1>c, <2>7, <3>1, MoveType DEF TakeWaiters
  <2>8. CASE PruneNode(t)
    <3>1. waiters' \in [Tokens -> SUBSET Waiter]
      BY <1>b, <2>8 DEF PruneNode
    <3> QED BY <1>a, <1>b, <1>c, <2>8, <3>1, MoveType DEF PruneNode
  <2>9. CASE WakeWaiters(t)
    <3>1. woken' \in [Tasks -> BOOLEAN] /\ taken' \in [Threads -> SUBSET Waiter]
      BY <1>b, <2>9 DEF WakeWaiters
    <3>2. /\ UNCHANGED <<cancelled, waiters, tok>>
          /\ \/ t \in Tasks /\ Goto(t, "unlink")
             \/ Goto(t, "idle")
      BY <2>9 DEF WakeWaiters
    <3> QED BY <1>0, <1>a, <1>b, <3>1, <3>2, MoveType
  <2> QED BY <1>4, <2>1, <2>2, <2>3, <2>4, <2>5, <2>6, <2>7, <2>8, <2>9 DEF Step
<1>5. CASE UNCHANGED vars
  BY <1>5 DEF vars, TypeOK, TasksOnChain
<1> QED BY <1>1, <1>2, <1>3, <1>4, <1>5 DEF Next

\* A step adds to a list only the entry of a task that pushes it.
LEMMA OnlyPushAdds ==
    ASSUME TypeOK, [Next]_vars, NEW n \in Tokens, NEW w \in waiters'[n]
    PROVE  \/ w \in waiters[n]
           \/ \E t \in Threads : pc[t] = "push" /\ w = Entry(t) /\ n = node[t]
<1>1. CASE UNCHANGED waiters
  BY <1>1
<1>2. ASSUME NEW t \in Threads, RemoveInactiveWaiters(t) PROVE w \in waiters[n]
  BY <1>2 DEF RemoveInactiveWaiters, TypeOK
<1>3. ASSUME NEW t \in Threads, PushWaiter(t)
      PROVE  w \in waiters[n] \/ (pc[t] = "push" /\ w = Entry(t) /\ n = node[t])
  BY <1>3 DEF PushWaiter, TypeOK
<1>4. ASSUME NEW t \in Threads, UnlinkNode(t) \/ PruneNode(t) PROVE w \in waiters[n]
  BY <1>4 DEF UnlinkNode, PruneNode, TypeOK
<1>5. ASSUME NEW t \in Threads, TakeWaiters(t) PROVE w \in waiters[n]
  BY <1>5 DEF TakeWaiters, TypeOK
<1> QED
  BY <1>1, <1>2, <1>3, <1>4, <1>5 DEF Next, Step, vars, BeginRegister, DropTask, LoadFlag,
     FinalCheck, BeginCancel, CancelExhausted, WakeWaiters

\* A step never removes the entry of a live task whose chain is uncancelled.
LEMMA EntryIsKept ==
    ASSUME IInv, [Next]_vars, NEW u \in Tasks, NEW n \in Tokens,
           Entry(u) \in waiters[n], pc[u] # "dropped", ~IsCancelled(tok[u])
    PROVE  Entry(u) \in waiters'[n]
<1> USE DEF IInv
<1>0. /\ u \in Threads /\ tok[u] = TokenOf[u] /\ tok[u] \in Tokens
      /\ tok[u] \in Chain[tok[u]] /\ n \in Chain[tok[u]]
      /\ Entry(u)[1] = tok[u]
  <2>1. u \in Threads /\ tok[u] = TokenOf[u] /\ tok[u] \in Tokens /\ Entry(u)[1] = tok[u]
    BY DEF Threads, TypeOK, TasksOnChain, Entry
  <2>2. n \in Chain[Entry(u)[1]]
    BY DEF WaitersBelong
  <2> QED BY <2>1, <2>2, ChainFacts
<1>1. CASE UNCHANGED waiters
  BY <1>1
<1>2. ASSUME NEW t \in Threads, RemoveInactiveWaiters(t) PROVE Entry(u) \in waiters'[n]
  <2>1. IsActive(Entry(u))
    BY <1>0 DEF IsActive, Alive
  <2> QED BY <1>2, <2>1 DEF RemoveInactiveWaiters, TypeOK
<1>3. ASSUME NEW t \in Threads, PushWaiter(t) PROVE Entry(u) \in waiters'[n]
  BY <1>3 DEF PushWaiter, TypeOK
<1>4. ASSUME NEW t \in Threads, UnlinkNode(t) \/ PruneNode(t)
      PROVE  Entry(u) \in waiters'[n]
  <2>1. tok[t] \in Tokens /\ tok[t] \in Chain[tok[t]]
    BY ChainFacts DEF TypeOK
  <2>2. IsCancelled(tok[t])
    BY <1>4, <2>1 DEF InFlightIsCancelled, IsCancelled, UnlinkNode, PruneNode
  <2>3. Entry(u)[1] # tok[t]
    BY <1>0, <2>2
  <2>4. waiters' = [waiters EXCEPT ![node[t]] = @ \ OwnedBy(tok[t], @)]
    BY <1>4 DEF UnlinkNode, PruneNode
  <2>5. Entry(u) \notin OwnedBy(tok[t], waiters[n])
    BY <2>3 DEF OwnedBy
  <2> QED BY <2>4, <2>5 DEF TypeOK
<1>5. ASSUME NEW t \in Threads, TakeWaiters(t) PROVE Entry(u) \in waiters'[n]
  <2>1. cancelled[tok[t]]
    BY <1>5 DEF TakeWaiters, InFlightIsCancelled
  <2>2. n # tok[t]
    BY <1>0, <2>1 DEF IsCancelled
  <2> QED BY <1>5, <2>2 DEF TakeWaiters, TypeOK
<1> QED
  BY <1>1, <1>2, <1>3, <1>4, <1>5 DEF Next, Step, vars, BeginRegister, DropTask, LoadFlag,
     FinalCheck, BeginCancel, CancelExhausted, WakeWaiters

\* A position of a call that acts on a cancellation is entered only once the
\* token is cancelled, and a cancellation is never undone.
LEMMA InFlightStep ==
    ASSUME IInv, [Next]_vars, TypeOK', TasksOnChain'
    PROVE  InFlightIsCancelled'
<1> SUFFICES ASSUME NEW t \in Threads
             PROVE  /\ pc'[t] \in {"take", "prune", "wake"} => cancelled'[tok'[t]]
                    /\ pc'[t] = "unlink" => IsCancelled(tok[t])'
  BY DEF InFlightIsCancelled
<1> USE DEF IInv, IsCancelled
<1>1. \A n \in Tokens : cancelled[n] => cancelled'[n]
  BY FlagsAreStable
<1>2. /\ tok[t] \in Tokens /\ node[t] \in Tokens
      /\ node[t] \in Chain[tok[t]]
      /\ tok[t] \in Chain[tok[t]] /\ Chain[tok[t]] \subseteq Tokens
  BY ChainFacts DEF TypeOK, TasksOnChain
<1>3. CASE pc'[t] = pc[t] /\ tok'[t] = tok[t]
  BY <1>1, <1>2, <1>3 DEF InFlightIsCancelled
<1>4. ASSUME NEW c \in Cancellers, NEW k \in Held, BeginCancel(c, k),
             ~(pc'[t] = pc[t] /\ tok'[t] = tok[t])
      PROVE  pc'[t] = "take" /\ cancelled'[tok'[t]]
  BY <1>4, ThreadAssumption DEF BeginCancel, TypeOK, Threads
<1>5. ASSUME NEW u \in Tasks, BeginRegister(u) \/ DropTask(u),
             ~(pc'[t] = pc[t] /\ tok'[t] = tok[t])
      PROVE  pc'[t] \in {"load", "dropped"}
  BY <1>5 DEF BeginRegister, DropTask, Goto, TypeOK
<1>6. ASSUME NEW u \in Threads, Step(u), ~(pc'[t] = pc[t] /\ tok'[t] = tok[t])
      PROVE  /\ pc'[t] \in {"take", "prune", "wake"} => cancelled'[tok'[t]]
             /\ pc'[t] = "unlink" => IsCancelled(tok[t])'
  <2>0. t = u /\ tok'[t] = tok[t]
    BY <1>6 DEF Step, LoadFlag, RemoveInactiveWaiters, PushWaiter, FinalCheck, UnlinkNode,
       CancelExhausted, TakeWaiters, PruneNode, WakeWaiters, Goto, Climb, TypeOK
  <2>1. CASE LoadFlag(t)
    BY <1>1, <1>2, <2>0, <2>1 DEF LoadFlag, Goto, TypeOK
  <2>2. CASE RemoveInactiveWaiters(t)
    BY <2>2 DEF RemoveInactiveWaiters, TypeOK
  <2>3. CASE PushWaiter(t)
    BY <1>1, <1>2, <2>0, <2>3 DEF PushWaiter, Goto, Climb, TypeOK
  <2>4. CASE FinalCheck(t)
    BY <1>1, <1>2, <2>0, <2>4 DEF FinalCheck, Goto, TypeOK
  <2>5. CASE UnlinkNode(t)
    BY <1>1, <1>2, <2>0, <2>5 DEF UnlinkNode, Climb, InFlightIsCancelled, TypeOK
  <2>6. CASE CancelExhausted(t)
    BY <1>1, <1>2, <2>0, <2>6 DEF CancelExhausted, Goto, TypeOK
  <2>7. CASE TakeWaiters(t)
    BY <1>1, <1>2, <2>0, <2>7 DEF TakeWaiters, Goto, InFlightIsCancelled, TypeOK
  <2>8. CASE PruneNode(t)
    BY <1>1, <1>2, <2>0, <2>8 DEF PruneNode, Climb, InFlightIsCancelled, TypeOK
  <2>9. CASE WakeWaiters(t)
    <3>1. cancelled[tok[t]]
      BY <2>9 DEF WakeWaiters, InFlightIsCancelled
    <3>2. IsCancelled(tok[t])
      BY <1>2, <3>1 DEF IsCancelled
    <3>3. pc'[t] \in {"unlink", "idle"}
      BY <2>9 DEF WakeWaiters, Goto, TypeOK
    <3> QED BY <1>1, <1>2, <2>0, <3>2, <3>3
  <2> QED BY <1>6, <2>0, <2>1, <2>2, <2>3, <2>4, <2>5, <2>6, <2>7, <2>8, <2>9 DEF Step
<1>7. CASE UNCHANGED vars
  BY <1>3, <1>7 DEF vars
<1> QED BY <1>3, <1>4, <1>5, <1>6, <1>7 DEF Next

\* What a registration has passed grows only by the node it just pushed on.
LEMMA PassedStep ==
    ASSUME IInv, [Next]_vars, NEW t \in Tasks, NEW n \in Passed(t)'
    PROVE  \/ n \in Passed(t) /\ pc[t] # "dropped"
           \/ Entry(t) \in waiters'[n]
<1> USE DEF IInv
<1>0. /\ t \in Threads /\ tok[t] \in Tokens /\ node[t] \in Tokens /\ t \notin Cancellers
      /\ tok' [t] = tok[t] /\ node[t] \in Chain[tok[t]]
  <2>1. t \in Threads /\ tok[t] \in Tokens /\ node[t] \in Tokens /\ t \notin Cancellers /\ node[t] \in Chain[tok[t]]
    BY ThreadAssumption DEF Threads, TypeOK, TasksOnChain
  <2>2. tok'[t] = tok[t]
    BY TypeStep, <2>1 DEF TasksOnChain
  <2> QED BY <2>1, <2>2
<1>1. CASE pc'[t] = pc[t] /\ node'[t] = node[t]
  BY <1>0, <1>1 DEF Passed
<1>2. ASSUME NEW u \in Tasks, BeginRegister(u), ~(pc'[t] = pc[t] /\ node'[t] = node[t])
      PROVE  FALSE
  <2>1. pc'[t] = "load" /\ node'[t] = tok[t]
    BY <1>0, <1>2 DEF BeginRegister, Goto, TypeOK
  <2> QED BY <1>0, <2>1 DEF Passed
<1>3. ASSUME NEW u \in Tasks, DropTask(u), ~(pc'[t] = pc[t] /\ node'[t] = node[t])
      PROVE  FALSE
  BY <1>0, <1>3 DEF DropTask, TypeOK, Passed
<1>4. ASSUME NEW c \in Cancellers, NEW k \in Held, BeginCancel(c, k)
      PROVE  pc'[t] = pc[t] /\ node'[t] = node[t]
  BY <1>0, <1>4 DEF BeginCancel, TypeOK
<1>5. ASSUME NEW u \in Threads, Step(u), ~(pc'[t] = pc[t] /\ node'[t] = node[t])
      PROVE  \/ n \in Passed(t) /\ pc[t] # "dropped"
             \/ Entry(t) \in waiters'[n]
  <2>0. t = u
    BY <1>0, <1>5 DEF Step, LoadFlag, RemoveInactiveWaiters, PushWaiter, FinalCheck, UnlinkNode,
       CancelExhausted, TakeWaiters, PruneNode, WakeWaiters, Goto, Climb, TypeOK
  <2>1. CASE LoadFlag(t)
    BY <1>0, <2>1 DEF LoadFlag, Goto, Passed, TypeOK
  <2>2. CASE RemoveInactiveWaiters(t)
    BY <1>0, <2>2 DEF RemoveInactiveWaiters, Passed, TypeOK
  <2>3. CASE PushWaiter(t)
    <3>1. CASE Goto(t, "unlink") \/ Goto(t, "swap")
      BY <1>0, <3>1 DEF Goto, Passed, TypeOK
    <3>2. CASE /\ waiters' = [waiters EXCEPT ![node[t]] = @ \cup {Entry(t)}]
               /\ Climb(t, "load", "check")
      <4>1. n \in (Chain[tok[t]] \ Chain[node[t]]) \cup {node[t]}
        <5>1. CASE Parent[node[t]] = NoToken
          <6>1. Chain[node[t]] = {node[t]} /\ pc'[t] = "check"
            BY <1>0, <3>2, <5>1, ChainFacts DEF Climb, TypeOK
          <6> QED BY <1>0, <6>1 DEF Passed
        <5>2. CASE Parent[node[t]] # NoToken
          <6>1. /\ Chain[node[t]] = {node[t]} \cup Chain[Parent[node[t]]]
                /\ pc'[t] = "load" /\ node'[t] = Parent[node[t]]
            BY <1>0, <3>2, <5>2, ChainFacts DEF Climb, TypeOK
          <6> QED BY <1>0, <6>1 DEF Passed
        <5> QED BY <5>1, <5>2
      <4>2. pc[t] = "push"
        BY <2>3 DEF PushWaiter
      <4>3. CASE n = node[t]
        BY <1>0, <3>2, <4>3 DEF TypeOK
      <4> QED BY <4>1, <4>2, <4>3 DEF Passed
    <3> QED BY <2>3, <3>1, <3>2 DEF PushWaiter
  <2>4. CASE FinalCheck(t)
    BY <1>0, <2>4 DEF FinalCheck, Goto, Passed, TypeOK
  <2>5. CASE \/ UnlinkNode(t) \/ CancelExhausted(t) \/ TakeWaiters(t)
             \/ PruneNode(t) \/ WakeWaiters(t)
    <3>1. pc'[t] \in {"unlink", "done", "take", "prune", "wake", "idle"}
      BY <1>0, <2>5 DEF UnlinkNode, CancelExhausted, TakeWaiters, PruneNode, WakeWaiters,
         Goto, Climb, TypeOK
    <3> QED BY <3>1 DEF Passed
  <2> QED BY <1>5, <2>0, <2>1, <2>2, <2>3, <2>4, <2>5 DEF Step
<1>6. CASE UNCHANGED vars
  BY <1>1, <1>6 DEF vars
<1> QED BY <1>1, <1>2, <1>3, <1>4, <1>5, <1>6, ChainFacts DEF Next

\* The inductive invariant holds initially.
LEMMA InitIInv == Init => IInv
<1> SUFFICES ASSUME Init PROVE IInv
  OBVIOUS
<1>1. tok \in [Threads -> Tokens] /\ \A t \in Tasks : tok[t] = TokenOf[t]
  BY ThreadAssumption DEF Init, Threads
<1>2. TypeOK
  BY <1>1 DEF Init, TypeOK, PC
<1>3. TasksOnChain
  BY <1>1, ChainFacts, ThreadAssumption DEF Init, TasksOnChain, Threads
<1>4. WaitersBelong
  BY DEF Init, WaitersBelong
<1>5. InFlightIsCancelled
  BY DEF Init, InFlightIsCancelled
<1>6. PassedIsCovered
  BY DEF Init, PassedIsCovered, Passed, Threads
<1> QED BY <1>2, <1>3, <1>4, <1>5, <1>6 DEF IInv

\* Every step of every thread preserves the inductive invariant.
LEMMA NextIInv == IInv /\ [Next]_vars => IInv'
<1> SUFFICES ASSUME IInv, [Next]_vars PROVE IInv'
  OBVIOUS
<1>1. TypeOK' /\ TasksOnChain'
  BY TypeStep DEF IInv
<1>2. WaitersBelong'
  <2> SUFFICES ASSUME NEW n \in Tokens, NEW w \in waiters'[n]
               PROVE  n \in Chain[w[1]] /\ w[1] = TokenOf[w[2]]
    BY DEF WaitersBelong
  <2>1. CASE w \in waiters[n]
    BY <2>1 DEF IInv, WaitersBelong
  <2>2. ASSUME NEW t \in Threads, pc[t] = "push", w = Entry(t), n = node[t]
        PROVE  n \in Chain[w[1]] /\ w[1] = TokenOf[w[2]]
    BY <2>2 DEF IInv, TasksOnChain, Threads, Entry
  <2> QED BY <2>1, <2>2, OnlyPushAdds DEF IInv
<1>3. InFlightIsCancelled'
  BY <1>1, InFlightStep
<1>4. PassedIsCovered'
  <2> SUFFICES ASSUME NEW t \in Tasks, ~IsCancelled(tok[t])', NEW n \in Passed(t)'
               PROVE  (Entry(t) \in waiters[n])'
    BY DEF PassedIsCovered
  <2>1. /\ t \in Threads /\ tok[t] \in Tokens /\ tok'[t] = tok[t]
        /\ Entry(t)' = Entry(t)
    BY <1>1 DEF IInv, TypeOK, TasksOnChain, Threads, Entry
  <2>2. ~IsCancelled(tok[t])
    <3>1. IsCancelled(tok[t]) => \E m \in Chain[tok[t]] : cancelled[m]
      BY DEF IsCancelled
    <3>2. \A m \in Chain[tok[t]] : m \in Tokens
      BY <2>1, ChainFacts
    <3>3. \A m \in Tokens : cancelled[m] => cancelled'[m]
      BY FlagsAreStable DEF IInv
    <3> QED BY <2>1, <3>1, <3>2, <3>3 DEF IsCancelled
  <2>3. CASE n \in Passed(t) /\ pc[t] # "dropped"
    <3>1. Entry(t) \in waiters[n]
      BY <2>2, <2>3 DEF IInv, PassedIsCovered
    <3>2. n \in Tokens
      BY <2>1, <2>3, ChainFacts DEF Passed
    <3> QED BY <2>1, <2>2, <2>3, <3>1, <3>2, EntryIsKept
  <2>4. CASE Entry(t) \in waiters'[n]
    BY <2>1, <2>4
  <2> QED BY <2>3, <2>4, PassedStep
<1> QED BY <1>1, <1>2, <1>3, <1>4 DEF IInv

\* A thread that is to sweep an entry off a node does so or still has to.
LEMMA SweepGoesOn ==
    ASSUME IInv, [Next]_vars, NEW t \in Threads, NEW n \in Tokens, NEW w \in waiters[n],
           w[1] = tok[t], cancelled[tok[t]], Sweeps(t, n), w \in waiters'[n]
    PROVE  tok'[t] = tok[t] /\ Sweeps(t, n)'
<1> USE DEF IInv
<1>0. /\ tok[t] \in Tokens /\ node[t] \in Tokens /\ node[t] \in Chain[tok[t]]
      /\ n \in Chain[tok[t]] /\ tok[t] \in Chain[tok[t]] /\ IsCancelled(tok[t])
      /\ pc[t] \notin {"idle", "pending"}
  <2>1. tok[t] \in Tokens /\ node[t] \in Tokens /\ node[t] \in Chain[tok[t]]
    BY DEF TypeOK, TasksOnChain
  <2>2. n \in Chain[tok[t]]
    BY DEF WaitersBelong
  <2>3. pc[t] \notin {"idle", "pending"}
    BY DEF Sweeps, Registering
  <2> QED BY <2>1, <2>2, <2>3, ChainFacts DEF IsCancelled
<1>1. CASE pc'[t] = pc[t] /\ node'[t] = node[t] /\ tok'[t] = tok[t]
  BY <1>1 DEF Sweeps
<1>2. ASSUME NEW u \in Tasks, BeginRegister(u) \/ DropTask(u)
      PROVE  pc'[t] = pc[t] /\ node'[t] = node[t] /\ tok'[t] = tok[t]
  BY <1>0, <1>2 DEF BeginRegister, DropTask, Goto, TypeOK
<1>3. ASSUME NEW c \in Cancellers, NEW k \in Held, BeginCancel(c, k)
      PROVE  pc'[t] = pc[t] /\ node'[t] = node[t] /\ tok'[t] = tok[t]
  BY <1>0, <1>3 DEF BeginCancel, TypeOK
<1>4. ASSUME NEW u \in Threads, Step(u), ~(pc'[t] = pc[t] /\ node'[t] = node[t] /\ tok'[t] = tok[t])
      PROVE  tok'[t] = tok[t] /\ Sweeps(t, n)'
  <2>0. t = u /\ tok'[t] = tok[t]
    BY <1>4 DEF Step, LoadFlag, RemoveInactiveWaiters, PushWaiter, FinalCheck, UnlinkNode,
       CancelExhausted, TakeWaiters, PruneNode, WakeWaiters, Goto, Climb, TypeOK
  <2>1. CASE LoadFlag(t)
    <3>1. pc'[t] = "purge" \/ (pc'[t] = "unlink" /\ node'[t] = tok[t])
      BY <2>1 DEF LoadFlag, Goto, TypeOK
    <3> QED BY <1>0, <2>0, <3>1 DEF Sweeps, Registering
  <2>2. CASE RemoveInactiveWaiters(t)
    <3>1. pc'[t] = "push"
      BY <2>2 DEF RemoveInactiveWaiters, TypeOK
    <3> QED BY <2>0, <3>1 DEF Sweeps, Registering
  <2>3. CASE PushWaiter(t)
    <3>1. pc'[t] \in {"load", "check", "swap"} \/ (pc'[t] = "unlink" /\ node'[t] = tok[t])
      BY <2>3 DEF PushWaiter, Goto, Climb, TypeOK
    <3> QED BY <1>0, <2>0, <3>1 DEF Sweeps, Registering
  <2>4. CASE FinalCheck(t)
    <3>1. pc'[t] = "unlink" /\ node'[t] = tok[t]
      BY <1>0, <2>4 DEF FinalCheck, Goto, TypeOK
    <3> QED BY <1>0, <2>0, <3>1 DEF Sweeps
  <2>5. CASE UnlinkNode(t) \/ PruneNode(t)
    <3>1. /\ waiters' = [waiters EXCEPT ![node[t]] = @ \ OwnedBy(tok[t], @)]
          /\ pc[t] \in {"unlink", "prune"}
      BY <2>5 DEF UnlinkNode, PruneNode
    <3>2. w \in OwnedBy(tok[t], waiters[n])
      BY DEF OwnedBy
    <3>3. n # node[t]
      BY <1>0, <3>1, <3>2 DEF TypeOK
    <3>4. n \in Chain[node[t]]
      BY <3>1 DEF Sweeps, Registering
    <3>5. Parent[node[t]] # NoToken /\ n \in Chain[Parent[node[t]]]
      BY <1>0, <3>3, <3>4, ChainFacts
    <3>6. pc'[t] \in {"unlink", "prune"} /\ node'[t] = Parent[node[t]]
      BY <2>5, <3>5 DEF UnlinkNode, PruneNode, Climb, TypeOK
    <3> QED BY <2>0, <3>5, <3>6 DEF Sweeps
  <2>6. CASE CancelExhausted(t) \/ TakeWaiters(t)
    <3>1. pc'[t] \in {"unlink", "take", "prune"} /\ node'[t] = tok[t]
      BY <2>6 DEF CancelExhausted, TakeWaiters, Goto, TypeOK
    <3> QED BY <1>0, <2>0, <3>1 DEF Sweeps
  <2>7. CASE WakeWaiters(t)
    <3>1. t \in Tasks
      BY <2>7 DEF WakeWaiters, Sweeps, Registering
    <3>2. pc'[t] = "unlink" /\ node'[t] = tok[t]
      BY <2>7, <3>1 DEF WakeWaiters, Goto, TypeOK
    <3> QED BY <1>0, <2>0, <3>2 DEF Sweeps
  <2> QED BY <1>4, <2>0, <2>1, <2>2, <2>3, <2>4, <2>5, <2>6, <2>7 DEF Step
<1>5. CASE UNCHANGED vars
  BY <1>1, <1>5 DEF vars
<1> QED BY <1>1, <1>2, <1>3, <1>4, <1>5 DEF Next

\* A thread that pushes an entry goes on registering.
LEMMA PusherSweeps ==
    ASSUME IInv, [Next]_vars, NEW n \in Tokens, NEW w \in waiters'[n], w \notin waiters[n]
    PROVE  \E t \in Threads : tok'[t] = w[1] /\ Sweeps(t, n)'
<1> USE DEF IInv
<1>1. CASE UNCHANGED waiters
  BY <1>1
<1>2. ASSUME NEW t \in Threads, RemoveInactiveWaiters(t) \/ UnlinkNode(t) \/ PruneNode(t) \/ TakeWaiters(t)
      PROVE  FALSE
  BY <1>2 DEF RemoveInactiveWaiters, UnlinkNode, PruneNode, TakeWaiters, TypeOK
<1>3. ASSUME NEW t \in Threads, PushWaiter(t)
      PROVE  tok'[t] = w[1] /\ Sweeps(t, n)'
  <2>1. /\ waiters' = [waiters EXCEPT ![node[t]] = @ \cup {Entry(t)}]
        /\ Climb(t, "load", "check") /\ tok' = tok
    BY <1>3 DEF PushWaiter
  <2>2. w = Entry(t)
    BY <2>1 DEF TypeOK
  <2>3. pc'[t] \in {"load", "check"}
    BY <2>1 DEF Climb, TypeOK
  <2> QED BY <2>1, <2>2, <2>3 DEF Entry, Sweeps, Registering
<1> QED
  BY <1>1, <1>2, <1>3 DEF Next, Step, vars, BeginRegister, DropTask, LoadFlag,
     FinalCheck, BeginCancel, CancelExhausted, WakeWaiters

\* A thread that sets a flag goes on to take the waiters.
LEMMA CancellerSweeps ==
    ASSUME IInv, [Next]_vars, NEW k \in Tokens, NEW n, ~cancelled[k], cancelled'[k]
    PROVE  \E t \in Threads : tok'[t] = k /\ Sweeps(t, n)'
<1> USE DEF IInv
<1>1. CASE UNCHANGED cancelled
  BY <1>1
<1>2. ASSUME NEW c \in Cancellers, NEW j \in Held, BeginCancel(c, j)
      PROVE  c \in Threads /\ tok'[c] = k /\ Sweeps(c, n)'
  <2>1. c \in Threads /\ j \in Tokens
    BY ThreadAssumption DEF Threads
  <2>2. j = k /\ tok'[c] = j /\ pc'[c] = "take"
    BY <1>2, <2>1 DEF BeginCancel, TypeOK
  <2> QED BY <2>1, <2>2 DEF Sweeps
<1>3. ASSUME NEW t \in Threads, CancelExhausted(t)
      PROVE  tok'[t] = k /\ Sweeps(t, n)'
  <2>1. tok[t] = k /\ tok'[t] = k
    BY <1>3 DEF CancelExhausted, TypeOK
  <2>2. pc'[t] = "take"
    BY <1>3, <2>1 DEF CancelExhausted, Goto, TypeOK
  <2> QED BY <2>1, <2>2 DEF Sweeps
<1> QED
  BY <1>1, <1>2, <1>3 DEF Next, Step, vars, BeginRegister, DropTask, LoadFlag,
     RemoveInactiveWaiters, PushWaiter, FinalCheck, UnlinkNode, TakeWaiters,
     PruneNode, WakeWaiters

LEMMA StaleStep == IInv /\ StaleAreSwept /\ [Next]_vars => StaleAreSwept'
<1> SUFFICES ASSUME IInv, StaleAreSwept, [Next]_vars, NEW k \in Tokens, NEW n \in Tokens,
                    cancelled'[k], NEW w \in waiters'[n], w[1] = k
             PROVE  \E t \in Threads : tok'[t] = k /\ Sweeps(t, n)'
  BY DEF StaleAreSwept, OwnedBy
<1>1. CASE ~cancelled[k]
  BY <1>1, CancellerSweeps
<1>2. CASE w \notin waiters[n]
  BY <1>2, PusherSweeps
<1>3. CASE cancelled[k] /\ w \in waiters[n]
  <2>1. w \in OwnedBy(k, waiters[n])
    BY <1>3 DEF OwnedBy
  <2>2. PICK t \in Threads : tok[t] = k /\ Sweeps(t, n)
    BY <1>3, <2>1 DEF StaleAreSwept
  <2>3. tok'[t] = tok[t] /\ Sweeps(t, n)'
    BY <1>3, <2>2, SweepGoesOn
  <2> QED BY <2>2, <2>3
<1> QED BY <1>1, <1>2, <1>3

\* Every state of the cancellation tree is well typed.
THEOREM TypeCorrect == Spec => []TypeOK
<1>1. IInv => TypeOK
  BY DEF IInv
<1> QED BY <1>1, InitIInv, NextIInv, PTL DEF Spec

\* A pending task is on the list of every node of its uncancelled chain, for
\* every tree, every number of tasks and cancellers, and every capacity.
THEOREM PendingTasksAreCovered == Spec => []RegistrationCoversChain
<1>1. IInv => RegistrationCoversChain
  BY DEF IInv, PassedIsCovered, Passed, RegistrationCoversChain, TasksOnChain
<1> QED BY <1>1, InitIInv, NextIInv, PTL DEF Spec

\* A cancelled token on which no call is in progress has no waiter left anywhere in
\* the tree, however register_waker, cancel and the exhaustion of a list interleave
\* (register_waker, cancel, remove_waker_chain).
THEOREM NothingStaysBehind == Spec => []NoStaleWaiters
<1>1. Init => StaleAreSwept
  BY DEF Init, StaleAreSwept, OwnedBy
<1>2. StaleAreSwept => NoStaleWaiters
  <2> SUFFICES ASSUME StaleAreSwept, NEW k \in Tokens, cancelled[k], Quiescent(k), NEW n \in Tokens,
                      OwnedBy(k, waiters[n]) # {}
               PROVE  FALSE
    BY DEF NoStaleWaiters
  <2>1. PICK t \in Threads : tok[t] = k /\ Sweeps(t, n)
    BY DEF StaleAreSwept
  <2> QED BY <2>1 DEF Quiescent, Sweeps, Cancelling
<1> QED BY <1>1, <1>2, InitIInv, NextIInv, StaleStep, PTL DEF Spec

-----------------------------------------------------------------------------
\* Recursive functions over 0..N.

\* f runs from b on the steps of G.
Runs(f, S, b, N, G) ==
    f \in [0..N -> S] /\ f[0] = b /\ \A n \in 1..N : f[n] = G[<<n, f[n - 1]>>]

\* A recursion over 0..N whose steps stay in S has a solution in S.
LEMMA RunExists ==
    ASSUME NEW S, NEW b \in S, NEW N \in Nat, NEW G \in [(1..N) \X S -> S]
    PROVE  \E f : Runs(f, S, b, N, G)
<1> DEFINE T == {M \in Nat : M <= N =>
                   \E f \in [0..M -> S] : f[0] = b /\ \A n \in 1..M : f[n] = G[<<n, f[n - 1]>>]}
<1>1. 0 \in T
  <2> DEFINE f == [n \in 0..0 |-> b]
  <2>1. f \in [0..0 -> S] /\ f[0] = b /\ \A n \in 1..0 : f[n] = G[<<n, f[n - 1]>>]
    OBVIOUS
  <2> QED BY <2>1
<1>2. ASSUME NEW M \in Nat, M \in T PROVE M + 1 \in T
  <2> SUFFICES ASSUME M + 1 <= N
               PROVE  \E f \in [0..M + 1 -> S] : f[0] = b /\ \A n \in 1..M + 1 : f[n] = G[<<n, f[n - 1]>>]
    OBVIOUS
  <2>1. PICK f \in [0..M -> S] : f[0] = b /\ \A n \in 1..M : f[n] = G[<<n, f[n - 1]>>]
    BY <1>2
  <2> DEFINE g == [n \in 0..M + 1 |-> IF n = M + 1 THEN G[<<M + 1, f[M]>>] ELSE f[n]]
  <2>2. G[<<M + 1, f[M]>>] \in S
    <3>1. <<M + 1, f[M]>> \in (1..N) \X S
      BY <2>1
    <3> QED BY <3>1
  <2>3. g \in [0..M + 1 -> S] /\ g[0] = b
    BY <2>1, <2>2
  <2>4. ASSUME NEW n \in 1..M + 1 PROVE g[n] = G[<<n, g[n - 1]>>]
    <3>1. CASE n = M + 1
      <4>1. g[n - 1] = f[M] /\ n \in 0..M + 1
        BY <3>1
      <4> QED BY <3>1, <4>1
    <3>2. CASE n \in 1..M
      <4>1. g[n] = f[n] /\ g[n - 1] = f[n - 1]
        BY <3>2
      <4> QED BY <2>1, <3>2, <4>1
    <3> QED BY <3>1, <3>2
  <2> HIDE DEF g
  <2> QED BY <2>3, <2>4
<1>3. Nat \subseteq T
  <2> HIDE DEF T
  <2> QED BY <1>1, <1>2, CountingUp
<1>4. PICK f \in [0..N -> S] : f[0] = b /\ \A n \in 1..N : f[n] = G[<<n, f[n - 1]>>]
  BY <1>3
<1> QED BY <1>4 DEF Runs

\* Counting up to N.
LEMMA CountingTo ==
    ASSUME NEW N \in Nat, NEW S, 0 \in S, \A n \in 0..N : n \in S /\ n + 1 <= N => n + 1 \in S
    PROVE  0..N \subseteq S
<1> DEFINE T == {n \in Nat : n <= N => n \in S}
<1>1. Nat \subseteq T
  <2>1. 0 \in T /\ \A n \in Nat : n \in T => n + 1 \in T
    OBVIOUS
  <2> HIDE DEF T
  <2> QED BY <2>1, CountingUp
<1> QED BY <1>1

\* The members of a sequence.
Members(s) == {s[i] : i \in 1..Len(s)}

\* A sequence has finitely many members, all from the set it ranges over.
LEMMA MembersFinite ==
    ASSUME NEW S, NEW s \in Seq(S)
    PROVE  /\ IsFiniteSet(Members(s)) /\ Cardinality(Members(s)) <= Len(s)
           /\ Cardinality(Members(s)) \in Nat /\ Members(s) \subseteq S
<1> DEFINE f == [i \in 1..Len(s) |-> s[i]]
<1>0. Len(s) \in Nat
  OBVIOUS
<1>1. f \in Surjection(1..Len(s), Members(s))
  BY <1>0 DEF Surjection, Members
<1>2. IsFiniteSet(1..Len(s)) /\ Cardinality(1..Len(s)) = Len(s)
  BY <1>0, FS_Interval
<1> HIDE DEF f
<1>3. IsFiniteSet(Members(s)) /\ Cardinality(Members(s)) <= Len(s)
  BY <1>1, <1>2, FS_Surjection
<1> QED BY <1>3, FS_CardinalityType DEF Members

\* The registered modules are as many as the list has entries, at most.
LEMMA RegisteredFinite ==
    ASSUME modules \in Seq(Modules)
    PROVE  /\ Registered = Members(modules) /\ Registered \subseteq Modules
           /\ IsFiniteSet(Registered) /\ Cardinality(Registered) <= Len(modules)
           /\ Cardinality(Registered) \in Nat /\ Len(modules) \in Nat
           /\ \A S \in SUBSET Registered :
                IsFiniteSet(S) /\ Cardinality(S) \in Nat /\ Cardinality(S) <= Len(modules)
<1>1. Registered = Members(modules)
  BY DEF Registered, Members
<1>2. /\ Registered \subseteq Modules /\ Len(modules) \in Nat
      /\ IsFiniteSet(Registered) /\ Cardinality(Registered) <= Len(modules)
      /\ Cardinality(Registered) \in Nat
  BY <1>1, MembersFinite
<1>3. ASSUME NEW S \in SUBSET Registered
      PROVE  IsFiniteSet(S) /\ Cardinality(S) \in Nat /\ Cardinality(S) <= Len(modules)
  <2>1. IsFiniteSet(S) /\ Cardinality(S) <= Cardinality(Registered)
    BY <1>2, FS_Subset
  <2>2. Cardinality(S) \in Nat
    BY <2>1, FS_CardinalityType
  <2> QED BY <1>2, <2>1, <2>2
<1> QED BY <1>1, <1>2, <1>3

\* Appending adds one member,
LEMMA MembersAppend ==
    ASSUME NEW S, NEW s \in Seq(S), NEW x \in S
    PROVE  Members(Append(s, x)) = Members(s) \cup {x} /\ Append(s, x) \in Seq(S)
<1>1. /\ Append(s, x) \in Seq(S) /\ Len(s) \in Nat /\ Len(Append(s, x)) = Len(s) + 1
      /\ Append(s, x)[Len(s) + 1] = x /\ \A i \in 1..Len(s) : Append(s, x)[i] = s[i]
  OBVIOUS
<1>2. \A i \in 1..Len(s) + 1 : i \in 1..Len(s) \/ i = Len(s) + 1
  BY <1>1
<1>3. \A i \in 1..Len(s) : i \in 1..Len(s) + 1
  BY <1>1
<1>4. Len(s) + 1 \in 1..Len(s) + 1
  BY <1>1
<1> QED BY <1>1, <1>2, <1>3, <1>4 DEF Members

\* concatenating adds the members of both,
LEMMA MembersConcat ==
    ASSUME NEW S, NEW s \in Seq(S), NEW t \in Seq(S)
    PROVE  Members(s \o t) = Members(s) \cup Members(t) /\ s \o t \in Seq(S)
<1>1. s \o t \in Seq(S) /\ Len(s \o t) = Len(s) + Len(t)
  OBVIOUS
<1>2. \A i \in 1..Len(s) + Len(t) : (s \o t)[i] = IF i <= Len(s) THEN s[i] ELSE t[i - Len(s)]
  OBVIOUS
<1>3. \A i \in 1..Len(t) : (s \o t)[i + Len(s)] = t[i]
  OBVIOUS
<1>4. Members(s \o t) \subseteq Members(s) \cup Members(t)
  BY <1>1, <1>2 DEF Members
<1>5. Members(s) \subseteq Members(s \o t)
  BY <1>1, <1>2 DEF Members
<1>6. Members(t) \subseteq Members(s \o t)
  BY <1>1, <1>3 DEF Members
<1> QED BY <1>1, <1>4, <1>5, <1>6

\* and the members are the first and those of the rest.
LEMMA MembersTail ==
    ASSUME NEW S, NEW s \in Seq(S), s # <<>>
    PROVE  /\ Tail(s) \in Seq(S) /\ Head(s) \in S /\ Head(s) \in Members(s)
           /\ Members(s) = Members(Tail(s)) \cup {Head(s)}
<1>1. /\ Tail(s) \in Seq(S) /\ Len(s) \in Nat /\ Len(s) > 0 /\ Len(Tail(s)) = Len(s) - 1 /\ Head(s) = s[1]
      /\ \A i \in 1..Len(Tail(s)) : Tail(s)[i] = s[i + 1]
  OBVIOUS
<1>2. Members(s) \subseteq Members(Tail(s)) \cup {Head(s)}
  <2> SUFFICES ASSUME NEW i \in 1..Len(s), i # 1 PROVE s[i] \in Members(Tail(s))
    BY <1>1 DEF Members
  <2>1. i - 1 \in 1..Len(Tail(s)) /\ Tail(s)[i - 1] = s[i]
    BY <1>1
  <2> QED BY <2>1 DEF Members
<1>3. Members(Tail(s)) \cup {Head(s)} \subseteq Members(s)
  BY <1>1 DEF Members
<1> QED BY <1>1, <1>2, <1>3 DEF Members

\* No member occurs twice.
Distinct(s) == \A i, j \in 1..Len(s) : s[i] = s[j] => i = j

\* Appending a new member keeps them distinct,
LEMMA DistinctAppend ==
    ASSUME NEW S, NEW s \in Seq(S), NEW x \in S, Distinct(s), x \notin Members(s)
    PROVE  Distinct(Append(s, x))
BY DEF Distinct, Members

\* concatenating keeps them so where no member is shared,
LEMMA DistinctConcat ==
    ASSUME NEW S, NEW s \in Seq(S), NEW t \in Seq(S), Distinct(s), Distinct(t),
           Members(s) \cap Members(t) = {}
    PROVE  Distinct(s \o t)
<1>1. Len(s) \in Nat /\ Len(t) \in Nat /\ Len(s \o t) = Len(s) + Len(t)
  OBVIOUS
<1>2. \A i \in 1..Len(s) : (s \o t)[i] = s[i] /\ s[i] \in Members(s)
  BY DEF Members
<1>3. \A i \in Len(s) + 1..Len(s) + Len(t) :
        (s \o t)[i] = t[i - Len(s)] /\ t[i - Len(s)] \in Members(t) /\ i - Len(s) \in 1..Len(t)
  BY DEF Members
<1> SUFFICES ASSUME NEW i \in 1..Len(s) + Len(t), NEW j \in 1..Len(s) + Len(t),
                    (s \o t)[i] = (s \o t)[j]
             PROVE  i = j
  BY <1>1 DEF Distinct
<1>4. \A k \in 1..Len(s) + Len(t) : k \in 1..Len(s) \/ k \in Len(s) + 1..Len(s) + Len(t)
  BY <1>1
<1>5. CASE i \in 1..Len(s) /\ j \in 1..Len(s)
  BY <1>2, <1>5 DEF Distinct
<1>6. CASE i \in Len(s) + 1..Len(s) + Len(t) /\ j \in Len(s) + 1..Len(s) + Len(t)
  <2>1. i - Len(s) = j - Len(s)
    BY <1>3, <1>6 DEF Distinct
  <2> QED BY <1>1, <2>1
<1>7. CASE i \in 1..Len(s) /\ j \in Len(s) + 1..Len(s) + Len(t)
  BY <1>2, <1>3, <1>7
<1>8. CASE j \in 1..Len(s) /\ i \in Len(s) + 1..Len(s) + Len(t)
  BY <1>2, <1>3, <1>8
<1> QED BY <1>4, <1>5, <1>6, <1>7, <1>8

\* and the first does not occur in the rest.
LEMMA DistinctTail ==
    ASSUME NEW S, NEW s \in Seq(S), s # <<>>, Distinct(s)
    PROVE  Distinct(Tail(s)) /\ Head(s) \notin Members(Tail(s))
<1>1. /\ Len(s) \in Nat /\ Len(s) > 0 /\ Len(Tail(s)) = Len(s) - 1 /\ Head(s) = s[1]
      /\ \A i \in 1..Len(Tail(s)) : Tail(s)[i] = s[i + 1]
  OBVIOUS
<1>2. Distinct(Tail(s))
  <2> SUFFICES ASSUME NEW i \in 1..Len(Tail(s)), NEW j \in 1..Len(Tail(s)), Tail(s)[i] = Tail(s)[j]
               PROVE  i = j
    BY DEF Distinct
  <2>1. i + 1 \in 1..Len(s) /\ j + 1 \in 1..Len(s) /\ s[i + 1] = s[j + 1]
    BY <1>1
  <2>2. i + 1 = j + 1
    BY <2>1 DEF Distinct
  <2> QED BY <2>2
<1>3. ASSUME NEW i \in 1..Len(Tail(s)) PROVE Tail(s)[i] # Head(s)
  <2>1. i + 1 \in 1..Len(s) /\ 1 \in 1..Len(s) /\ i + 1 # 1
    BY <1>1
  <2> QED BY <1>1, <2>1 DEF Distinct
<1> QED BY <1>2, <1>3 DEF Members

-----------------------------------------------------------------------------
\* What the recursions of the supervisor compute.

\* The recursion of InIndexOrder.
IsPick(f, S) ==
    f = [i \in 0..Len(modules) |->
           IF i = 0 THEN <<>> ELSE IF modules[i] \in S THEN Append(f[i - 1], modules[i]) ELSE f[i - 1]]

\* InIndexOrder lists the registered modules of S, each once.
LEMMA IndexOrderIs ==
    ASSUME modules \in Seq(Modules), Distinct(modules), NEW S
    PROVE  /\ InIndexOrder(S) \in Seq(Modules) /\ Members(InIndexOrder(S)) = Registered \cap S
           /\ Distinct(InIndexOrder(S))
<1> DEFINE N == Len(modules)
           pick == CHOOSE f : IsPick(f, S)
           Q == Seq(Modules)
           G == [p \in (1..N) \X Q |->
                   IF modules[p[1]] \in S THEN Append(p[2], modules[p[1]]) ELSE p[2]]
<1>0. N \in Nat /\ \A i \in 1..N : modules[i] \in Modules
  OBVIOUS
<1>1. G \in [(1..N) \X Q -> Q]
  BY <1>0
<1>2. \E f : IsPick(f, S)
  <2>0. PICK f : Runs(f, Q, <<>>, N, G)
    <3>1. <<>> \in Q
      OBVIOUS
    <3> HIDE DEF G, Q, N
    <3> QED BY <1>0, <1>1, <3>1, RunExists
  <2>1. f \in [0..N -> Q] /\ f[0] = <<>> /\ \A n \in 1..N : f[n] = G[<<n, f[n - 1]>>]
    <3> HIDE DEF G, Q, N
    <3> QED BY <2>0 DEF Runs
  <2>2. \A n \in 1..N : f[n] = IF modules[n] \in S THEN Append(f[n - 1], modules[n]) ELSE f[n - 1]
    <3> SUFFICES ASSUME NEW n \in 1..N
                 PROVE  f[n] = IF modules[n] \in S THEN Append(f[n - 1], modules[n]) ELSE f[n - 1]
      OBVIOUS
    <3>1. <<n, f[n - 1]>> \in (1..N) \X Q
      <4>1. n - 1 \in 0..N
        BY <1>0
      <4> HIDE DEF Q, N, G
      <4> QED BY <2>1, <4>1
    <3> QED BY <2>1, <3>1
  <2>3. IsPick(f, S)
    <3> DEFINE g == [i \in 0..N |-> IF i = 0 THEN <<>> ELSE
                       IF modules[i] \in S THEN Append(f[i - 1], modules[i]) ELSE f[i - 1]]
    <3> HIDE DEF G, Q
    <3>0. f[0] = g[0] /\ \A i \in 1..N : f[i] = g[i]
      <4>1. 0 \in 0..N /\ \A i \in 1..N : i \in 0..N /\ i # 0
        BY <1>0
      <4>2. g[0] = <<>> /\ \A i \in 1..N : g[i] = IF modules[i] \in S THEN Append(f[i - 1], modules[i]) ELSE f[i - 1]
        BY <4>1
      <4> HIDE DEF g
      <4> QED BY <2>1, <2>2, <4>2
    <3>1. \A i \in 0..N : f[i] = g[i]
      <4>1. \A i \in 0..N : i = 0 \/ i \in 1..N
        BY <1>0
      <4> HIDE DEF g
      <4> QED BY <3>0, <4>1
    <3>2. f = g
      BY <2>1, <3>1
    <3> QED BY <3>2 DEF IsPick
  <2> QED BY <2>3
<1>3. IsPick(pick, S)
  BY <1>2
<1>4. InIndexOrder(S) = pick[N]
  BY DEF InIndexOrder, IsPick
<1> HIDE DEF pick, G
<1>5. /\ pick[0] = <<>>
      /\ \A n \in 0..N : n + 1 <= N =>
           pick[n + 1] = IF modules[n + 1] \in S THEN Append(pick[n], modules[n + 1]) ELSE pick[n]
  <2>1. \A i \in 0..N : pick[i] = IF i = 0 THEN <<>> ELSE
                            IF modules[i] \in S THEN Append(pick[i - 1], modules[i]) ELSE pick[i - 1]
    BY <1>3 DEF IsPick
  <2>2. pick[0] = <<>>
    BY <1>0, <2>1
  <2>3. ASSUME NEW n \in 0..N, n + 1 <= N
        PROVE  pick[n + 1] = IF modules[n + 1] \in S THEN Append(pick[n], modules[n + 1]) ELSE pick[n]
    <3>1. n + 1 \in 0..N /\ n + 1 # 0 /\ (n + 1) - 1 = n
      BY <1>0, <2>3
    <3> HIDE DEF N
    <3> QED BY <2>1, <3>1
  <2> QED BY <2>2, <2>3
<1> DEFINE T == {n \in 0..N : pick[n] \in Seq(Modules) /\ Distinct(pick[n])
                              /\ Members(pick[n]) = {modules[i] : i \in 1..n} \cap S}
<1>6. 0 \in T
  <2>1. Members(<<>>) = {} /\ {modules[i] : i \in 1..0} = {} /\ 0 \in 0..N
    BY <1>0 DEF Members
  <2>2. /\ pick[0] \in Seq(Modules) /\ Distinct(pick[0])
        /\ Members(pick[0]) = {modules[i] : i \in 1..0} \cap S
    BY <1>5, <2>1 DEF Distinct
  <2> HIDE DEF N
  <2> QED BY <2>1, <2>2
<1>7. ASSUME NEW n \in 0..N, n \in T, n + 1 <= N PROVE n + 1 \in T
  <2>0. /\ n + 1 \in 1..N /\ modules[n + 1] \in Modules /\ pick[n] \in Seq(Modules)
        /\ Members(pick[n]) = {modules[i] : i \in 1..n} \cap S /\ Distinct(pick[n])
    BY <1>0, <1>7
  <2>0a. modules[n + 1] \notin {modules[i] : i \in 1..n}
    BY <1>0, <2>0 DEF Distinct
  <2>1. {modules[i] : i \in 1..n + 1} = {modules[i] : i \in 1..n} \cup {modules[n + 1]}
    BY <1>0
  <2>2. CASE modules[n + 1] \in S
    <3>1. pick[n + 1] = Append(pick[n], modules[n + 1])
      BY <1>5, <1>7, <2>2
    <3>2. Members(pick[n + 1]) = Members(pick[n]) \cup {modules[n + 1]} /\ pick[n + 1] \in Seq(Modules)
      BY <2>0, <3>1, MembersAppend
    <3>3. Distinct(pick[n + 1])
      BY <2>0, <2>0a, <3>1, DistinctAppend
    <3> QED BY <1>0, <2>0, <2>1, <2>2, <3>2, <3>3
  <2>3. CASE modules[n + 1] \notin S
    <3>1. pick[n + 1] = pick[n]
      BY <1>5, <1>7, <2>3
    <3> QED BY <1>0, <2>0, <2>1, <2>3, <3>1
  <2> QED BY <2>2, <2>3
<1>8. 0..N \subseteq T
  <2> HIDE DEF T, N
  <2> QED BY <1>0, <1>6, <1>7, CountingTo
<1>9. N \in T
  <2>1. N \in 0..N
    BY <1>0
  <2> HIDE DEF T, N
  <2> QED BY <1>8, <2>1
<1> QED BY <1>4, <1>9 DEF Registered

\* CapabilityGraph: a set of participating modules.
LEMMA GraphIs ==
    ASSUME modules \in Seq(Modules)
    PROVE  Graph \subseteq Active
<1> DEFINE Conflicts(m, g) == \E p \in g : Provides[p] \cap Provides[m] # {}
           Add(m, g) == IF m \in Active /\ ~Conflicts(m, g) THEN g \cup {m} ELSE g
           N == Len(modules)
           Is(f) == f = [i \in 0..N |-> IF i = 0 THEN {} ELSE Add(modules[i], f[i - 1])]
           graph == CHOOSE f : Is(f)
           Q == SUBSET Active
           G == [p \in (1..N) \X Q |-> Add(modules[p[1]], p[2])]
<1>0. N \in Nat
  OBVIOUS
<1>1. \A m : \A g \in Q : Add(m, g) \in Q
  OBVIOUS
<1>2. Graph = graph[N]
  BY DEF Graph
<1> HIDE DEF Add, N, graph
<1>3. G \in [(1..N) \X Q -> Q]
  BY <1>1
<1>4. \E f : Is(f)
  <2>0. PICK f : Runs(f, Q, {}, N, G)
    <3>1. {} \in Q
      OBVIOUS
    <3> HIDE DEF G, Q
    <3> QED BY <1>0, <1>3, <3>1, RunExists
  <2>1. f \in [0..N -> Q] /\ f[0] = {} /\ \A n \in 1..N : f[n] = G[<<n, f[n - 1]>>]
    <3> HIDE DEF G, Q
    <3> QED BY <2>0 DEF Runs
  <2>2. ASSUME NEW n \in 1..N PROVE f[n] = Add(modules[n], f[n - 1])
    <3>1. <<n, f[n - 1]>> \in (1..N) \X Q
      BY <1>0, <2>1
    <3> QED BY <2>1, <3>1
  <2>3. Is(f)
    <3> HIDE DEF G, Q
    <3> QED BY <1>0, <2>1, <2>2
  <2> QED BY <2>3
<1>5. Is(graph)
  BY <1>4 DEF graph
<1>6. graph[0] = {} /\ \A n \in 0..N : n + 1 <= N => graph[n + 1] = Add(modules[n + 1], graph[n])
  <2>1. \A i \in 0..N : graph[i] = IF i = 0 THEN {} ELSE Add(modules[i], graph[i - 1])
    BY <1>5
  <2>2. graph[0] = {}
    BY <1>0, <2>1
  <2>3. ASSUME NEW n \in 0..N, n + 1 <= N PROVE graph[n + 1] = Add(modules[n + 1], graph[n])
    <3>1. n + 1 \in 0..N /\ n + 1 # 0 /\ (n + 1) - 1 = n
      BY <1>0, <2>3
    <3> QED BY <2>1, <3>1
  <2> QED BY <2>2, <2>3
<1> DEFINE T == {n \in 0..N : graph[n] \in Q}
<1>7. 0..N \subseteq T
  <2>1. 0 \in T /\ \A n \in 0..N : n \in T /\ n + 1 <= N => n + 1 \in T
    BY <1>0, <1>1, <1>6
  <2> HIDE DEF T
  <2> QED BY <1>0, <2>1, CountingTo
<1> QED BY <1>0, <1>2, <1>7

-----------------------------------------------------------------------------
\* The cycle check.

\* R is what m reaches: the least set that holds the bindings of m and of all its
\* members.
IsReach(R, m, active, graph) ==
    /\ R \subseteq active /\ Deps(m, active, graph) \subseteq R
    /\ \A p \in R : Deps(p, active, graph) \subseteq R
    /\ \A C \in SUBSET active :
         Deps(m, active, graph) \subseteq C /\ (\A p \in C : Deps(p, active, graph) \subseteq C)
           => R \subseteq C

\* As many steps as there are modules close the reach: a step that adds nothing
\* ends the growth, and each of the others adds a module.
LEMMA ReachIs ==
    ASSUME modules \in Seq(Modules), NEW active \in SUBSET Registered, NEW graph, NEW m
    PROVE  \E R : IsReach(R, m, active, graph) /\ (OnCycle(m, active, graph) <=> m \in R)
<1> DEFINE D(p) == Deps(p, active, graph)
           Widen(S) == S \cup UNION {D(p) : p \in S}
           N == Len(modules)
           Is(f) == f = [n \in 0..N |-> IF n = 0 THEN D(m) ELSE Widen(f[n - 1])]
           reach == CHOOSE f : Is(f)
           Q == SUBSET active
           G == [p \in (1..N) \X Q |-> Widen(p[2])]
<1>0. N \in Nat
  OBVIOUS
<1>1. \A p : D(p) \in Q
  BY DEF Deps
<1>2. OnCycle(m, active, graph) <=> m \in reach[N]
  BY DEF OnCycle
<1> HIDE DEF D, N, reach
<1>3. \A S \in Q : Widen(S) \in Q /\ S \subseteq Widen(S) /\ \A p \in S : D(p) \subseteq Widen(S)
  BY <1>1
<1>3a. \A S, C \in Q : S \subseteq C /\ (\A p \in C : D(p) \subseteq C) => Widen(S) \subseteq C
  OBVIOUS
<1> HIDE DEF Widen
<1>4. G \in [(1..N) \X Q -> Q]
  BY <1>3
<1>5. \E f : Is(f)
  <2>0. PICK f : Runs(f, Q, D(m), N, G)
    <3> HIDE DEF G, Q
    <3> QED BY <1>0, <1>1, <1>4, RunExists
  <2>1. f \in [0..N -> Q] /\ f[0] = D(m) /\ \A n \in 1..N : f[n] = G[<<n, f[n - 1]>>]
    <3> HIDE DEF G, Q
    <3> QED BY <2>0 DEF Runs
  <2>2. ASSUME NEW n \in 1..N PROVE f[n] = Widen(f[n - 1])
    <3>1. <<n, f[n - 1]>> \in (1..N) \X Q
      BY <1>0, <2>1
    <3> QED BY <2>1, <3>1
  <2>3. Is(f)
    <3> HIDE DEF G, Q
    <3> QED BY <1>0, <2>1, <2>2
  <2> QED BY <2>3
<1>6. Is(reach)
  BY <1>5 DEF reach
<1>7. reach[0] = D(m) /\ \A n \in 0..N : n + 1 <= N => reach[n + 1] = Widen(reach[n])
  <2>1. \A i \in 0..N : reach[i] = IF i = 0 THEN D(m) ELSE Widen(reach[i - 1])
    BY <1>6
  <2>2. reach[0] = D(m)
    BY <1>0, <2>1
  <2>3. ASSUME NEW n \in 0..N, n + 1 <= N PROVE reach[n + 1] = Widen(reach[n])
    <3>1. n + 1 \in 0..N /\ n + 1 # 0 /\ (n + 1) - 1 = n
      BY <1>0, <2>3
    <3> QED BY <2>1, <3>1
  <2> QED BY <2>2, <2>3
<1> HIDE DEF Q
<1>8. \A S \in Q : IsFiniteSet(S) /\ Cardinality(S) \in Nat /\ Cardinality(S) <= N
  BY RegisteredFinite DEF Q, N
\* What every step of the recursion keeps.
<1> DEFINE Closed(n) == Widen(reach[n]) = reach[n]
           T == {n \in 0..N : /\ reach[n] \in Q /\ D(m) \subseteq reach[n]
                              /\ \A C \in Q : D(m) \subseteq C /\ (\A p \in C : D(p) \subseteq C)
                                                => reach[n] \subseteq C
                              /\ Closed(n) \/ Cardinality(reach[n]) > n}
<1>9. 0 \in T
  <2>1. reach[0] = {} => Closed(0)
    BY <1>7 DEF Widen
  <2>2. reach[0] \in Q /\ (reach[0] # {} => Cardinality(reach[0]) > 0)
    BY <1>1, <1>7, <1>8, FS_EmptySet
  <2> QED BY <1>0, <1>7, <2>1, <2>2
<1>10. ASSUME NEW n \in 0..N, n \in T, n + 1 <= N PROVE n + 1 \in T
  <2>1. n + 1 \in 0..N /\ reach[n + 1] = Widen(reach[n]) /\ reach[n] \in Q
    BY <1>0, <1>7, <1>10
  <2>2. reach[n + 1] \in Q /\ reach[n] \subseteq reach[n + 1]
    BY <1>3, <2>1
  <2>3. ASSUME NEW C \in Q, D(m) \subseteq C, \A p \in C : D(p) \subseteq C PROVE reach[n + 1] \subseteq C
    BY <1>3a, <1>10, <2>1, <2>3
  <2>4. Closed(n + 1) \/ Cardinality(reach[n + 1]) > n + 1
    <3>1. CASE Closed(n)
      BY <2>1, <3>1
    <3>2. CASE ~Closed(n)
      <4>1. Cardinality(reach[n]) > n /\ reach[n + 1] # reach[n]
        BY <1>10, <2>1, <3>2
      <4>2. /\ Cardinality(reach[n]) <= Cardinality(reach[n + 1])
            /\ Cardinality(reach[n]) # Cardinality(reach[n + 1])
        BY <1>8, <2>2, <4>1, FS_Subset
      <4>3. Cardinality(reach[n]) \in Nat /\ Cardinality(reach[n + 1]) \in Nat
        BY <1>8, <2>1, <2>2
      <4> QED BY <4>1, <4>2, <4>3
    <3> QED BY <3>1, <3>2
  <2> QED BY <1>10, <2>1, <2>2, <2>3, <2>4
<1>11. N \in T
  <2>1. 0..N \subseteq T
    <3> HIDE DEF T
    <3> QED BY <1>0, <1>9, <1>10, CountingTo
  <2>2. N \in 0..N
    BY <1>0
  <2> HIDE DEF T
  <2> QED BY <2>1, <2>2
<1>12. Closed(N)
  BY <1>0, <1>8, <1>11
<1>13. \A p \in reach[N] : D(p) \subseteq reach[N]
  BY <1>3, <1>11, <1>12
<1>14. IsReach(reach[N], m, active, graph)
  BY <1>11, <1>13 DEF IsReach, D, Q
<1> QED BY <1>2, <1>14

\* A set of numbers has a least one.
LEMMA LeastNumber ==
    ASSUME NEW K \in SUBSET Nat, K # {}
    PROVE  \E k \in K : \A l \in K : k <= l
<1> SUFFICES ASSUME \A k \in K : \E l \in K : ~(k <= l) PROVE FALSE
  OBVIOUS
<1> DEFINE S == {n \in Nat : \A k \in K : n <= k}
<1>1. 0 \in S
  OBVIOUS
<1>2. ASSUME NEW n \in Nat, n \in S PROVE n + 1 \in S
  BY <1>2
<1>3. Nat \subseteq S
  <2> HIDE DEF S
  <2> QED BY <1>1, <1>2, CountingUp
<1>4. PICK k \in K : TRUE
  OBVIOUS
<1>5. k + 1 \in S
  BY <1>3, <1>4
<1> QED BY <1>4, <1>5

\* Where every module of a set is bound to one of them, the check finds a cycle:
\* a member of that set which reaches least is reached by a provider it shares
\* that reach with.
LEMMA CycleIsFound ==
    ASSUME modules \in Seq(Modules), NEW active \in SUBSET Registered, NEW graph,
           NEW Stuck \in SUBSET active, Stuck # {},
           \A m \in Stuck : Deps(m, active, graph) \cap Stuck # {}
    PROVE  \E m \in Stuck : OnCycle(m, active, graph)
<1> DEFINE Good(R, m) == IsReach(R, m, active, graph) /\ (OnCycle(m, active, graph) <=> m \in R)
           Of(m) == CHOOSE R : Good(R, m)
           K == {Cardinality(Of(m)) : m \in Stuck}
<1>1. \A m : Good(Of(m), m)
  <2> SUFFICES ASSUME NEW m PROVE Good(Of(m), m)
    OBVIOUS
  <2>1. \E R : Good(R, m)
    BY ReachIs
  <2> QED BY <2>1
<1> HIDE DEF Of
<1>2. IsFiniteSet(active)
  BY RegisteredFinite
<1>3. \A m : Of(m) \in SUBSET active /\ IsFiniteSet(Of(m)) /\ Cardinality(Of(m)) \in Nat
  BY <1>1, <1>2, FS_Subset, FS_CardinalityType DEF IsReach
<1>4. PICK m \in Stuck : \A n \in Stuck : Cardinality(Of(m)) <= Cardinality(Of(n))
  <2>1. K \in SUBSET Nat /\ K # {}
    BY <1>3
  <2>2. PICK k \in K : \A l \in K : k <= l
    <3> HIDE DEF K
    <3> QED BY <2>1, LeastNumber
  <2> QED BY <2>2
<1>5. PICK p \in Stuck : p \in Deps(m, active, graph)
  BY <1>4
<1>6. p \in Of(m) /\ Deps(p, active, graph) \subseteq Of(m)
  BY <1>1, <1>5 DEF IsReach
<1>7. Of(p) \subseteq Of(m)
  BY <1>1, <1>3, <1>6 DEF IsReach
<1>8. Cardinality(Of(p)) <= Cardinality(Of(m)) /\ (Cardinality(Of(m)) = Cardinality(Of(p)) => Of(m) = Of(p))
  BY <1>3, <1>7, FS_Subset
<1>9. Of(m) = Of(p)
  BY <1>3, <1>4, <1>5, <1>8
<1> QED BY <1>1, <1>5, <1>6, <1>9

-----------------------------------------------------------------------------
\* The dependency order.

\* Kahn's algorithm on a set of modules in which the check finds no cycle orders
\* every one of them: were some left, each would be bound to another one left.
LEMMA OrderIsTotal ==
    ASSUME modules \in Seq(Modules), Distinct(modules), NEW resolved \in SUBSET Registered, NEW graph,
           NEW active \in SUBSET resolved, \A m \in active : ~OnCycle(m, resolved, graph)
    PROVE  /\ DependencyOrder(active, graph) \in Seq(Modules)
           /\ Members(DependencyOrder(active, graph)) = active
<1> DEFINE D(m) == Deps(m, active, graph)
           Free(done) == {m \in active : D(m) \subseteq done}
           Release(done, m, queue) == queue \o InIndexOrder(Free(done \cup {m}) \ Free(done))
           Pop(r) ==
              IF r.queue = <<>> THEN r
              ELSE [queue |-> Release(Members(r.order), Head(r.queue), Tail(r.queue)),
                    order |-> Append(r.order, Head(r.queue))]
           N == Len(modules)
           first == [queue |-> InIndexOrder(Free({})), order |-> <<>>]
           Is(f) == f = [n \in 0..N |-> IF n = 0 THEN first ELSE Pop(f[n - 1])]
           run == CHOOSE f : Is(f)
           W == [queue : Seq(Modules), order : Seq(Modules)]
           Q == {r \in W : LET done == Members(r.order) IN
                             /\ done \subseteq Free(done) /\ Members(r.queue) = Free(done) \ done
                             /\ Distinct(r.queue)}
           G == [p \in (1..N) \X Q |-> Pop(p[2])]
<1>0. N \in Nat /\ active \in SUBSET Registered /\ active \subseteq Modules
  BY RegisteredFinite
<1>1. DependencyOrder(active, graph) = run[N].order
  BY DEF DependencyOrder, Members
<1> HIDE DEF D, N
<1>2. first \in Q
  <2>1. InIndexOrder(Free({})) \in Seq(Modules) /\ Members(InIndexOrder(Free({}))) = Free({})
        /\ Distinct(InIndexOrder(Free({})))
    BY <1>0, IndexOrderIs
  <2>2. first \in W
    BY <2>1
  <2>3. Members(first.order) = {} /\ first.queue = InIndexOrder(Free({}))
    BY DEF Members
  <2> HIDE DEF first, W
  <2> QED BY <2>1, <2>2, <2>3
<1> HIDE DEF first
<1>3. ASSUME NEW r \in Q, r.queue # <<>>
      PROVE  /\ Pop(r) \in Q /\ Head(r.queue) \notin Members(r.order)
             /\ Members(Pop(r).order) = Members(r.order) \cup {Head(r.queue)}
  <2> DEFINE m == Head(r.queue)
             done == Members(r.order)
             more == InIndexOrder(Free(done \cup {m}) \ Free(done))
  <2>1. /\ r.queue \in Seq(Modules) /\ r.order \in Seq(Modules)
        /\ done \subseteq Free(done) /\ Members(r.queue) = Free(done) \ done
        /\ Distinct(r.queue)
    OBVIOUS
  <2>2. /\ Tail(r.queue) \in Seq(Modules) /\ m \in Modules /\ m \in Members(r.queue)
        /\ Members(r.queue) = Members(Tail(r.queue)) \cup {m}
        /\ Distinct(Tail(r.queue)) /\ m \notin Members(Tail(r.queue))
    BY <1>3, <2>1, MembersTail, DistinctTail
  <2>3. more \in Seq(Modules) /\ Members(more) = Free(done \cup {m}) \ Free(done) /\ Distinct(more)
    BY <1>0, IndexOrderIs
  <2>4. Members(Tail(r.queue) \o more) = Members(Tail(r.queue)) \cup Members(more)
        /\ Tail(r.queue) \o more \in Seq(Modules)
    BY <2>2, <2>3, MembersConcat
  <2>4a. Distinct(Tail(r.queue) \o more)
    <3>1. Members(Tail(r.queue)) \cap Members(more) = {}
      BY <2>1, <2>2, <2>3
    <3> HIDE DEF more, m, done
    <3> QED BY <2>2, <2>3, <3>1, DistinctConcat
  <2>5. Members(Append(r.order, m)) = done \cup {m} /\ Append(r.order, m) \in Seq(Modules)
    BY <2>1, <2>2, MembersAppend
  <2>6. Pop(r) = [queue |-> Tail(r.queue) \o more, order |-> Append(r.order, m)]
    BY <1>3
  <2>6a. /\ Pop(r).queue = Tail(r.queue) \o more /\ Pop(r).order = Append(r.order, m) /\ Pop(r) \in W
    BY <2>4, <2>5, <2>6
  <2>7. m \in Free(done) /\ m \notin done
    BY <2>1, <2>2
  <2>8. Free(done) \subseteq Free(done \cup {m})
    OBVIOUS
  <2> HIDE DEF Pop, W, Free, done, m, more
  <2>9. done \cup {m} \subseteq Free(done \cup {m})
    BY <2>1, <2>7, <2>8
  <2>10. Members(Pop(r).queue) = Free(done \cup {m}) \ (done \cup {m})
    BY <2>1, <2>2, <2>3, <2>4, <2>6a, <2>7, <2>8, <2>9
  <2>11. Members(Pop(r).order) = done \cup {m}
    BY <2>5, <2>6a
  <2>12. Pop(r) \in Q
    BY <2>4a, <2>6a, <2>9, <2>10, <2>11
  <2> QED BY <2>7, <2>11, <2>12 DEF done, m
<1>4. \A r \in Q : Pop(r) \in Q
  <2> SUFFICES ASSUME NEW r \in Q, r.queue = <<>> PROVE Pop(r) = r
    BY <1>3
  <2> QED OBVIOUS
<1> HIDE DEF Pop, run
<1>5. G \in [(1..N) \X Q -> Q]
  <2> HIDE DEF Q
  <2> QED BY <1>4
<1>6. \E f : Is(f)
  <2>0. PICK f : Runs(f, Q, first, N, G)
    <3> HIDE DEF G, Q
    <3> QED BY <1>0, <1>2, <1>5, RunExists
  <2>1. f \in [0..N -> Q] /\ f[0] = first /\ \A n \in 1..N : f[n] = G[<<n, f[n - 1]>>]
    <3> HIDE DEF G, Q
    <3> QED BY <2>0 DEF Runs
  <2>2. ASSUME NEW n \in 1..N PROVE f[n] = Pop(f[n - 1])
    <3> HIDE DEF Q
    <3>1. <<n, f[n - 1]>> \in (1..N) \X Q
      BY <1>0, <2>1
    <3> QED BY <2>1, <3>1
  <2>3. Is(f)
    <3> HIDE DEF G, Q
    <3> QED BY <1>0, <2>1, <2>2
  <2> QED BY <2>3
<1>7. Is(run)
  BY <1>6 DEF run
<1>8. run[0] = first /\ \A n \in 0..N : n + 1 <= N => run[n + 1] = Pop(run[n])
  <2>1. \A i \in 0..N : run[i] = IF i = 0 THEN first ELSE Pop(run[i - 1])
    BY <1>7
  <2>2. run[0] = first
    BY <1>0, <2>1
  <2>3. ASSUME NEW n \in 0..N, n + 1 <= N PROVE run[n + 1] = Pop(run[n])
    <3>1. n + 1 \in 0..N /\ n + 1 # 0 /\ (n + 1) - 1 = n
      BY <1>0, <2>3
    <3> QED BY <2>1, <3>1
  <2> QED BY <2>2, <2>3
<1> DEFINE Done(r) == Members(r.order)
           T == {n \in 0..N : run[n] \in Q /\ (run[n].queue = <<>> \/ Cardinality(Done(run[n])) >= n)}
<1>9. \A r \in Q : Done(r) \subseteq active
  OBVIOUS
<1>10. \A r \in Q : r.queue # <<>> => /\ Head(r.queue) \notin Done(r)
                                     /\ Done(Pop(r)) = Done(r) \cup {Head(r.queue)}
  <2> HIDE DEF Q
  <2> QED BY <1>3
<1>11. \A r \in Q : r.queue = <<>> => Pop(r) = r
  BY DEF Pop
<1>12. ASSUME NEW r \in Q
       PROVE  /\ IsFiniteSet(Done(r)) /\ Cardinality(Done(r)) \in Nat /\ Cardinality(Done(r)) <= N
  <2>1. Done(r) \in SUBSET Registered
    BY <1>0, <1>9
  <2> HIDE DEF Q, Done
  <2> QED BY <2>1, RegisteredFinite DEF N
<1>13. N \in T
  <2>1. 0 \in T
    <3> HIDE DEF Q, Done
    <3> QED BY <1>0, <1>2, <1>8, <1>12
  <2>2. ASSUME NEW n \in 0..N, n \in T, n + 1 <= N PROVE n + 1 \in T
    <3>1. run[n] \in Q /\ run[n + 1] = Pop(run[n]) /\ run[n + 1] \in Q /\ n + 1 \in 0..N
      <4> HIDE DEF Q, Done
      <4> QED BY <1>0, <1>4, <1>8, <2>2
    <3>2. CASE run[n].queue = <<>>
      <4> HIDE DEF Q, Done
      <4> QED BY <1>11, <3>1, <3>2
    <3>3. CASE run[n].queue # <<>>
      <4> HIDE DEF Q, Done
      <4>1. Cardinality(Done(run[n])) >= n
        BY <2>2, <3>3
      <4>2. Cardinality(Done(run[n + 1])) = Cardinality(Done(run[n])) + 1
        BY <1>10, <1>12, <3>1, <3>3, FS_AddElement
      <4>3. Cardinality(Done(run[n])) \in Nat
        BY <1>12, <3>1
      <4>4. Cardinality(Done(run[n + 1])) >= n + 1
        BY <4>1, <4>2, <4>3
      <4> QED BY <3>1, <4>4
    <3> QED BY <3>2, <3>3
  <2>3. 0..N \subseteq T
    <3> HIDE DEF T
    <3> QED BY <1>0, <2>1, <2>2, CountingTo
  <2>4. N \in 0..N
    BY <1>0
  <2> HIDE DEF T
  <2> QED BY <2>3, <2>4
<1> DEFINE last == run[N]
           done == Done(last)
<1>14. last \in Q /\ (last.queue = <<>> \/ Cardinality(done) >= N)
  <2> HIDE DEF Q, Done
  <2> QED BY <1>13
<1>15. last.order \in Seq(Modules) /\ done \subseteq active
  BY <1>14
<1>16. active \subseteq done
  <2>1. CASE last.queue = <<>>
    <3> DEFINE Stuck == active \ done
    <3>1. Free(done) \subseteq done
      <4>1. Members(<<>>) = {}
        BY DEF Members
      <4>2. Members(last.queue) = Free(done) \ done
        BY <1>14
      <4> HIDE DEF Free, done, last
      <4> QED BY <2>1, <4>1, <4>2
    <3>2. ASSUME NEW m \in Stuck PROVE Deps(m, resolved, graph) \cap Stuck # {}
      <4>1. ~(D(m) \subseteq done)
        BY <3>1, <3>2
      <4>2. PICK p \in D(m) : p \notin done
        BY <4>1
      <4>3. p \in active /\ p \in Deps(m, resolved, graph)
        BY <3>2, <4>2 DEF D, Deps
      <4> QED BY <4>2, <4>3
    <3>3. Stuck \in SUBSET resolved /\ \A m \in Stuck : ~OnCycle(m, resolved, graph)
      OBVIOUS
    <3> HIDE DEF Stuck
    <3>4. Stuck = {}
      BY <3>2, <3>3, CycleIsFound
    <3> QED BY <3>4 DEF Stuck
  <2>2. CASE Cardinality(done) >= N
    <3>1. IsFiniteSet(active) /\ Cardinality(active) <= N /\ Cardinality(active) \in Nat
      BY <1>0, RegisteredFinite DEF N
    <3>2. Cardinality(done) \in Nat /\ Cardinality(done) <= N
      <4> HIDE DEF Q, Done
      <4> QED BY <1>12, <1>14
    <3> HIDE DEF done
    <3>3. Cardinality(done) <= Cardinality(active) /\ (Cardinality(active) = Cardinality(done) => active = done)
      BY <1>15, <3>1, FS_Subset
    <3> QED BY <1>0, <2>2, <3>1, <3>2, <3>3
  <2> QED BY <1>14, <2>1, <2>2
<1> QED BY <1>1, <1>15, <1>16

-----------------------------------------------------------------------------
\* The shutdown order.

\* Priority and identity order the modules: of every set one stops first.
LEMMA FirstIs ==
    ASSUME NEW S \in SUBSET Modules, S # {}
    PROVE  First(S) \in S
<1> DEFINE Leads(m, T) == T \ {m} \subseteq Before[m]
           A == {T \in SUBSET S : T = {} \/ \E m \in T : Leads(m, T)}
<1>0. /\ IsFiniteSet(Modules)
      /\ \A a, b \in Modules : a # b => (b \in Before[a] <=> a \notin Before[b])
      /\ \A a, b, c \in Modules : b \in Before[a] /\ c \in Before[b] => c \in Before[a]
  BY DescriptorAssumption
<1>1. IsFiniteSet(S)
  BY <1>0, FS_Subset
<1>2. ASSUME NEW T \in SUBSET S, NEW x \in S, T \in A, x \notin T PROVE T \cup {x} \in A
  <2>1. CASE T = {}
    BY <2>1
  <2>2. CASE T # {}
    <3>1. PICK m \in T : Leads(m, T)
      BY <1>2, <2>2
    <3>2. m # x /\ m \in Modules /\ x \in Modules
      BY <1>2
    <3>3. CASE x \in Before[m]
      <4>1. Leads(m, T \cup {x})
        BY <3>1, <3>3
      <4> QED BY <4>1
    <3>4. CASE m \in Before[x]
      <4>1. Leads(x, T \cup {x})
        BY <1>0, <1>2, <3>1, <3>2, <3>4
      <4> QED BY <4>1
    <3> QED BY <1>0, <3>2, <3>3, <3>4
  <2> QED BY <2>1, <2>2
<1>3. S \in A
  <2>1. Grows(A, S)
    BY <1>2 DEF Grows
  <2> HIDE DEF A
  <2> QED BY <1>1, <2>1, AddingUp
<1>4. \E m \in S : S \ {m} \subseteq Before[m]
  BY <1>3
<1> QED BY <1>4 DEF First

\* m has a user among S, by the bindings b.
Used(b, m, S) == \E c \in S \ {m} : b[c] # Unresolved /\ m \in b[c]

\* next_shutdown_module takes a module without a user, unless all have one.
LEMMA NextShutdownIs ==
    ASSUME NEW left \in SUBSET Modules, left # {}
    PROVE  /\ NextShutdown(left) \in left
           /\ Used(resolution, NextShutdown(left), left) => \A m \in left : Used(resolution, m, left)
<1> DEFINE leaves == {m \in left : {c \in left \ {m} : BoundTo(c, m)} = {}}
<1>1. NextShutdown(left) = First(IF leaves = {} THEN left ELSE leaves)
  BY DEF NextShutdown
<1>2. \A m \in left : m \in leaves <=> ~Used(resolution, m, left)
  BY DEF Used, BoundTo
<1> HIDE DEF leaves
<1>3. CASE leaves = {}
  BY <1>1, <1>2, <1>3, FirstIs
<1>4. CASE leaves # {}
  <2>1. leaves \subseteq left
    BY DEF leaves
  <2>2. First(leaves) \in leaves
    BY <1>4, <2>1, FirstIs
  <2> QED BY <1>1, <1>2, <1>4, <2>1, <2>2
<1> QED BY <1>3, <1>4

\* What stops from the i-th place on, and what is left then.
Later(s, i) == {s[j] : j \in i..Len(s)}

\* A module of s stops before a user only where every module left then has one.
Orderly(b, s, left) ==
    \A i \in 1..Len(s) :
        Used(b, s[i], Later(s, i) \cup left) =>
            \A m \in Later(s, i) \cup left : Used(b, m, Later(s, i) \cup left)

\* The order stays orderly as the module chosen next is appended,
LEMMA OrderlyAppend ==
    ASSUME NEW S, NEW s \in Seq(S), NEW left \in SUBSET S, NEW x \in left, Orderly(resolution, s, left),
           Used(resolution, x, left) => \A m \in left : Used(resolution, m, left)
    PROVE  Orderly(resolution, Append(s, x), left \ {x})
<1> DEFINE t == Append(s, x)
<1>1. /\ Len(s) \in Nat /\ Len(t) = Len(s) + 1 /\ t[Len(s) + 1] = x
      /\ \A i \in 1..Len(s) : t[i] = s[i]
  OBVIOUS
<1> HIDE DEF t
<1> SUFFICES ASSUME NEW i \in 1..Len(t)
             PROVE  Used(resolution, t[i], Later(t, i) \cup (left \ {x})) =>
                      \A m \in Later(t, i) \cup (left \ {x}) : Used(resolution, m, Later(t, i) \cup (left \ {x}))
  BY DEF Orderly, t
<1>2. CASE i \in 1..Len(s)
  <2>1. Later(t, i) = Later(s, i) \cup {x}
    <3>1. \A j \in i..Len(t) : j \in i..Len(s) \/ j = Len(s) + 1
      BY <1>1, <1>2
    <3>2. \A j \in i..Len(s) : t[j] = s[j] /\ j \in i..Len(t)
      BY <1>1, <1>2
    <3>3. Len(s) + 1 \in i..Len(t)
      BY <1>1, <1>2
    <3> QED BY <1>1, <3>1, <3>2, <3>3 DEF Later
  <2>2. Later(t, i) \cup (left \ {x}) = Later(s, i) \cup left
    BY <2>1
  <2>3. t[i] = s[i]
    BY <1>1, <1>2
  <2> QED BY <1>2, <2>2, <2>3 DEF Orderly
<1>3. CASE i = Len(s) + 1
  <2>1. Later(t, i) = {x}
    <3>1. \A j \in i..Len(t) : j = Len(s) + 1
      BY <1>1, <1>3
    <3>2. i \in i..Len(t)
      BY <1>1, <1>3
    <3> QED BY <1>1, <1>3, <3>1, <3>2 DEF Later
  <2>2. Later(t, i) \cup (left \ {x}) = left /\ t[i] = x
    BY <1>1, <1>3, <2>1
  <2> QED BY <2>2
<1>4. i \in 1..Len(s) \/ i = Len(s) + 1
  BY <1>1
<1> QED BY <1>2, <1>3, <1>4

\* and as its first module stops.
LEMMA OrderlyTail ==
    ASSUME NEW S, NEW s \in Seq(S), s # <<>>, Orderly(resolution, s, {})
    PROVE  Orderly(resolution, Tail(s), {})
<1> DEFINE t == Tail(s)
<1>1. /\ Len(s) \in Nat /\ Len(s) > 0 /\ Len(t) = Len(s) - 1
      /\ \A i \in 1..Len(t) : t[i] = s[i + 1]
  OBVIOUS
<1> HIDE DEF t
<1> SUFFICES ASSUME NEW i \in 1..Len(t)
             PROVE  Used(resolution, t[i], Later(t, i) \cup {}) =>
                      \A m \in Later(t, i) \cup {} : Used(resolution, m, Later(t, i) \cup {})
  BY DEF Orderly, t
<1>2. i + 1 \in 1..Len(s) /\ t[i] = s[i + 1]
  BY <1>1
<1>3. Later(t, i) = Later(s, i + 1)
  <2>1. \A j \in i..Len(t) : j + 1 \in i + 1..Len(s) /\ t[j] = s[j + 1]
    BY <1>1
  <2>2. \A j \in i + 1..Len(s) : j - 1 \in i..Len(t) /\ t[j - 1] = s[j]
    BY <1>1
  <2> QED BY <2>1, <2>2 DEF Later
<1> QED BY <1>2, <1>3 DEF Orderly

\* shutdown_order visits every module that holds a handle once, users first.
LEMMA ShutdownOrderIs ==
    ASSUME modules \in Seq(Modules)
    PROVE  /\ ShutdownOrder \in Seq(Modules) /\ Distinct(ShutdownOrder) /\ Orderly(resolution, ShutdownOrder, {})
           /\ Members(ShutdownOrder) = {m \in Registered : handle[m]}
<1> DEFINE all == {m \in Registered : handle[m]}
           Pop(r) ==
              IF r.left = {} THEN r
              ELSE [left |-> r.left \ {NextShutdown(r.left)},
                    order |-> Append(r.order, NextShutdown(r.left))]
           N == Len(modules)
           first == [left |-> all, order |-> <<>>]
           Is(f) == f = [n \in 0..N |-> IF n = 0 THEN first ELSE Pop(f[n - 1])]
           run == CHOOSE f : Is(f)
           W == [left : SUBSET all, order : Seq(Modules)]
           Q == {r \in W : /\ Distinct(r.order) /\ Orderly(resolution, r.order, r.left)
                           /\ Members(r.order) \cap r.left = {} /\ Members(r.order) \cup r.left = all}
           G == [p \in (1..N) \X Q |-> Pop(p[2])]
<1>0. N \in Nat /\ all \in SUBSET Modules /\ all \in SUBSET Registered
  BY RegisteredFinite
<1>1. ShutdownOrder = run[N].order
  BY DEF ShutdownOrder
<1> HIDE DEF N, all
<1>2. first \in Q
  <2>1. first \in W /\ first.order = <<>> /\ first.left = all
    OBVIOUS
  <2>2. Members(<<>>) = {} /\ Distinct(<<>>) /\ Orderly(resolution, <<>>, all)
    BY DEF Members, Distinct, Orderly
  <2> HIDE DEF first, W
  <2> QED BY <2>1, <2>2
<1> HIDE DEF first
<1>3. ASSUME NEW r \in Q, r.left # {}
      PROVE  Pop(r) \in Q /\ \E m \in r.left : Pop(r).left = r.left \ {m}
  <2> DEFINE m == NextShutdown(r.left)
  <2>1. /\ r.left \in SUBSET all /\ r.left \in SUBSET Modules /\ r.order \in Seq(Modules)
        /\ Distinct(r.order) /\ Orderly(resolution, r.order, r.left)
        /\ Members(r.order) \cap r.left = {} /\ Members(r.order) \cup r.left = all
    BY <1>0
  <2>2. m \in r.left /\ m \in Modules /\ (Used(resolution, m, r.left) => \A q \in r.left : Used(resolution, q, r.left))
    BY <1>3, <2>1, NextShutdownIs
  <2>3. Pop(r) = [left |-> r.left \ {m}, order |-> Append(r.order, m)]
    BY <1>3
  <2> HIDE DEF m
  <2>4. Members(Append(r.order, m)) = Members(r.order) \cup {m} /\ Append(r.order, m) \in Seq(Modules)
    BY <2>1, <2>2, MembersAppend
  <2>5. Distinct(Append(r.order, m))
    BY <2>1, <2>2, DistinctAppend
  <2>6. Orderly(resolution, Append(r.order, m), r.left \ {m})
    BY <2>1, <2>2, OrderlyAppend
  <2>7. Pop(r).left = r.left \ {m} /\ Pop(r).order = Append(r.order, m) /\ Pop(r) \in W
    BY <2>1, <2>3, <2>4
  <2> HIDE DEF Pop, W
  <2>8. Pop(r) \in Q
    BY <2>1, <2>2, <2>4, <2>5, <2>6, <2>7
  <2> QED BY <2>2, <2>7, <2>8
<1>4. \A r \in Q : r.left = {} => Pop(r) = r
  OBVIOUS
<1> HIDE DEF Pop, run
<1>5. \A r \in Q : Pop(r) \in Q
  <2> HIDE DEF Q
  <2> QED BY <1>3, <1>4
<1>6. \A r \in Q : /\ r.left \in SUBSET Registered /\ r.order \in Seq(Modules)
                   /\ Distinct(r.order) /\ Orderly(resolution, r.order, r.left)
                   /\ Members(r.order) \cup r.left = all
  BY <1>0
<1> HIDE DEF Q
<1>7. G \in [(1..N) \X Q -> Q]
  BY <1>5
<1>8. \E f : Is(f)
  <2>0. PICK f : Runs(f, Q, first, N, G)
    <3> HIDE DEF G
    <3> QED BY <1>0, <1>2, <1>7, RunExists
  <2>1. f \in [0..N -> Q] /\ f[0] = first /\ \A n \in 1..N : f[n] = G[<<n, f[n - 1]>>]
    <3> HIDE DEF G
    <3> QED BY <2>0 DEF Runs
  <2>2. ASSUME NEW n \in 1..N PROVE f[n] = Pop(f[n - 1])
    <3>1. <<n, f[n - 1]>> \in (1..N) \X Q
      BY <1>0, <2>1
    <3> QED BY <2>1, <3>1
  <2>3. Is(f)
    <3> HIDE DEF G
    <3> QED BY <1>0, <2>1, <2>2
  <2> QED BY <2>3
<1>9. Is(run)
  BY <1>8 DEF run
<1>10. run[0] = first /\ \A n \in 0..N : n + 1 <= N => run[n + 1] = Pop(run[n])
  <2>1. \A i \in 0..N : run[i] = IF i = 0 THEN first ELSE Pop(run[i - 1])
    BY <1>9
  <2>2. run[0] = first
    BY <1>0, <2>1
  <2>3. ASSUME NEW n \in 0..N, n + 1 <= N PROVE run[n + 1] = Pop(run[n])
    <3>1. n + 1 \in 0..N /\ n + 1 # 0 /\ (n + 1) - 1 = n
      BY <1>0, <2>3
    <3> QED BY <2>1, <3>1
  <2> QED BY <2>2, <2>3
<1>11. \A r \in Q : /\ IsFiniteSet(r.left) /\ Cardinality(r.left) \in Nat /\ Cardinality(r.left) <= N
  BY <1>6, RegisteredFinite DEF N
<1> DEFINE T == {n \in 0..N : run[n] \in Q /\ (run[n].left = {} \/ Cardinality(run[n].left) + n <= N)}
<1>12. N \in T
  <2>1. 0 \in T
    BY <1>0, <1>2, <1>10, <1>11
  <2>2. ASSUME NEW n \in 0..N, n \in T, n + 1 <= N PROVE n + 1 \in T
    <3>1. run[n] \in Q /\ run[n + 1] = Pop(run[n]) /\ run[n + 1] \in Q /\ n + 1 \in 0..N
      BY <1>0, <1>5, <1>10, <2>2
    <3>2. CASE run[n].left = {}
      BY <1>4, <3>1, <3>2
    <3>3. CASE run[n].left # {}
      <4>1. Cardinality(run[n].left) + n <= N
        BY <2>2, <3>3
      <4>2. PICK m \in run[n].left : run[n + 1].left = run[n].left \ {m}
        BY <1>3, <3>1, <3>3
      <4>3. Cardinality(run[n + 1].left) = Cardinality(run[n].left) - 1
        <5>1. IsFiniteSet(run[n].left)
          BY <1>11, <3>1
        <5> QED BY <4>2, <5>1, FS_RemoveElement
      <4>4. Cardinality(run[n].left) \in Nat
        BY <1>11, <3>1
      <4>5. Cardinality(run[n + 1].left) + (n + 1) <= N
        BY <1>0, <4>1, <4>3, <4>4
      <4> QED BY <3>1, <4>5
    <3> QED BY <3>2, <3>3
  <2>3. 0..N \subseteq T
    <3> HIDE DEF T
    <3> QED BY <1>0, <2>1, <2>2, CountingTo
  <2>4. N \in 0..N
    BY <1>0
  <2> HIDE DEF T
  <2> QED BY <2>3, <2>4
<1>13. run[N] \in Q /\ run[N].left = {}
  <2>1. run[N] \in Q /\ (run[N].left = {} \/ Cardinality(run[N].left) + N <= N)
    BY <1>12
  <2>2. Cardinality(run[N].left) \in Nat /\ IsFiniteSet(run[N].left)
    BY <1>11, <2>1
  <2>3. CASE Cardinality(run[N].left) + N <= N
    <3>1. Cardinality(run[N].left) = 0
      BY <1>0, <2>2, <2>3
    <3> QED BY <2>1, <2>2, <3>1, FS_EmptySet
  <2> QED BY <2>1, <2>3
<1> QED BY <1>1, <1>6, <1>13 DEF all

-----------------------------------------------------------------------------
\* The inductive invariant.

Serving == {"Starting", "Ready", "Degraded"}

\* Who owns the instance of m: a handle excludes workers, and a worker is only left
\* behind for a module that is out of service.
Slot(m) ==
    /\ handle[m] => /\ instance[m] = "live" /\ state[m] \in Serving \cup {"Unavailable"}
                    /\ \A w \in detached : w.module # m
    /\ \A w \in detached : w.module = m => state[m] = "Unavailable"
    /\ state[m] \in Serving => handle[m]
    /\ instance[m] = "live" =>
         handle[m] \/ \E w \in detached : w.module = m /\ w.op \in {"health", "shutdown"}
    /\ m \notin Registered => state[m] = "absent"

Slots == \A m \in Modules : Slot(m)

\* What validation has yet to visit is still in its loop.
Verdicts ==
    \A m \in Registered : state[m] = "Discovered" =>
        /\ call.phase # "start"
        /\ call.phase \in {"validate", "validate_start"} => m \in Members(call.todo)

StopOrder == call.phase = "shutdown" => Distinct(call.todo) /\ Orderly(resolution, call.todo, {})

LifecycleIInv ==
    /\ LifecycleTypeOK /\ Distinct(modules)
    /\ Slots /\ OneDetachedWorker /\ Verdicts /\ StopOrder

\* The invariant holds before a module is registered.
LEMMA LifecycleStarts ==
    ASSUME LifecycleInit
    PROVE  LifecycleIInv
<1>1. LifecycleTypeOK
  <2>1. descriptors \in Descriptors /\ modules \in Seq(Modules) /\ order \in Seq(Modules) /\ detached \subseteq Worker
    BY DEF LifecycleInit
  <2>2. call \in [phase : Phases, todo : Seq(Modules)]
    BY DEF LifecycleInit, Idle, Phases
  <2>7. rootCancelled \in BOOLEAN
    BY DEF LifecycleInit
  <2>3. state \in [Modules -> ModuleState] /\ instance \in [Modules -> {"none", "live", "retired"}]
    BY DEF LifecycleInit, ModuleState
  <2>4. handle \in [Modules -> BOOLEAN] /\ moduleCancelled \in [Modules -> BOOLEAN]
    BY DEF LifecycleInit
  <2>5. generation \in [Modules -> Nat]
    BY DEF LifecycleInit
  <2>6. resolution \in [Modules -> (SUBSET Modules) \cup {Unresolved}]
    BY DEF LifecycleInit
  <2> QED BY <2>1, <2>2, <2>3, <2>4, <2>5, <2>6, <2>7 DEF LifecycleTypeOK
<1>2. Distinct(modules) /\ Registered = {}
  BY DEF LifecycleInit, Distinct, Registered
<1>3. Slots
  BY <1>2 DEF LifecycleInit, Slots, Slot, Serving
<1>4. OneDetachedWorker /\ Verdicts /\ StopOrder
  BY <1>2 DEF LifecycleInit, OneDetachedWorker, Verdicts, StopOrder, Idle
<1> QED BY <1>1, <1>2, <1>3, <1>4 DEF LifecycleIInv

\* A step of a loop leaves the modules after the first.
LEMMA VisitIs ==
    ASSUME LifecycleTypeOK, call.todo # <<>>, Visit(Rest)
    PROVE  /\ Head(call.todo) \in Modules /\ Rest \in Seq(Modules)
           /\ call'.phase = call.phase /\ call'.todo = Rest
           /\ call' \in [phase : Phases, todo : Seq(Modules)]
           /\ Members(call.todo) = Members(Rest) \cup {Head(call.todo)}
<1>1. call \in [phase : Phases, todo : Seq(Modules)] /\ call.todo \in Seq(Modules)
  BY DEF LifecycleTypeOK
<1>2. /\ Rest \in Seq(Modules) /\ Head(call.todo) \in Modules
      /\ Members(call.todo) = Members(Rest) \cup {Head(call.todo)}
  BY <1>1, MembersTail DEF Rest
<1> QED BY <1>1, <1>2 DEF Visit

\* Steps that neither bind modules nor replace the loop of the call.
LEMMA StopOrderKeeps ==
    ASSUME LifecycleIInv, resolution' = resolution,
           \/ call' = call
           \/ call'.phase # "shutdown"
           \/ call.todo # <<>> /\ call'.phase = call.phase /\ call'.todo = Rest
    PROVE  StopOrder'
<1>1. call.todo \in Seq(Modules) /\ StopOrder
  BY DEF LifecycleIInv, LifecycleTypeOK
<1>2. CASE call' = call
  BY <1>1, <1>2 DEF StopOrder
<1>3. CASE call'.phase # "shutdown"
  BY <1>3 DEF StopOrder
<1>4. CASE call.todo # <<>> /\ call'.phase = call.phase /\ call'.todo = Rest
  <2> SUFFICES ASSUME call.phase = "shutdown" PROVE (Distinct(call.todo) /\ Orderly(resolution, call.todo, {}))'
    BY <1>4 DEF StopOrder
  <2>1. Distinct(Rest)
    BY <1>1, <1>4, DistinctTail DEF StopOrder, Rest
  <2>2. Orderly(resolution, Rest, {})
    BY <1>1, <1>4, OrderlyTail DEF StopOrder, Rest
  <2> QED BY <1>4, <2>1, <2>2
<1> QED BY <1>2, <1>3, <1>4

\* register adds a module that nobody owns and no worker works for.
LEMMA RegisterKeeps ==
    ASSUME LifecycleIInv, NEW m \in Modules, Register(m)
    PROVE  LifecycleIInv'
<1> USE DEF Register
<1>0. /\ LifecycleTypeOK /\ Distinct(modules) /\ Slots /\ OneDetachedWorker /\ Registered = Members(modules)
      /\ modules \in Seq(Modules) /\ state[m] = "absent" /\ (\A w \in detached : w.module # m) /\ ~handle[m]
  BY RegisteredFinite DEF LifecycleIInv, LifecycleTypeOK, Slots, Slot, Serving
<1>1. LifecycleTypeOK'
  BY <1>0 DEF LifecycleTypeOK, ModuleState
<1>2. Distinct(modules)'
  BY <1>0, DistinctAppend DEF Distinct
<1>3. Registered' = Registered \cup {m}
  <2>1. Registered' = Members(modules') /\ Members(modules') = Members(modules) \cup {m}
    BY <1>0, MembersAppend DEF Registered, Members
  <2> QED BY <1>0, <2>1
<1>4. Slots'
  <2> SUFFICES ASSUME NEW n \in Modules PROVE Slot(n)'
    BY DEF Slots
  <2>1. Slot(n)
    BY <1>0 DEF Slots
  <2>2. CASE n = m
    BY <1>0, <1>3, <2>1, <2>2 DEF Slot, Serving, LifecycleTypeOK
  <2>3. CASE n # m
    <3>1. state'[n] = state[n]
      BY <1>0, <2>3 DEF LifecycleTypeOK
    <3> QED BY <1>3, <2>1, <2>3, <3>1 DEF Slot
  <2> QED BY <2>2, <2>3
<1>5. OneDetachedWorker'
  BY <1>0 DEF OneDetachedWorker
<1>6. Verdicts'
  BY DEF Verdicts, Idle
<1>7. StopOrder'
  BY StopOrderKeeps
<1> QED BY <1>1, <1>2, <1>4, <1>5, <1>6, <1>7 DEF LifecycleIInv

\* Every module that is not rejected is in the order that validation follows.
LEMMA BeginValidateKeeps ==
    ASSUME LifecycleIInv, NEW phase \in {"validate", "validate_start"}, BeginValidate(phase)
    PROVE  LifecycleIInv'
<1> DEFINE graph == Graph
           resolved == {m \in graph : Resolves(m, graph)}
           acyclic == {m \in resolved : ~OnCycle(m, resolved, graph)}
<1>0. /\ LifecycleTypeOK /\ Distinct(modules) /\ Slots /\ OneDetachedWorker /\ modules \in Seq(Modules)
      /\ Registered \subseteq Modules /\ Active \subseteq Registered
  BY RegisteredFinite DEF LifecycleIInv, LifecycleTypeOK, Active
<1>1. graph \subseteq Active /\ resolved \in SUBSET Registered /\ graph \subseteq Modules
  BY <1>0, GraphIs
<1>2. /\ MarkUnavailable(Active \ acyclic)
      /\ resolution' = [m \in Modules |-> IF m \in resolved THEN Providers(m, graph) ELSE resolution[m]]
      /\ order' = DependencyOrder(acyclic, graph) /\ call' = [phase |-> phase, todo |-> order']
      /\ UNCHANGED <<descriptors, modules, rootCancelled, handle, generation, detached, instance>>
  BY DEF BeginValidate
<1> HIDE DEF graph
<1>3. order' \in Seq(Modules) /\ Members(order') = acyclic
  <2> DEFINE follows == DependencyOrder(acyclic, graph)
  <2>1. acyclic \in SUBSET resolved /\ \A m \in acyclic : ~OnCycle(m, resolved, graph)
    OBVIOUS
  <2> HIDE DEF resolved, acyclic
  <2>2. follows \in Seq(Modules) /\ Members(follows) = acyclic
    BY <1>0, <1>1, <2>1, OrderIsTotal
  <2> QED BY <1>2, <2>2
<1> HIDE DEF resolved, acyclic
<1>4. \A m \in Modules : Providers(m, graph) \subseteq Modules
  BY <1>1 DEF Providers
<1>5. LifecycleTypeOK'
  <2>1. resolution' \in [Modules -> (SUBSET Modules) \cup {Unresolved}]
    BY <1>0, <1>2, <1>4 DEF LifecycleTypeOK
  <2>2. state' \in [Modules -> ModuleState] /\ moduleCancelled' \in [Modules -> BOOLEAN]
    BY <1>0, <1>2 DEF LifecycleTypeOK, ModuleState, MarkUnavailable
  <2>3. call' \in [phase : Phases, todo : Seq(Modules)]
    BY <1>2, <1>3 DEF Phases
  <2> QED BY <1>0, <1>2, <1>3, <2>1, <2>2, <2>3 DEF LifecycleTypeOK
<1>6. Distinct(modules)' /\ Registered' = Registered
  BY <1>0, <1>2 DEF Distinct, Registered
<1>7. Slots'
  <2> SUFFICES ASSUME NEW n \in Modules PROVE Slot(n)'
    BY DEF Slots
  <2>1. Slot(n) /\ state'[n] \in {state[n], "Unavailable"} /\ (n \notin Registered => state'[n] = state[n])
    BY <1>0, <1>2 DEF Slots, MarkUnavailable
  <2> QED BY <1>2, <1>6, <2>1 DEF Slot, Serving
<1>8. OneDetachedWorker'
  BY <1>0, <1>2 DEF OneDetachedWorker
<1>9. Verdicts'
  <2> SUFFICES ASSUME NEW m \in Registered, state'[m] = "Discovered" PROVE m \in acyclic
    BY <1>2, <1>3, <1>6 DEF Verdicts, Members
  <2>1. state[m] = "Discovered" /\ m \notin Active \ acyclic
    BY <1>0, <1>2 DEF MarkUnavailable
  <2> QED BY <2>1 DEF Active, Participates
<1>10. StopOrder'
  BY <1>2 DEF StopOrder
<1> QED BY <1>5, <1>6, <1>7, <1>8, <1>9, <1>10 DEF LifecycleIInv

\* A step of validation on one module reaches a verdict on it.
LEMMA ValidateKeeps ==
    ASSUME LifecycleIInv, NEW outcome \in Outcome, ValidateNext(outcome)
    PROVE  LifecycleIInv'
<1> DEFINE m == Head(call.todo)
<1>0. /\ LifecycleTypeOK /\ Distinct(modules) /\ Slots /\ OneDetachedWorker /\ Verdicts
      /\ call.phase \in {"validate", "validate_start"} /\ call.todo # <<>> /\ Visit(Rest)
      /\ UNCHANGED <<descriptors, modules, rootCancelled, resolution, handle, generation, order, instance>>
  BY DEF LifecycleIInv, ValidateNext
<1>1. \/ /\ state[m] # "Discovered" /\ UNCHANGED <<state, moduleCancelled, detached>>
      \/ /\ state[m] = "Discovered" /\ MarkUnavailable({m}) /\ UNCHANGED detached
      \/ /\ state[m] = "Discovered" /\ state' = [state EXCEPT ![m] = "Validated"]
         /\ UNCHANGED <<moduleCancelled, detached>>
      \/ /\ state[m] = "Discovered" /\ MarkUnavailable({m}) /\ Detach(m, "validate")
  BY DEF ValidateNext
<1>2. /\ m \in Modules /\ Rest \in Seq(Modules) /\ call'.phase = call.phase /\ call'.todo = Rest
      /\ call' \in [phase : Phases, todo : Seq(Modules)]
      /\ Members(call.todo) = Members(Rest) \cup {m}
  BY <1>0, VisitIs
<1> HIDE DEF m
<1>3. /\ state' \in [Modules -> ModuleState] /\ \A n \in Modules \ {m} : state'[n] = state[n]
      /\ state'[m] # "Discovered"
      /\ state[m] # "Discovered" => state'[m] = state[m]
      /\ state[m] = "Discovered" => state'[m] \in {"Unavailable", "Validated"}
  BY <1>0, <1>1, <1>2 DEF LifecycleTypeOK, MarkUnavailable, ModuleState
<1>4. moduleCancelled' \in [Modules -> BOOLEAN]
  BY <1>0, <1>1 DEF LifecycleTypeOK, MarkUnavailable
<1>5. /\ detached' \subseteq detached \cup {[module |-> m, op |-> "validate"]} /\ detached \subseteq detached'
      /\ detached' # detached => state[m] = "Discovered" /\ state'[m] = "Unavailable"
  BY <1>1, <1>2 DEF Detach, MarkUnavailable
<1>6. LifecycleTypeOK'
  <2>1. detached' \subseteq Worker
    BY <1>0, <1>2, <1>5 DEF LifecycleTypeOK, Worker
  <2> QED BY <1>0, <1>2, <1>3, <1>4, <2>1 DEF LifecycleTypeOK
<1>7. Distinct(modules)' /\ Registered' = Registered
  BY <1>0 DEF Registered
<1>8. state[m] = "Discovered" => m \in Registered /\ ~handle[m] /\ (\A w \in detached : w.module # m)
  BY <1>0, <1>2 DEF Slots, Slot, Serving
<1>9. Slots'
  <2> SUFFICES ASSUME NEW n \in Modules PROVE Slot(n)'
    BY DEF Slots
  <2>1. Slot(n)
    BY <1>0 DEF Slots
  <2>2. CASE n = m
    BY <1>0, <1>3, <1>5, <1>7, <1>8, <2>1, <2>2 DEF Slot, Serving
  <2>3. CASE n # m
    BY <1>0, <1>3, <1>5, <1>7, <2>1, <2>3 DEF Slot
  <2> QED BY <2>2, <2>3
<1>10. OneDetachedWorker'
  BY <1>0, <1>5, <1>8 DEF OneDetachedWorker
<1>11. Verdicts'
  <2> SUFFICES ASSUME NEW n \in Registered, state'[n] = "Discovered" PROVE n \in Members(Rest)
    BY <1>0, <1>2, <1>7 DEF Verdicts, Members
  <2>1. n \in Modules /\ n # m /\ state[n] = "Discovered"
    BY <1>0, <1>3, RegisteredFinite DEF LifecycleTypeOK
  <2> QED BY <1>0, <1>2, <2>1 DEF Verdicts
<1>12. StopOrder'
  BY <1>0, <1>2, StopOrderKeeps
<1> QED BY <1>6, <1>7, <1>9, <1>10, <1>11, <1>12 DEF LifecycleIInv

\* The end of a loop: validation has left no module without a verdict.
LEMMA EndLoopKeeps ==
    ASSUME LifecycleIInv, EndLoop
    PROVE  LifecycleIInv'
<1>0. /\ LifecycleTypeOK /\ Distinct(modules) /\ Slots /\ OneDetachedWorker /\ Verdicts
      /\ call.todo = <<>>
      /\ UNCHANGED <<descriptors, modules, state, resolution, handle, moduleCancelled,
                     rootCancelled, generation, order, detached, instance>>
      /\ call' = IF call.phase = "validate_start" THEN [phase |-> "start", todo |-> order] ELSE Idle
  BY DEF LifecycleIInv, EndLoop
<1>1. /\ call' \in [phase : Phases, todo : Seq(Modules)] /\ call'.phase \in {"start", "idle"}
      /\ call'.phase = "start" => call.phase = "validate_start"
  BY <1>0 DEF LifecycleTypeOK, Phases, Idle
<1>2. LifecycleTypeOK'
  BY <1>0, <1>1 DEF LifecycleTypeOK
<1>3. Distinct(modules)' /\ Registered' = Registered
  BY <1>0 DEF Registered
<1>4. Slots' /\ OneDetachedWorker'
  BY <1>0, <1>3 DEF Slots, Slot, OneDetachedWorker
<1>5. Verdicts'
  <2>1. Members(call.todo) = {}
    BY <1>0 DEF Members
  <2> QED BY <1>0, <1>1, <1>3, <2>1 DEF Verdicts
<1>6. StopOrder'
  BY <1>1 DEF StopOrder
<1> QED BY <1>2, <1>3, <1>4, <1>5, <1>6 DEF LifecycleIInv

\* A step of start_all: a handle is made for a validated module, or none.
LEMMA StartKeeps ==
    ASSUME LifecycleIInv, NEW outcome \in Outcome, StartNext(outcome)
    PROVE  LifecycleIInv'
<1> DEFINE m == Head(call.todo)
<1>0. /\ LifecycleTypeOK /\ Distinct(modules) /\ Slots /\ OneDetachedWorker /\ Verdicts
      /\ call.phase = "start" /\ call.todo # <<>> /\ Visit(Rest)
      /\ UNCHANGED <<descriptors, modules, rootCancelled, resolution, order>>
  BY DEF LifecycleIInv, StartNext
<1>1. \/ UNCHANGED <<state, moduleCancelled, handle, generation, detached, instance>>
      \/ /\ state[m] = "Validated" /\ MarkUnavailable({m})
         /\ UNCHANGED <<handle, generation, detached, instance>>
      \/ /\ state[m] = "Validated" /\ state' = [state EXCEPT ![m] = "Ready"]
         /\ handle' = [handle EXCEPT ![m] = TRUE]
         /\ generation' = [generation EXCEPT ![m] = @ + 1]
         /\ instance' = [instance EXCEPT ![m] = "live"]
         /\ UNCHANGED <<moduleCancelled, detached>>
      \/ /\ state[m] = "Validated" /\ MarkUnavailable({m}) /\ Detach(m, "start")
         /\ UNCHANGED <<handle, generation, instance>>
  BY DEF StartNext
<1>2. /\ m \in Modules /\ Rest \in Seq(Modules) /\ call'.phase = call.phase /\ call'.todo = Rest
      /\ call' \in [phase : Phases, todo : Seq(Modules)]
  BY <1>0, VisitIs
<1> HIDE DEF m
<1>3. /\ state' \in [Modules -> ModuleState] /\ \A n \in Modules \ {m} : state'[n] = state[n]
      /\ state'[m] # state[m] => state[m] = "Validated" /\ state'[m] \in {"Ready", "Unavailable"}
  BY <1>0, <1>1, <1>2 DEF LifecycleTypeOK, MarkUnavailable, ModuleState
<1>4. moduleCancelled' \in [Modules -> BOOLEAN]
  BY <1>0, <1>1 DEF LifecycleTypeOK, MarkUnavailable
<1>5. /\ handle' \in [Modules -> BOOLEAN] /\ instance' \in [Modules -> {"none", "live", "retired"}]
      /\ \A n \in Modules \ {m} : handle'[n] = handle[n] /\ instance'[n] = instance[n]
  BY <1>0, <1>1, <1>2 DEF LifecycleTypeOK
<1>6. generation' \in [Modules -> Nat]
  BY <1>0, <1>1, <1>2 DEF LifecycleTypeOK
<1>7. /\ detached' \subseteq detached \cup {[module |-> m, op |-> "start"]} /\ detached \subseteq detached'
      /\ detached' # detached => state[m] = "Validated"
  BY <1>1, <1>2 DEF Detach
<1>8. LifecycleTypeOK'
  <2>1. detached' \subseteq Worker
    BY <1>0, <1>2, <1>7 DEF LifecycleTypeOK, Worker
  <2> QED BY <1>0, <1>2, <1>3, <1>4, <1>5, <1>6, <2>1 DEF LifecycleTypeOK
<1>9. Distinct(modules)' /\ Registered' = Registered
  BY <1>0 DEF Registered
<1>10. state[m] = "Validated" => m \in Registered /\ ~handle[m] /\ (\A w \in detached : w.module # m)
  BY <1>0, <1>2 DEF Slots, Slot, Serving
<1>11. Slots'
  <2> SUFFICES ASSUME NEW n \in Modules PROVE Slot(n)'
    BY DEF Slots
  <2>1. Slot(n)
    BY <1>0 DEF Slots
  <2>2. CASE n = m
    <3>1. CASE UNCHANGED <<state, moduleCancelled, handle, generation, detached, instance>>
      BY <1>9, <2>1, <3>1 DEF Slot
    <3>2. CASE /\ state[m] = "Validated" /\ MarkUnavailable({m})
               /\ UNCHANGED <<handle, generation, detached, instance>>
      BY <1>2, <1>9, <1>10, <2>1, <2>2, <3>2 DEF Slot, Serving, MarkUnavailable
    <3>3. CASE /\ state[m] = "Validated" /\ state' = [state EXCEPT ![m] = "Ready"]
               /\ handle' = [handle EXCEPT ![m] = TRUE] /\ instance' = [instance EXCEPT ![m] = "live"]
               /\ UNCHANGED detached
      <4>1. state'[m] = "Ready" /\ handle'[m] /\ instance'[m] = "live"
        BY <1>0, <1>2, <3>3 DEF LifecycleTypeOK
      <4> QED BY <1>9, <1>10, <2>2, <3>3, <4>1 DEF Slot, Serving
    <3>4. CASE /\ state[m] = "Validated" /\ MarkUnavailable({m}) /\ Detach(m, "start")
               /\ UNCHANGED <<handle, instance>>
      BY <1>2, <1>9, <1>10, <2>1, <2>2, <3>4 DEF Slot, Serving, MarkUnavailable, Detach
    <3> QED BY <1>1, <3>1, <3>2, <3>3, <3>4
  <2>3. CASE n # m
    BY <1>3, <1>5, <1>7, <1>9, <2>1, <2>3 DEF Slot
  <2> QED BY <2>2, <2>3
<1>12. OneDetachedWorker'
  BY <1>0, <1>7, <1>10 DEF OneDetachedWorker
<1>13. Verdicts'
  <2> SUFFICES ASSUME NEW n \in Registered, state'[n] = "Discovered" PROVE FALSE
    BY <1>9 DEF Verdicts
  <2>1. n \in Modules /\ state[n] = "Discovered"
    BY <1>0, <1>3, RegisteredFinite DEF LifecycleTypeOK
  <2> QED BY <1>0, <2>1 DEF Verdicts
<1>14. StopOrder'
  BY <1>0, <1>2, StopOrderKeeps
<1> QED BY <1>8, <1>9, <1>11, <1>12, <1>13, <1>14 DEF LifecycleIInv

\* refresh_health visits the registered modules.
LEMMA BeginHealthKeeps ==
    ASSUME LifecycleIInv, BeginHealth
    PROVE  LifecycleIInv'
<1>0. /\ LifecycleTypeOK /\ Distinct(modules) /\ Slots /\ OneDetachedWorker /\ Verdicts
      /\ call' = [phase |-> "health", todo |-> modules]
      /\ UNCHANGED <<descriptors, modules, state, resolution, handle, moduleCancelled,
                     rootCancelled, generation, order, detached, instance>>
  BY DEF LifecycleIInv, BeginHealth
<1>1. call' \in [phase : Phases, todo : Seq(Modules)] /\ call'.phase = "health"
  BY <1>0 DEF LifecycleTypeOK, Phases
<1>2. LifecycleTypeOK'
  BY <1>0, <1>1 DEF LifecycleTypeOK
<1>3. Distinct(modules)' /\ Registered' = Registered
  BY <1>0 DEF Registered
<1>4. Slots' /\ OneDetachedWorker'
  BY <1>0, <1>3 DEF Slots, Slot, OneDetachedWorker
<1>5. Verdicts' /\ StopOrder'
  BY <1>1 DEF Verdicts, StopOrder
<1> QED BY <1>2, <1>3, <1>4, <1>5 DEF LifecycleIInv

\* shutdown_all begins with an order in which users come first.
LEMMA BeginShutdownKeeps ==
    ASSUME LifecycleIInv, BeginShutdown
    PROVE  LifecycleIInv'
<1>0. /\ LifecycleTypeOK /\ Distinct(modules) /\ Slots /\ OneDetachedWorker /\ Verdicts
      /\ call' = [phase |-> "shutdown", todo |-> ShutdownOrder] /\ rootCancelled' = TRUE
      /\ UNCHANGED <<descriptors, modules, state, resolution, handle, moduleCancelled,
                     generation, order, detached, instance>>
  BY DEF LifecycleIInv, BeginShutdown
<1>1. ShutdownOrder \in Seq(Modules) /\ Distinct(ShutdownOrder) /\ Orderly(resolution, ShutdownOrder, {})
  BY <1>0, ShutdownOrderIs DEF LifecycleTypeOK
<1>2. /\ call' \in [phase : Phases, todo : Seq(Modules)] /\ call'.phase = "shutdown"
      /\ call'.todo = ShutdownOrder
  BY <1>0, <1>1 DEF Phases
<1>3. LifecycleTypeOK'
  BY <1>0, <1>2 DEF LifecycleTypeOK
<1>4. Distinct(modules)' /\ Registered' = Registered
  BY <1>0 DEF Registered
<1>5. Slots' /\ OneDetachedWorker'
  BY <1>0, <1>4 DEF Slots, Slot, OneDetachedWorker
<1>6. Verdicts'
  BY <1>2 DEF Verdicts
<1>7. StopOrder'
  BY <1>0, <1>1, <1>2 DEF StopOrder
<1> QED BY <1>3, <1>4, <1>5, <1>6, <1>7 DEF LifecycleIInv

\* A module whose handle is retired, handed to a late worker, or kept.
Retired(m) ==
    \/ handle'[m] /\ instance'[m] = "live" /\ detached' = detached
    \/ ~handle'[m] /\ instance'[m] = "retired" /\ detached' = detached
    \/ /\ ~handle'[m] /\ instance'[m] = "live"
       /\ \E op \in {"health", "shutdown"} : Detach(m, op)

\* Probing and stopping a module that holds a handle leave it one owner.
LEMMA HandleStepKeeps ==
    ASSUME LifecycleIInv, call.phase \in {"health", "shutdown"}, call.todo # <<>>, Visit(Rest),
           UNCHANGED <<descriptors, modules, rootCancelled, resolution, generation, order>>,
           handle' \in [Modules -> BOOLEAN], instance' \in [Modules -> {"none", "live", "retired"}],
           state' \in [Modules -> ModuleState], moduleCancelled' \in [Modules -> BOOLEAN],
           handle[Head(call.todo)],
           \A n \in Modules \ {Head(call.todo)} :
               handle'[n] = handle[n] /\ instance'[n] = instance[n] /\ state'[n] = state[n],
           Retired(Head(call.todo)),
           \/ state'[Head(call.todo)] \in Serving /\ handle'[Head(call.todo)]
           \/ state'[Head(call.todo)] = "Unavailable"
           \/ state'[Head(call.todo)] = "Stopped" /\ instance'[Head(call.todo)] = "retired"
    PROVE  LifecycleIInv'
<1> DEFINE m == Head(call.todo)
<1>0. LifecycleTypeOK /\ Distinct(modules) /\ Slots /\ OneDetachedWorker
  BY DEF LifecycleIInv
<1>1. /\ m \in Modules /\ Rest \in Seq(Modules) /\ call'.phase = call.phase /\ call'.todo = Rest
      /\ call' \in [phase : Phases, todo : Seq(Modules)]
  BY <1>0, VisitIs
<1>2. /\ handle[m] /\ Retired(m)
      /\ \A n \in Modules \ {m} : handle'[n] = handle[n] /\ instance'[n] = instance[n] /\ state'[n] = state[n]
      /\ \/ state'[m] \in Serving /\ handle'[m]
         \/ state'[m] = "Unavailable"
         \/ state'[m] = "Stopped" /\ instance'[m] = "retired"
  OBVIOUS
<1> HIDE DEF m
<1>3. /\ m \in Registered /\ (\A w \in detached : w.module # m) /\ instance[m] = "live"
  BY <1>0, <1>1, <1>2 DEF Slots, Slot, Serving
<1>4. /\ detached \subseteq detached'
      /\ \A w \in detached' : w \in detached \/ w.module = m
  BY <1>2 DEF Retired, Detach
<1>5. LifecycleTypeOK'
  <2>1. detached' \subseteq Worker
    BY <1>0, <1>1, <1>2 DEF LifecycleTypeOK, Worker, Retired, Detach
  <2> QED BY <1>0, <1>1, <2>1 DEF LifecycleTypeOK
<1>6. Distinct(modules)' /\ Registered' = Registered
  BY <1>0 DEF Registered
<1>7. Slots'
  <2> SUFFICES ASSUME NEW n \in Modules PROVE Slot(n)'
    BY DEF Slots
  <2>1. Slot(n)
    BY <1>0 DEF Slots
  <2>2. CASE n = m
    <3>1. CASE handle'[m] /\ instance'[m] = "live" /\ detached' = detached
      BY <1>2, <1>3, <1>6, <2>1, <2>2, <3>1 DEF Slot, Serving
    <3>2. CASE ~handle'[m] /\ instance'[m] = "retired" /\ detached' = detached
      BY <1>2, <1>3, <1>6, <2>1, <2>2, <3>2 DEF Slot, Serving
    <3>3. CASE /\ ~handle'[m] /\ instance'[m] = "live"
               /\ \E op \in {"health", "shutdown"} : Detach(m, op)
      <4>1. PICK op \in {"health", "shutdown"} : detached' = detached \cup {[module |-> m, op |-> op]}
        BY <3>3 DEF Detach
      <4>2. state'[m] = "Unavailable"
        BY <1>2, <3>3
      <4>3. \E w \in detached' : w.module = m /\ w.op \in {"health", "shutdown"}
        <5>1. [module |-> m, op |-> op] \in detached'
          BY <4>1
        <5> QED BY <5>1
      <4> QED BY <1>3, <1>6, <2>2, <3>3, <4>2, <4>3 DEF Slot, Serving
    <3> QED BY <1>2, <3>1, <3>2, <3>3 DEF Retired
  <2>3. CASE n # m
    BY <1>2, <1>4, <1>6, <2>1, <2>3 DEF Slot
  <2> QED BY <2>2, <2>3
<1>8. OneDetachedWorker'
  BY <1>0, <1>2, <1>3 DEF OneDetachedWorker, Retired, Detach
<1>9. Verdicts'
  BY <1>1 DEF Verdicts
<1>10. StopOrder'
  BY <1>1, StopOrderKeeps
<1> QED BY <1>5, <1>6, <1>7, <1>8, <1>9, <1>10 DEF LifecycleIInv

\* run_shutdown_operation on a module that holds a handle.
LEMMA RunShutdownIs ==
    ASSUME LifecycleIInv, NEW outcome \in Outcome, Head(call.todo) \in Modules,
           handle[Head(call.todo)], RunShutdown(Head(call.todo), outcome)
    PROVE  /\ handle' \in [Modules -> BOOLEAN] /\ instance' \in [Modules -> {"none", "live", "retired"}]
           /\ \A n \in Modules \ {Head(call.todo)} : handle'[n] = handle[n] /\ instance'[n] = instance[n]
           /\ Retired(Head(call.todo))
           /\ outcome = "ok" => instance'[Head(call.todo)] = "retired"
<1> DEFINE m == Head(call.todo)
<1>0. /\ LifecycleTypeOK /\ m \in Modules /\ instance[m] = "live"
      /\ handle' = [handle EXCEPT ![m] = outcome = "no_worker"]
      /\ instance' = [instance EXCEPT ![m] = IF outcome \in {"ok", "error"} THEN "retired" ELSE @]
      /\ IF outcome = "deadline" THEN Detach(m, "shutdown") ELSE UNCHANGED detached
  BY DEF LifecycleIInv, Slots, Slot, RunShutdown
<1> HIDE DEF m
<1>1. /\ handle' \in [Modules -> BOOLEAN] /\ \A n \in Modules \ {m} : handle'[n] = handle[n]
  BY <1>0 DEF LifecycleTypeOK
<1>2. handle'[m] <=> outcome = "no_worker"
  BY <1>0 DEF LifecycleTypeOK
<1>3. /\ instance' \in [Modules -> {"none", "live", "retired"}]
      /\ \A n \in Modules \ {m} : instance'[n] = instance[n]
      /\ instance'[m] = IF outcome \in {"ok", "error"} THEN "retired" ELSE "live"
  BY <1>0 DEF LifecycleTypeOK
<1>4. Retired(m)
  BY <1>0, <1>2, <1>3 DEF Retired, Outcome
<1> QED BY <1>1, <1>3, <1>4 DEF m

\* A step of shutdown_all stops one module,
LEMMA ShutdownKeeps ==
    ASSUME LifecycleIInv, NEW outcome \in Outcome, ShutdownNext(outcome)
    PROVE  LifecycleIInv'
<1> DEFINE m == Head(call.todo)
<1>0. /\ LifecycleTypeOK
      /\ call.phase = "shutdown" /\ call.todo # <<>> /\ Visit(Rest) /\ handle[m] /\ RunShutdown(m, outcome)
      /\ state' = [state EXCEPT ![m] = IF outcome = "ok" THEN "Stopped" ELSE "Unavailable"]
      /\ moduleCancelled' = [moduleCancelled EXCEPT ![m] = TRUE]
      /\ UNCHANGED <<descriptors, modules, rootCancelled, resolution, generation, order>>
  BY DEF LifecycleIInv, ShutdownNext
<1>1. m \in Modules
  BY <1>0, VisitIs
<1>2. /\ handle' \in [Modules -> BOOLEAN] /\ instance' \in [Modules -> {"none", "live", "retired"}]
      /\ \A n \in Modules \ {m} : handle'[n] = handle[n] /\ instance'[n] = instance[n]
      /\ Retired(m) /\ (outcome = "ok" => instance'[m] = "retired")
  BY <1>0, <1>1, RunShutdownIs
<1>3. /\ state' \in [Modules -> ModuleState] /\ \A n \in Modules \ {m} : state'[n] = state[n]
      /\ state'[m] = IF outcome = "ok" THEN "Stopped" ELSE "Unavailable"
  <2> HIDE DEF m
  <2> QED BY <1>0, <1>1 DEF LifecycleTypeOK, ModuleState
<1>4. moduleCancelled' \in [Modules -> BOOLEAN]
  <2> HIDE DEF m
  <2> QED BY <1>0, <1>1 DEF LifecycleTypeOK
<1>5. state'[m] = "Unavailable" \/ (state'[m] = "Stopped" /\ instance'[m] = "retired")
  BY <1>2, <1>3
<1> QED BY <1>0, <1>2, <1>3, <1>4, <1>5, HandleStepKeeps

\* and a step of refresh_health probes one.
LEMMA HealthKeeps ==
    ASSUME LifecycleIInv, HealthNext
    PROVE  LifecycleIInv'
<1> DEFINE m == Head(call.todo)
<1>0. /\ LifecycleTypeOK /\ Distinct(modules) /\ Slots /\ OneDetachedWorker
      /\ call.phase = "health" /\ call.todo # <<>> /\ Visit(Rest)
      /\ UNCHANGED <<descriptors, modules, rootCancelled, resolution, generation, order>>
  BY DEF LifecycleIInv, HealthNext
<1>1. \/ UNCHANGED <<state, moduleCancelled, handle, detached, instance>>
      \/ /\ handle[m] /\ \E status \in Serving : state' = [state EXCEPT ![m] = status]
         /\ UNCHANGED <<moduleCancelled, handle, detached, instance>>
      \/ /\ handle[m] /\ MarkUnavailable({m}) /\ handle' = [handle EXCEPT ![m] = FALSE]
         /\ Detach(m, "health") /\ UNCHANGED instance
      \/ /\ handle[m] /\ MarkUnavailable({m}) /\ \E outcome \in Outcome : RunShutdown(m, outcome)
  BY DEF HealthNext, Serving
<1>2. /\ m \in Modules /\ Rest \in Seq(Modules) /\ call'.phase = call.phase /\ call'.todo = Rest
      /\ call' \in [phase : Phases, todo : Seq(Modules)]
  BY <1>0, VisitIs
<1>3. handle[m] => instance[m] = "live"
  BY <1>0, <1>2 DEF Slots, Slot
<1>4. CASE UNCHANGED <<state, moduleCancelled, handle, detached, instance>>
  <2>1. LifecycleTypeOK'
    BY <1>0, <1>2, <1>4 DEF LifecycleTypeOK
  <2>2. Distinct(modules)' /\ Registered' = Registered
    BY <1>0 DEF Registered
  <2>3. Slots' /\ OneDetachedWorker'
    BY <1>0, <1>4, <2>2 DEF Slots, Slot, OneDetachedWorker
  <2>4. Verdicts' /\ StopOrder'
    BY <1>0, <1>2 DEF Verdicts, StopOrder
  <2> QED BY <2>1, <2>2, <2>3, <2>4 DEF LifecycleIInv
<1>5. CASE /\ handle[m] /\ \E status \in Serving : state' = [state EXCEPT ![m] = status]
           /\ UNCHANGED <<moduleCancelled, handle, detached, instance>>
  <2>1. /\ state' \in [Modules -> ModuleState] /\ \A n \in Modules \ {m} : state'[n] = state[n]
        /\ state'[m] \in Serving
    <3> HIDE DEF m
    <3> QED BY <1>0, <1>2, <1>5 DEF LifecycleTypeOK, ModuleState, Serving
  <2>2. /\ handle' \in [Modules -> BOOLEAN] /\ instance' \in [Modules -> {"none", "live", "retired"}]
        /\ moduleCancelled' \in [Modules -> BOOLEAN]
        /\ \A n \in Modules \ {m} : handle'[n] = handle[n] /\ instance'[n] = instance[n]
    BY <1>0, <1>5 DEF LifecycleTypeOK
  <2>3. Retired(m) /\ handle'[m]
    BY <1>3, <1>5 DEF Retired
  <2> QED BY <1>0, <1>5, <2>1, <2>2, <2>3, HandleStepKeeps
<1>6. ASSUME MarkUnavailable({m})
      PROVE  /\ state' \in [Modules -> ModuleState] /\ \A n \in Modules \ {m} : state'[n] = state[n]
             /\ state'[m] = "Unavailable" /\ moduleCancelled' \in [Modules -> BOOLEAN]
  <2> HIDE DEF m
  <2> QED BY <1>0, <1>2, <1>6 DEF LifecycleTypeOK, ModuleState, MarkUnavailable
<1>7. CASE /\ handle[m] /\ MarkUnavailable({m}) /\ handle' = [handle EXCEPT ![m] = FALSE]
           /\ Detach(m, "health") /\ UNCHANGED instance
  <2>1. /\ handle' \in [Modules -> BOOLEAN] /\ \A n \in Modules \ {m} : handle'[n] = handle[n]
        /\ ~handle'[m]
    <3> HIDE DEF m
    <3> QED BY <1>0, <1>2, <1>7 DEF LifecycleTypeOK
  <2>2. Retired(m)
    BY <1>3, <1>7, <2>1 DEF Retired
  <2>3. instance' \in [Modules -> {"none", "live", "retired"}] /\ \A n \in Modules \ {m} : instance'[n] = instance[n]
    BY <1>0, <1>7 DEF LifecycleTypeOK
  <2> QED BY <1>0, <1>6, <1>7, <2>1, <2>2, <2>3, HandleStepKeeps
<1>8. CASE /\ handle[m] /\ MarkUnavailable({m}) /\ \E outcome \in Outcome : RunShutdown(m, outcome)
  <2>1. PICK outcome \in Outcome : RunShutdown(m, outcome)
    BY <1>8
  <2>2. /\ handle' \in [Modules -> BOOLEAN] /\ instance' \in [Modules -> {"none", "live", "retired"}]
        /\ \A n \in Modules \ {m} : handle'[n] = handle[n] /\ instance'[n] = instance[n]
        /\ Retired(m)
    BY <1>2, <1>8, <2>1, RunShutdownIs
  <2> QED BY <1>0, <1>6, <1>8, <2>2, HandleStepKeeps
<1> QED BY <1>1, <1>4, <1>5, <1>7, <1>8

\* A late worker retires what it owns: the module it was left behind for has no
\* handle in the supervisor.
LEMMA LateResultKeeps ==
    ASSUME LifecycleIInv, NEW w \in detached, NEW ok \in BOOLEAN, LateResult(w, ok)
    PROVE  LifecycleIInv'
<1>0. /\ LifecycleTypeOK /\ Distinct(modules) /\ Slots /\ OneDetachedWorker /\ Verdicts
      /\ w.module \in Modules /\ w.op \in {"validate", "start", "health", "shutdown"}
      /\ detached' = detached \ {w}
      /\ UNCHANGED <<descriptors, modules, rootCancelled, state, resolution, handle, generation,
                     call, order>>
  BY DEF LifecycleIInv, LateResult, LifecycleTypeOK, Worker
<1>1. \/ w.op \notin {"health", "shutdown"} /\ UNCHANGED <<moduleCancelled, instance>>
      \/ /\ instance' = [instance EXCEPT ![w.module] = "retired"]
         /\ moduleCancelled' = [moduleCancelled EXCEPT ![w.module] = TRUE]
  BY DEF LateResult
<1>2. /\ instance' \in [Modules -> {"none", "live", "retired"}] /\ moduleCancelled' \in [Modules -> BOOLEAN]
      /\ \A n \in Modules \ {w.module} : instance'[n] = instance[n]
      /\ \/ instance'[w.module] = instance[w.module] /\ w.op \notin {"health", "shutdown"}
         \/ instance'[w.module] = "retired"
  BY <1>0, <1>1 DEF LifecycleTypeOK
<1>3. LifecycleTypeOK'
  BY <1>0, <1>2 DEF LifecycleTypeOK
<1>4. Distinct(modules)' /\ Registered' = Registered
  BY <1>0 DEF Registered
<1>5. Slots'
  <2> SUFFICES ASSUME NEW n \in Modules PROVE Slot(n)'
    BY DEF Slots
  <2>1. Slot(n)
    BY <1>0 DEF Slots
  <2>2. CASE n = w.module
    <3>1. ~handle[n] /\ state[n] = "Unavailable"
      BY <2>1, <2>2 DEF Slot
    <3> QED BY <1>0, <1>2, <1>4, <2>1, <2>2, <3>1 DEF Slot
  <2>3. CASE n # w.module
    BY <1>0, <1>2, <1>4, <2>1, <2>3 DEF Slot
  <2> QED BY <2>2, <2>3
<1>6. OneDetachedWorker'
  BY <1>0 DEF OneDetachedWorker
<1>7. Verdicts'
  BY <1>0, <1>4 DEF Verdicts
<1>8. StopOrder'
  BY <1>0, StopOrderKeeps
<1> QED BY <1>3, <1>4, <1>5, <1>6, <1>7, <1>8 DEF LifecycleIInv

\* Every step keeps the invariant.
LEMMA LifecycleKeeps ==
    ASSUME LifecycleIInv, [LifecycleNext]_lifecycleVars
    PROVE  LifecycleIInv'
<1>1. CASE \E m \in Modules : Register(m)
  BY <1>1, RegisterKeeps
<1>2. CASE \E phase \in {"validate", "validate_start"} : BeginValidate(phase)
  BY <1>2, BeginValidateKeeps
<1>3. CASE BeginHealth \/ BeginShutdown \/ EndLoop
  BY <1>3, BeginHealthKeeps, BeginShutdownKeeps, EndLoopKeeps
<1>4. CASE \E o \in Outcome : ValidateNext(o) \/ StartNext(o) \/ ShutdownNext(o)
  BY <1>4, ValidateKeeps, StartKeeps, ShutdownKeeps
<1>5. CASE HealthNext
  BY <1>5, HealthKeeps
<1>6. CASE \E w \in detached, ok \in BOOLEAN : LateResult(w, ok)
  BY <1>6, LateResultKeeps
<1>7. CASE UNCHANGED lifecycleVars
  BY <1>7 DEF lifecycleVars, LifecycleIInv, LifecycleTypeOK, Slots, Slot, OneDetachedWorker, Verdicts,
              StopOrder, Registered
<1> QED BY <1>1, <1>2, <1>3, <1>4, <1>5, <1>6, <1>7 DEF LifecycleNext

\* What the invariant says of owners, verdicts and the order of shutdown.
LEMMA LifecycleParts ==
    ASSUME LifecycleIInv
    PROVE  LifecycleTypeOK /\ InstancesAreOwned /\ ValidationIsTotal /\ ConsumersStopFirst
<1>0. LifecycleTypeOK /\ Slots /\ OneDetachedWorker /\ Verdicts /\ StopOrder
  BY DEF LifecycleIInv
<1>1. LiveHasHandle
  BY <1>0 DEF LiveHasHandle, Slots, Slot, Serving
<1>2. NoOrphan
  <2> SUFFICES ASSUME NEW m \in Modules, instance[m] = "live"
               PROVE  handle[m] # (\E w \in detached : w.module = m /\ w.op \in {"health", "shutdown"})
    BY DEF NoOrphan
  <2>1. handle[m] \in BOOLEAN
    BY <1>0 DEF LifecycleTypeOK
  <2>2. handle[m] <=> ~(\E w \in detached : w.module = m /\ w.op \in {"health", "shutdown"})
    BY <1>0 DEF Slots, Slot
  <2> QED BY <2>1, <2>2
<1>3. ValidationIsTotal
  BY <1>0 DEF ValidationIsTotal, Verdicts
<1>4. ConsumersStopFirst
  <2> DEFINE todo == call.todo
             n == Len(todo)
  <2> SUFFICES ASSUME call.phase = "shutdown", NEW i \in 1..n, NEW j \in i + 1..n,
                      BoundTo(todo[j], todo[i]), NEW k \in i..n
               PROVE  \E l \in i..n : l # k /\ BoundTo(todo[l], todo[k])
    BY DEF ConsumersStopFirst
  <2>1. /\ Distinct(todo) /\ Orderly(resolution, todo, {}) /\ n \in Nat
    BY <1>0 DEF StopOrder, LifecycleTypeOK
  <2>2. todo[j] # todo[i] /\ todo[j] \in Later(todo, i) /\ todo[k] \in Later(todo, i)
    BY <2>1 DEF Distinct, Later
  <2>3. Used(resolution, todo[i], Later(todo, i) \cup {})
    BY <2>2 DEF Used, BoundTo
  <2>4. Used(resolution, todo[k], Later(todo, i) \cup {})
    BY <2>1, <2>2, <2>3 DEF Orderly
  <2>5. PICK c \in Later(todo, i) : c # todo[k] /\ BoundTo(c, todo[k])
    BY <2>4 DEF Used, BoundTo
  <2>6. PICK l \in i..n : c = todo[l]
    BY <2>5 DEF Later
  <2> QED BY <2>5, <2>6
<1> QED BY <1>0, <1>1, <1>2, <1>3, <1>4 DEF InstancesAreOwned

\* The inductive invariant of the supervisor holds in every state it reaches.
THEOREM LifecycleInvariant == LifecycleSpec => []LifecycleIInv
<1>1. LifecycleInit => LifecycleIInv
  BY LifecycleStarts
<1>2. LifecycleIInv /\ [LifecycleNext]_lifecycleVars => LifecycleIInv'
  BY LifecycleKeeps
<1> QED BY <1>1, <1>2, PTL DEF LifecycleSpec

\* Module states, workers and the loop of the running call stay well formed.
THEOREM LifecycleTyped == LifecycleSpec => []LifecycleTypeOK
BY LifecycleInvariant, LifecycleParts, PTL

\* Whatever fails or is late, every running module has exactly one owner, the slot of
\* the supervisor or one detached worker, and a module that reports to work is served.
THEOREM EveryInstanceIsOwned == LifecycleSpec => []InstancesAreOwned
BY LifecycleInvariant, LifecycleParts, PTL

\* Once start_all begins to start modules, every registered module has been validated
\* or rejected: the cycle check and the dependency order leave none behind.
THEOREM EveryModuleIsJudged == LifecycleSpec => []ValidationIsTotal
BY LifecycleInvariant, LifecycleParts, PTL

\* shutdown_all stops every consumer before its providers, except where the bindings
\* of all modules left run in a circle.
THEOREM UsersStopFirst == LifecycleSpec => []ConsumersStopFirst
BY LifecycleInvariant, LifecycleParts, PTL

-----------------------------------------------------------------------------
(* Session families.                                                       *)

\* What HistoricalLeaf keeps of a leaf.
SameLeaf(l, k) == l.id = k.id /\ l.at = k.at /\ l.idle = k.idle

LEMMA HistoricalSame ==
    ASSUME NEW l \in LeafRows, NEW k \in LeafRows, SameLeaf(l, k), NEW s
    PROVE  HistoricalLeaf(l, s) = HistoricalLeaf(k, s)
BY DEF LeafRows, SameLeaf, HistoricalLeaf

LEMMA HistoricalIs ==
    ASSUME NEW l \in LeafRows, NEW s, l.state = s, l.version = IF s = "Active" THEN 1 ELSE 2
    PROVE  HistoricalLeaf(l, s) = l
BY DEF LeafRows, HistoricalLeaf

LEMMA WithStateIs ==
    ASSUME NEW l \in LeafRows, NEW s \in {"Active", "Rotated", "Revoked", "Expired"}
    PROVE  /\ WithState(l, s) \in LeafRows /\ SameLeaf(WithState(l, s), l)
           /\ WithState(l, s).state = s /\ WithState(l, s).version = l.version + 1
<1>1. l.version + 1 \in Nat
  BY DEF LeafRows
<1> DEFINE v == l.version + 1
<1> HIDE DEF v
<1>2. WithState(l, s) = [l EXCEPT !.version = v, !.state = s]
  BY DEF WithState, v
<1>3. [l EXCEPT !.version = v, !.state = s] \in LeafRows
  BY <1>1 DEF LeafRows, v
<1>4. SameLeaf([l EXCEPT !.version = v, !.state = s], l)
  BY DEF LeafRows, SameLeaf
<1>5. [l EXCEPT !.version = v, !.state = s].state = s /\ [l EXCEPT !.version = v, !.state = s].version = v
  BY DEF LeafRows
<1> QED BY <1>2, <1>3, <1>4, <1>5 DEF v

LEMMA LeavesAre ==
    ASSUME NEW f \in Families
    PROVE  /\ f.rotated \in Seq(LeafRows) /\ f.current \in LeafRows /\ Len(f.rotated) \in Nat
           /\ DOMAIN f.rotated = 1..Len(f.rotated)
           /\ AllLeaves(f) \in Seq(LeafRows) /\ Len(AllLeaves(f)) = Len(f.rotated) + 1
           /\ DOMAIN AllLeaves(f) = 1..(Len(f.rotated) + 1)
           /\ \A i \in 1..Len(f.rotated) : AllLeaves(f)[i] = f.rotated[i]
           /\ AllLeaves(f)[Len(f.rotated) + 1] = f.current
           /\ f.version \in Nat /\ f.issued \in Times /\ f.absolute \in Times
<1>1. f.rotated \in Seq(LeafRows) /\ f.current \in LeafRows
      /\ f.version \in Nat /\ f.issued \in Times /\ f.absolute \in Times
  BY DEF Families
<1> DEFINE r == f.rotated
           c == f.current
<1>2. r \in Seq(LeafRows) /\ c \in LeafRows
  BY <1>1
<1> HIDE DEF r, c
<1>3. /\ Append(r, c) \in Seq(LeafRows) /\ Len(Append(r, c)) = Len(r) + 1 /\ Len(r) \in Nat
      /\ DOMAIN r = 1..Len(r) /\ DOMAIN Append(r, c) = 1..(Len(r) + 1)
      /\ \A i \in 1..Len(r) : Append(r, c)[i] = r[i]
      /\ Append(r, c)[Len(r) + 1] = c
  BY <1>2
<1> QED BY <1>1, <1>3 DEF r, c, AllLeaves

\* validate_snapshot, leaf by leaf.
Staged(f) ==
    /\ f.state = "Active" =>
         /\ f.version = Len(f.rotated) + 1 /\ f.current.state = "Active" /\ f.current.version = 1
         /\ \A i \in 1..Len(f.rotated) : f.rotated[i].state = "Rotated" /\ f.rotated[i].version = 2
    /\ f.state # "Active" =>
         /\ f.version = Len(f.rotated) + 2 /\ f.current.state = f.state /\ f.current.version = 2
         /\ \A i \in 1..Len(f.rotated) : f.rotated[i].state = f.state /\ f.rotated[i].version = 3

Lines(f) ==
    /\ AllLeaves(f)[1].at = f.issued
    /\ \A i \in 1..(Len(f.rotated) + 1) : ValidIdle(AllLeaves(f)[i].at, AllLeaves(f)[i].idle, f.absolute)
    /\ \A i \in 2..(Len(f.rotated) + 1) : AllLeaves(f)[i].at >= AllLeaves(f)[i - 1].at
    /\ \A i, j \in 1..(Len(f.rotated) + 1) : AllLeaves(f)[i].id = AllLeaves(f)[j].id => i = j

Sound(f) ==
    /\ Len(f.rotated) <= MaxRotated /\ f.absolute - f.issued \in 1..MaxAbsolute
    /\ Staged(f) /\ Lines(f)

LEMMA SoundIs ==
    ASSUME NEW f \in Families
    PROVE  ValidSnapshot(f) <=> Sound(f)
<1>1. /\ Len(f.rotated) \in Nat /\ Len(AllLeaves(f)) = Len(f.rotated) + 1
      /\ DOMAIN AllLeaves(f) = 1..(Len(f.rotated) + 1) /\ DOMAIN f.rotated = 1..Len(f.rotated)
  BY LeavesAre
<1> DEFINE Stages ==
      /\ f.version = Len(f.rotated) + (IF f.state = "Active" THEN 1 ELSE 2)
      /\ <<f.current.state, f.current.version>> = Expected(f.state).current
      /\ \A i \in DOMAIN f.rotated : <<f.rotated[i].state, f.rotated[i].version>> = Expected(f.state).rotated
<1>2. ValidSnapshot(f) <=> /\ Len(f.rotated) <= MaxRotated /\ f.absolute - f.issued \in 1..MaxAbsolute
                           /\ Stages /\ Lines(f)
  BY <1>1 DEF ValidSnapshot, Lines
<1>3. /\ f.state = "Active" => Expected(f.state).current = <<"Active", 1>> /\ Expected(f.state).rotated = <<"Rotated", 2>>
      /\ f.state # "Active" => Expected(f.state).current = <<f.state, 2>> /\ Expected(f.state).rotated = <<f.state, 3>>
  BY DEF Expected
<1>4. Stages <=> Staged(f)
  <2>1. \A x, y, a, b : <<x, y>> = <<a, b>> <=> x = a /\ y = b
    OBVIOUS
  <2>2. CASE f.state = "Active"
    BY <1>1, <1>3, <2>1, <2>2 DEF Staged
  <2>3. CASE f.state # "Active"
    BY <1>1, <1>3, <2>1, <2>3 DEF Staged
  <2> QED BY <2>2, <2>3
<1> QED BY <1>2, <1>4 DEF Sound

\* One transition on: the leaves of f, perhaps with other states, come first in g.
Follows(f, g) ==
    /\ f.state = "Active" /\ g.version = f.version + 1 /\ g.issued = f.issued /\ g.absolute = f.absolute
    /\ Len(f.rotated) <= Len(g.rotated)
    /\ \A i \in 1..(Len(f.rotated) + 1) : SameLeaf(AllLeaves(g)[i], AllLeaves(f)[i])

\* An earlier snapshot, rebuilt from g.
Rebuilt(f, version) ==
    [f EXCEPT !.version = version, !.state = "Active",
              !.current = HistoricalLeaf(AllLeaves(f)[version], "Active"),
              !.rotated = [i \in 1..(version - 1) |-> HistoricalLeaf(AllLeaves(f)[i], "Rotated")]]

LEMMA RebuiltIs ==
    ASSUME NEW f \in Families, NEW v
    PROVE  Rebuilt(f, v) = [version |-> v, state |-> "Active", issued |-> f.issued, absolute |-> f.absolute,
                            current |-> HistoricalLeaf(AllLeaves(f)[v], "Active"),
                            rotated |-> [i \in 1..(v - 1) |-> HistoricalLeaf(AllLeaves(f)[i], "Rotated")]]
<1> DEFINE c == HistoricalLeaf(AllLeaves(f)[v], "Active")
           r == [i \in 1..(v - 1) |-> HistoricalLeaf(AllLeaves(f)[i], "Rotated")]
<1>1. Rebuilt(f, v) = [f EXCEPT !.version = v, !.state = "Active", !.current = c, !.rotated = r]
  BY Zenon DEF Rebuilt
<1>2. DOMAIN f = {"version", "state", "issued", "absolute", "current", "rotated"}
      /\ f = [version |-> f.version, state |-> f.state, issued |-> f.issued, absolute |-> f.absolute,
              current |-> f.current, rotated |-> f.rotated]
  BY DEF Families
<1> HIDE DEF c, r
<1>3. Rebuilt(f, v) = [version |-> v, state |-> "Active", issued |-> f.issued, absolute |-> f.absolute,
                       current |-> c, rotated |-> r]
  BY <1>1, <1>2
<1> QED BY <1>3, Zenon DEF c, r

LEMMA RebuildsEarlier ==
    ASSUME NEW f \in Families, NEW g \in Families, Staged(f), Follows(f, g), NEW v \in 1..f.version
    PROVE  FamilyAt(g, v) = FamilyAt(f, v)
<1>1. /\ f.version \in Nat /\ f.version = Len(f.rotated) + 1 /\ g.version = f.version + 1
      /\ Len(f.rotated) \in Nat /\ Len(g.rotated) \in Nat /\ Len(f.rotated) <= Len(g.rotated)
  BY LeavesAre DEF Staged, Follows
<1>2. FamilyAt(g, v) = Rebuilt(g, v)
  BY <1>1 DEF FamilyAt, Rebuilt
<1>3. \A i \in 1..f.version : /\ AllLeaves(f)[i] \in LeafRows /\ AllLeaves(g)[i] \in LeafRows
                              /\ SameLeaf(AllLeaves(g)[i], AllLeaves(f)[i])
  <2>1. \A i \in 1..f.version : i \in DOMAIN AllLeaves(f) /\ i \in DOMAIN AllLeaves(g)
    BY <1>1, LeavesAre
  <2>2. AllLeaves(f) \in Seq(LeafRows) /\ AllLeaves(g) \in Seq(LeafRows)
    BY LeavesAre
  <2> QED BY <1>1, <2>1, <2>2 DEF Follows
<1>4. \A i \in 1..f.version : \A s : HistoricalLeaf(AllLeaves(g)[i], s) = HistoricalLeaf(AllLeaves(f)[i], s)
  BY <1>3, HistoricalSame
<1>5. \A i \in 1..(v - 1) : i \in 1..f.version
  BY <1>1
<1>6. Rebuilt(g, v) = Rebuilt(f, v)
  <2>1. [i \in 1..(v - 1) |-> HistoricalLeaf(AllLeaves(g)[i], "Rotated")] =
        [i \in 1..(v - 1) |-> HistoricalLeaf(AllLeaves(f)[i], "Rotated")]
    BY <1>4, <1>5
  <2>2. HistoricalLeaf(AllLeaves(g)[v], "Active") = HistoricalLeaf(AllLeaves(f)[v], "Active")
    BY <1>4
  <2>3. f.issued = g.issued /\ f.absolute = g.absolute
    BY DEF Follows
  <2>4. /\ Rebuilt(g, v) = [version |-> v, state |-> "Active", issued |-> g.issued, absolute |-> g.absolute,
                            current |-> HistoricalLeaf(AllLeaves(g)[v], "Active"),
                            rotated |-> [i \in 1..(v - 1) |-> HistoricalLeaf(AllLeaves(g)[i], "Rotated")]]
        /\ Rebuilt(f, v) = [version |-> v, state |-> "Active", issued |-> f.issued, absolute |-> f.absolute,
                            current |-> HistoricalLeaf(AllLeaves(f)[v], "Active"),
                            rotated |-> [i \in 1..(v - 1) |-> HistoricalLeaf(AllLeaves(f)[i], "Rotated")]]
    BY RebuiltIs, Zenon
  <2> QED BY <2>1, <2>2, <2>3, <2>4, Zenon
<1>7. CASE v # f.version
  <2>1. FamilyAt(f, v) = Rebuilt(f, v)
    BY <1>7 DEF FamilyAt, Rebuilt
  <2> QED BY <1>2, <1>6, <2>1
<1>8. CASE v = f.version
  <2>1. FamilyAt(f, v) = f
    BY <1>8 DEF FamilyAt
  <2>2. HistoricalLeaf(AllLeaves(f)[v], "Active") = f.current
    <3>1. AllLeaves(f)[v] = f.current /\ f.current \in LeafRows
      BY <1>1, <1>8, LeavesAre
    <3>2. f.current.state = "Active" /\ f.current.version = 1
      BY DEF Staged, Follows
    <3> QED BY <3>1, <3>2, HistoricalIs
  <2>3. [i \in 1..(v - 1) |-> HistoricalLeaf(AllLeaves(f)[i], "Rotated")] = f.rotated
    <3>1. v - 1 = Len(f.rotated)
      BY <1>1, <1>8
    <3>2. ASSUME NEW i \in 1..Len(f.rotated) PROVE HistoricalLeaf(AllLeaves(f)[i], "Rotated") = f.rotated[i]
      <4>1. AllLeaves(f)[i] = f.rotated[i] /\ f.rotated[i] \in LeafRows
        BY LeavesAre
      <4>2. f.rotated[i].state = "Rotated" /\ f.rotated[i].version = 2
        BY DEF Staged, Follows
      <4> QED BY <4>1, <4>2, HistoricalIs
    <3>3. f.rotated = [i \in 1..Len(f.rotated) |-> f.rotated[i]]
      BY LeavesAre
    <3> QED BY <3>1, <3>2, <3>3
  <2>4. Rebuilt(f, v) = f
    BY <1>8, <2>2, <2>3, RebuiltIs DEF Families, Follows
  <2> QED BY <1>2, <1>6, <2>1, <2>4
<1> QED BY <1>7, <1>8

-----------------------------------------------------------------------------
(* What a decision leads to.                                               *)

LEMMA TimesAreInts == \A t \in Times : t \in Int
BY FamilyAssumption DEF FamilyAssumption

Rotation(f, id, at, idle) ==
    [f EXCEPT !.version = @ + 1, !.current = ActiveLeaf(id, at, idle),
              !.rotated = Append(@, WithState(f.current, "Rotated"))]

LEMMA RotationIs ==
    ASSUME NEW f \in Families, Sound(f), f.state = "Active",
           NEW id \in Leaves, NEW at \in Times, NEW idle \in Times,
           ValidIdle(at, idle, f.absolute), Len(f.rotated) < MaxRotated, at >= f.current.at,
           id \notin RotatedIds(f) \cup {f.current.id},
           NEW g, g = Rotation(f, id, at, idle)
    PROVE  /\ g \in Families /\ Sound(g) /\ Follows(f, g) /\ g.state = "Active"
           /\ Len(g.rotated) = Len(f.rotated) + 1 /\ g.current = ActiveLeaf(id, at, idle)
<1> DEFINE n == Len(f.rotated)
           k == WithState(f.current, "Rotated")
           a == ActiveLeaf(id, at, idle)
<1>1. /\ f.rotated \in Seq(LeafRows) /\ f.current \in LeafRows /\ n \in Nat
      /\ \A i \in 1..n : AllLeaves(f)[i] = f.rotated[i] /\ f.rotated[i] \in LeafRows
      /\ AllLeaves(f)[n + 1] = f.current
      /\ f.version \in Nat /\ f.issued \in Times /\ f.absolute \in Times
  BY LeavesAre
<1>2. f.version = n + 1 /\ f.current.version = 1 /\ Staged(f) /\ Lines(f)
  BY DEF Sound, Staged
<1>3. k \in LeafRows /\ SameLeaf(k, f.current) /\ k.state = "Rotated" /\ k.version = 2
  BY <1>1, <1>2, WithStateIs
<1>4. a \in LeafRows /\ a.id = id /\ a.at = at /\ a.idle = idle /\ a.state = "Active" /\ a.version = 1
  BY DEF ActiveLeaf, LeafRows
<1>5. g = [version |-> f.version + 1, state |-> f.state, issued |-> f.issued, absolute |-> f.absolute,
           current |-> a, rotated |-> Append(f.rotated, k)]
  BY DEF Rotation, Families
<1> HIDE DEF n, k, a
<1>6. /\ g.rotated = Append(f.rotated, k) /\ g.current = a /\ g.version = f.version + 1 /\ g.state = "Active"
      /\ g.issued = f.issued /\ g.absolute = f.absolute
  BY <1>5
<1>7. /\ g.rotated \in Seq(LeafRows) /\ Len(g.rotated) = n + 1
      /\ (\A i \in 1..n : g.rotated[i] = f.rotated[i]) /\ g.rotated[n + 1] = k
  BY <1>1, <1>3, <1>6 DEF n
<1>8. g \in Families
  BY <1>1, <1>4, <1>5, <1>6, <1>7 DEF Families
<1>9. /\ \A i \in 1..n : AllLeaves(g)[i] = AllLeaves(f)[i] /\ AllLeaves(g)[i] \in LeafRows
      /\ AllLeaves(g)[n + 1] = k /\ AllLeaves(g)[n + 2] = a
  <2>1. /\ \A i \in 1..(n + 1) : AllLeaves(g)[i] = g.rotated[i]
        /\ AllLeaves(g)[(n + 1) + 1] = g.current
    BY <1>7, <1>8, LeavesAre
  <2>2. (n + 1) + 1 = n + 2 /\ n + 1 \in 1..(n + 1) /\ \A i \in 1..n : i \in 1..(n + 1)
    BY <1>1
  <2> QED BY <1>1, <1>6, <1>7, <2>1, <2>2
<1>10. \A i \in 1..(n + 1) : SameLeaf(AllLeaves(g)[i], AllLeaves(f)[i])
  BY <1>1, <1>3, <1>9 DEF SameLeaf
<1>11. Follows(f, g)
  BY <1>1, <1>6, <1>7, <1>10 DEF Follows, n
<1>12. Staged(g)
  BY <1>1, <1>2, <1>3, <1>4, <1>6, <1>7 DEF Staged, n
<1>13. Lines(g)
  <2>1. AllLeaves(g)[1].at = g.issued
    BY <1>1, <1>2, <1>6, <1>10 DEF Lines, SameLeaf
  <2>2. ASSUME NEW i \in 1..(n + 2)
        PROVE  ValidIdle(AllLeaves(g)[i].at, AllLeaves(g)[i].idle, g.absolute)
    <3>1. CASE i \in 1..(n + 1)
      <4>1. ValidIdle(AllLeaves(f)[i].at, AllLeaves(f)[i].idle, f.absolute)
        BY <1>2, <3>1 DEF Lines, n
      <4> QED BY <1>6, <1>10, <3>1, <4>1 DEF SameLeaf
    <3>2. CASE i = n + 2
      BY <1>4, <1>6, <1>9, <3>2
    <3> QED BY <1>1, <3>1, <3>2
  <2>3. ASSUME NEW i \in 2..(n + 2)
        PROVE  AllLeaves(g)[i].at >= AllLeaves(g)[i - 1].at
    <3>1. CASE i \in 2..(n + 1)
      <4>1. AllLeaves(f)[i].at >= AllLeaves(f)[i - 1].at /\ i \in 1..(n + 1) /\ i - 1 \in 1..(n + 1)
        BY <1>1, <1>2, <3>1 DEF Lines, n
      <4> QED BY <1>10, <4>1 DEF SameLeaf
    <3>2. CASE i = n + 2
      <4>1. i - 1 = n + 1 /\ AllLeaves(g)[i] = a /\ AllLeaves(g)[i - 1] = k /\ k.at = f.current.at
        BY <1>1, <1>3, <1>9, <3>2 DEF SameLeaf
      <4> QED BY <1>4, <4>1
    <3> QED BY <1>1, <3>1, <3>2
  <2>4. ASSUME NEW i \in 1..(n + 1) PROVE AllLeaves(g)[i].id = AllLeaves(f)[i].id /\ AllLeaves(f)[i].id # id
    <3>1. AllLeaves(g)[i].id = AllLeaves(f)[i].id
      BY <1>10 DEF SameLeaf
    <3>2. AllLeaves(f)[i].id \in RotatedIds(f) \cup {f.current.id}
      <4>1. i \in 1..n \/ i = n + 1
        BY <1>1
      <4>2. DOMAIN f.rotated = 1..n
        BY LeavesAre DEF n
      <4> QED BY <1>1, <4>1, <4>2 DEF RotatedIds
    <3> QED BY <3>1, <3>2
  <2>5. ASSUME NEW i \in 1..(n + 2), NEW j \in 1..(n + 2), AllLeaves(g)[i].id = AllLeaves(g)[j].id
        PROVE  i = j
    <3>1. i \in 1..(n + 1) /\ j \in 1..(n + 1) => i = j
      BY <1>2, <2>4, <2>5 DEF Lines, n
    <3>2. AllLeaves(g)[n + 2].id = id
      BY <1>4, <1>9
    <3>3. i \in 1..(n + 1) \/ i = n + 2
      BY <1>1
    <3>4. j \in 1..(n + 1) \/ j = n + 2
      BY <1>1
    <3> QED BY <2>4, <2>5, <3>1, <3>2, <3>3, <3>4
  <2>6. Len(g.rotated) + 1 = n + 2
    BY <1>1, <1>7
  <2> QED BY <2>1, <2>2, <2>3, <2>5, <2>6 DEF Lines
<1>14. Len(g.rotated) <= MaxRotated /\ g.absolute - g.issued \in 1..MaxAbsolute
  <2>1. MaxRotated \in Nat
    BY FamilyAssumption DEF FamilyAssumption
  <2> QED BY <1>1, <1>6, <1>7, <2>1 DEF Sound, n
<1> QED BY <1>6, <1>7, <1>8, <1>11, <1>12, <1>13, <1>14 DEF Sound, a, n

LEMMA EndedIs ==
    ASSUME NEW f \in Families, Sound(f), f.state = "Active", NEW s \in {"Revoked", "Expired"},
           NEW g, g = Ended(f, s)
    PROVE  /\ g \in Families /\ Sound(g) /\ Follows(f, g) /\ g.state = s
           /\ Len(g.rotated) = Len(f.rotated)
           /\ g.current.id = f.current.id /\ g.current.at = f.current.at /\ g.current.idle = f.current.idle
<1> DEFINE n == Len(f.rotated)
           k == WithState(f.current, s)
           q == [i \in DOMAIN f.rotated |-> WithState(f.rotated[i], s)]
<1>1. /\ f.rotated \in Seq(LeafRows) /\ f.current \in LeafRows /\ n \in Nat /\ DOMAIN f.rotated = 1..n
      /\ \A i \in 1..n : AllLeaves(f)[i] = f.rotated[i] /\ f.rotated[i] \in LeafRows
      /\ AllLeaves(f)[n + 1] = f.current
      /\ f.version \in Nat /\ f.issued \in Times /\ f.absolute \in Times
  BY LeavesAre
<1>2. f.version = n + 1 /\ f.current.version = 1 /\ Staged(f) /\ Lines(f)
  BY DEF Sound, Staged
<1>3. k \in LeafRows /\ SameLeaf(k, f.current) /\ k.state = s /\ k.version = 2
  BY <1>1, <1>2, WithStateIs
<1>4. ASSUME NEW i \in 1..n
      PROVE  q[i] \in LeafRows /\ SameLeaf(q[i], f.rotated[i]) /\ q[i].state = s /\ q[i].version = 3
  <2>1. f.rotated[i].version = 2 /\ f.rotated[i] \in LeafRows /\ q[i] = WithState(f.rotated[i], s)
    BY <1>1, <1>2 DEF Staged
  <2> HIDE DEF q
  <2> QED BY <2>1, WithStateIs
<1>5. g = [version |-> f.version + 1, state |-> s, issued |-> f.issued, absolute |-> f.absolute,
           current |-> k, rotated |-> q]
  <2>1. f = [version |-> f.version, state |-> f.state, issued |-> f.issued, absolute |-> f.absolute,
             current |-> f.current, rotated |-> f.rotated]
    BY DEF Families
  <2>2. g = [f EXCEPT !.version = f.version + 1, !.state = s, !.current = k, !.rotated = q]
    BY <2>1 DEF Ended
  <2> HIDE DEF k, q
  <2> QED BY <2>1, <2>2
<1>6. q \in Seq(LeafRows) /\ Len(q) = n
  <2>1. q \in [1..n -> LeafRows]
    BY <1>1, <1>4
  <2> HIDE DEF q, n
  <2> QED BY <1>1, <2>1
<1> HIDE DEF n, k, q
<1>7. /\ g.rotated = q /\ g.current = k /\ g.version = f.version + 1 /\ g.state = s
      /\ g.issued = f.issued /\ g.absolute = f.absolute
  BY <1>5
<1>8. g \in Families
  BY <1>1, <1>3, <1>5, <1>6 DEF Families
<1>9. (\A i \in 1..n : AllLeaves(g)[i] = q[i]) /\ AllLeaves(g)[n + 1] = k
  BY <1>6, <1>7, <1>8, LeavesAre
<1>10. \A i \in 1..(n + 1) : SameLeaf(AllLeaves(g)[i], AllLeaves(f)[i])
  BY <1>1, <1>3, <1>4, <1>9 DEF SameLeaf
<1>11. Follows(f, g)
  BY <1>1, <1>6, <1>7, <1>10 DEF Follows, n
<1>12. Staged(g)
  BY <1>1, <1>2, <1>3, <1>4, <1>6, <1>7 DEF Staged, n
<1>13. Lines(g)
  <2>1. \A i \in 2..(n + 1) : i \in 1..(n + 1) /\ i - 1 \in 1..(n + 1)
    BY <1>1
  <2>2. 1 \in 1..(n + 1) /\ Len(g.rotated) = n
    BY <1>1, <1>6, <1>7
  <2> QED BY <1>2, <1>7, <1>10, <2>1, <2>2 DEF Lines, SameLeaf, n
<1>14. g.current.id = f.current.id /\ g.current.at = f.current.at /\ g.current.idle = f.current.idle
  BY <1>3, <1>7 DEF SameLeaf
<1> QED BY <1>6, <1>7, <1>8, <1>11, <1>12, <1>13, <1>14 DEF Sound, n

\* The four ways a command may end.
Rotates(f, c, t) ==
    /\ t = Transition(Rotation(f, c.successor, c.at, c.idle), c.actor, c.at, "Rotated")
    /\ c.successor \in Leaves /\ c.idle \in Times
    /\ ~OutOfTime(f, c.at) /\ ValidIdle(c.at, c.idle, f.absolute) /\ Len(f.rotated) < MaxRotated
    /\ c.successor \notin RotatedIds(f) \cup {f.current.id}
Ends(f, c, t) ==
    \/ t = Transition(Ended(f, "Revoked"), c.actor, c.at, "ReuseRevoked") /\ RotatedIds(f) # {}
    \/ t = Transition(Ended(f, "Revoked"), c.actor, c.at, "Revoked")
    \/ t = Transition(Ended(f, "Expired"), c.actor, c.at, "Expired") /\ OutOfTime(f, c.at)

LEMMA CommandIs ==
    ASSUME NEW c \in Commands
    PROVE  /\ c.action \in {"Rotate", "DetectReuse", "Revoke", "Expire"}
           /\ c.actor \in Actors /\ c.at \in Times
           /\ c.action = "Rotate" => c.successor \in Leaves /\ c.idle \in Times
BY DEF Commands

LEMMA DecisionIs ==
    ASSUME NEW f, NEW c \in Commands, NEW e, NEW t \in Decide(f, c, e)
    PROVE  /\ f.version = e /\ f.state = "Active" /\ ~(c.at < f.issued) /\ ~(c.at < f.current.at)
           /\ Rotates(f, c, t) \/ Ends(f, c, t)
<1>1. f.version = e /\ f.state = "Active" /\ ~(c.at < f.issued) /\ ~(c.at < f.current.at)
  BY DEF Decide
<1>2. /\ c.action = "Rotate" => t \in ApplyRotation(f, c)
      /\ c.action = "DetectReuse" => t \in ApplyReuseDetection(f, c)
      /\ c.action = "Revoke" => t \in {Transition(Ended(f, "Revoked"), c.actor, c.at, "Revoked")}
      /\ c.action = "Expire" => t \in ApplyExpire(f, c)
  BY <1>1 DEF Decide
<1>3. CASE c.action = "Rotate"
  <2>1. c.session = f.current.id /\ ~OutOfTime(f, c.at)
    BY <1>2, <1>3 DEF ApplyRotation
  <2>2. CASE c.token = f.current.id
    <3>1. t \in RotateActiveLeaf(f, c)
      BY <1>2, <1>3, <2>1, <2>2 DEF ApplyRotation
    <3>2. Rotates(f, c, t)
      BY <1>3, <2>1, <3>1, CommandIs DEF RotateActiveLeaf, Rotates, Rotation
    <3> QED BY <1>1, <3>2
  <2>3. CASE c.token # f.current.id
    <3>1. c.token \in RotatedIds(f) /\ t \in RevokeForReuse(f, c)
      BY <1>2, <1>3, <2>1, <2>3 DEF ApplyRotation
    <3> QED BY <1>1, <3>1 DEF RevokeForReuse, Ends
  <2> QED BY <2>2, <2>3
<1>4. CASE c.action = "DetectReuse"
  <2>1. c.session \in RotatedIds(f) /\ t \in RevokeForReuse(f, c)
    BY <1>2, <1>4 DEF ApplyReuseDetection
  <2> QED BY <1>1, <2>1 DEF RevokeForReuse, Ends
<1>5. CASE c.action = "Revoke"
  BY <1>1, <1>2, <1>5 DEF Ends
<1>6. CASE c.action = "Expire"
  <2>1. OutOfTime(f, c.at) /\ t \in {Transition(Ended(f, "Expired"), c.actor, c.at, "Expired")}
    BY <1>2, <1>6 DEF ApplyExpire
  <2> QED BY <1>1, <2>1 DEF Ends
<1> QED BY <1>3, <1>4, <1>5, <1>6, CommandIs

\* A decision leads to a snapshot that can be loaded and follows the one it was
\* made on.
LEMMA DecisionLeads ==
    ASSUME NEW f \in Families, Sound(f), NEW c \in Commands, NEW e, NEW t \in Decide(f, c, e)
    PROVE  /\ t.family \in Families /\ Sound(t.family) /\ Follows(f, t.family)
           /\ t = [family |-> t.family, event |-> t.event]
           /\ t.event = Event(t.family, c.actor, c.at, t.event.kind)
           /\ \/ t.event.kind = "Rotated" /\ t.family.state = "Active" /\ t.family.current.at = c.at
                 /\ Len(t.family.rotated) = Len(f.rotated) + 1
              \/ /\ t.event.kind \in Terminal /\ t.family.state # "Active"
                 /\ Len(t.family.rotated) = Len(f.rotated)
                 /\ c.at >= t.family.current.at
                 /\ \/ t.family.state = "Revoked" /\ t.event.kind = "ReuseRevoked" /\ f.rotated # <<>>
                    \/ t.family.state = "Revoked" /\ t.event.kind = "Revoked"
                    \/ t.family.state = "Expired" /\ t.event.kind = "Expired" /\ OutOfTime(t.family, c.at)
<1>1. f.state = "Active" /\ ~(c.at < f.current.at) /\ (Rotates(f, c, t) \/ Ends(f, c, t))
  BY DecisionIs
<1>2. c.at \in Times /\ c.at \in Int /\ f.current \in LeafRows /\ f.current.at \in Times /\ f.current.at \in Int
  BY CommandIs, LeavesAre, TimesAreInts DEF LeafRows
<1>3. c.at >= f.current.at
  BY <1>1, <1>2
<1>4. CASE Rotates(f, c, t)
  <2> DEFINE g == Rotation(f, c.successor, c.at, c.idle)
  <2>1. t = Transition(g, c.actor, c.at, "Rotated")
    BY <1>4 DEF Rotates
  <2>2. /\ g \in Families /\ Sound(g) /\ Follows(f, g) /\ g.state = "Active"
        /\ Len(g.rotated) = Len(f.rotated) + 1 /\ g.current = ActiveLeaf(c.successor, c.at, c.idle)
    BY <1>1, <1>2, <1>3, <1>4, RotationIs DEF Rotates
  <2>3. g.current.at = c.at
    BY <2>2 DEF ActiveLeaf
  <2> HIDE DEF g
  <2>4. /\ t.family = g /\ t.event = Event(g, c.actor, c.at, "Rotated") /\ t.event.kind = "Rotated"
        /\ t = [family |-> t.family, event |-> t.event]
    BY <2>1 DEF Transition, Event
  <2> QED BY <2>2, <2>3, <2>4
<1>5. CASE Ends(f, c, t)
  <2>1. PICK s \in {"Revoked", "Expired"}, k \in Terminal :
          /\ t = Transition(Ended(f, s), c.actor, c.at, k)
          /\ \/ s = "Revoked" /\ k = "ReuseRevoked" /\ RotatedIds(f) # {}
             \/ s = "Revoked" /\ k = "Revoked"
             \/ s = "Expired" /\ k = "Expired" /\ OutOfTime(f, c.at)
    BY <1>5 DEF Ends, Terminal
  <2> DEFINE g == Ended(f, s)
  <2>2. /\ g \in Families /\ Sound(g) /\ Follows(f, g) /\ g.state = s
        /\ Len(g.rotated) = Len(f.rotated)
        /\ g.current.id = f.current.id /\ g.current.at = f.current.at /\ g.current.idle = f.current.idle
    BY <1>1, EndedIs
  <2>3. RotatedIds(f) # {} => f.rotated # <<>>
    BY DEF RotatedIds
  <2>4. OutOfTime(f, c.at) => OutOfTime(g, c.at)
    BY <2>2 DEF OutOfTime, Follows
  <2>5. t = Transition(g, c.actor, c.at, k)
    BY <2>1
  <2> HIDE DEF g
  <2>6. /\ t.family = g /\ t.event = Event(g, c.actor, c.at, k) /\ t.event.kind = k
        /\ t = [family |-> t.family, event |-> t.event]
    BY <2>5 DEF Transition, Event
  <2> QED BY <1>3, <2>1, <2>2, <2>3, <2>4, <2>6
<1> QED BY <1>1, <1>4, <1>5

-----------------------------------------------------------------------------
(* The repository decides again.                                           *)

LEMMA ReplayIs ==
    ASSUME NEW f \in Families, Sound(f), NEW c \in Commands, NEW e, NEW t \in Decide(f, c, e)
    PROVE  Replay(f, t, e) = {t}
<1>1. /\ f.version = e /\ f.state = "Active" /\ ~(c.at < f.issued) /\ ~(c.at < f.current.at)
      /\ Rotates(f, c, t) \/ Ends(f, c, t)
  BY DecisionIs
<1> DEFINE d == ReplayAction(f, t)
<1>2. Replay(f, t, e) = Decide(f, d, e)
  BY DEF Replay
<1>3. CASE Rotates(f, c, t)
  <2>1. /\ t.event.kind = "Rotated" /\ t.event.actor = c.actor /\ t.event.at = c.at
        /\ t.family.current.id = c.successor /\ t.family.current.idle = c.idle
    <3>1. t.event = Event(Rotation(f, c.successor, c.at, c.idle), c.actor, c.at, "Rotated")
          /\ t.family = Rotation(f, c.successor, c.at, c.idle)
      BY <1>3 DEF Rotates, Transition
    <3>2. t.family.current = ActiveLeaf(c.successor, c.at, c.idle)
      BY <3>1 DEF Rotation, Families
    <3> QED BY <3>1, <3>2 DEF Event, ActiveLeaf
  <2>2. /\ d.action = "Rotate" /\ d.session = f.current.id /\ d.token = f.current.id
        /\ d.successor = c.successor /\ d.idle = c.idle /\ d.actor = c.actor /\ d.at = c.at
    BY <2>1 DEF ReplayAction
  <2> HIDE DEF d
  <2>3. Decide(f, d, e) = RotateActiveLeaf(f, d)
    <3>1. ~OutOfTime(f, d.at)
      BY <1>3, <2>2 DEF Rotates
    <3>2. ApplyRotation(f, d) = RotateActiveLeaf(f, d)
      BY <2>2, <3>1 DEF ApplyRotation
    <3> QED BY <1>1, <2>2, <3>2 DEF Decide
  <2>4. RotateActiveLeaf(f, d) = {t}
    BY <1>3, <2>2 DEF RotateActiveLeaf, Rotates, Rotation
  <2> QED BY <1>2, <2>3, <2>4
<1>4. CASE t = Transition(Ended(f, "Revoked"), c.actor, c.at, "ReuseRevoked") /\ RotatedIds(f) # {}
  <2>1. t.event.kind = "ReuseRevoked" /\ t.event.actor = c.actor /\ t.event.at = c.at
    BY <1>4 DEF Transition, Event
  <2>2. /\ d.action = "DetectReuse" /\ d.session = f.rotated[1].id /\ d.token = f.rotated[1].id
        /\ d.actor = c.actor /\ d.at = c.at
    BY <2>1 DEF ReplayAction
  <2> HIDE DEF d
  <2>3. f.rotated[1].id \in RotatedIds(f)
    <3>1. PICK i \in DOMAIN f.rotated : TRUE
      BY <1>4 DEF RotatedIds
    <3>2. 1 \in DOMAIN f.rotated
      BY <3>1, LeavesAre
    <3> QED BY <3>2 DEF RotatedIds
  <2>4. ApplyReuseDetection(f, d) = {t}
    BY <1>4, <2>2, <2>3 DEF ApplyReuseDetection, RevokeForReuse
  <2> QED BY <1>1, <1>2, <2>2, <2>4 DEF Decide
<1>5. CASE t = Transition(Ended(f, "Revoked"), c.actor, c.at, "Revoked")
  <2>1. t.event.kind = "Revoked" /\ t.event.actor = c.actor /\ t.event.at = c.at
    BY <1>5 DEF Transition, Event
  <2>2. d.action = "Revoke" /\ d.actor = c.actor /\ d.at = c.at
    BY <2>1 DEF ReplayAction
  <2> HIDE DEF d
  <2> QED BY <1>1, <1>2, <1>5, <2>2 DEF Decide
<1>6. CASE t = Transition(Ended(f, "Expired"), c.actor, c.at, "Expired") /\ OutOfTime(f, c.at)
  <2>1. t.event.kind = "Expired" /\ t.event.actor = c.actor /\ t.event.at = c.at
    BY <1>6 DEF Transition, Event
  <2>2. d.action = "Expire" /\ d.actor = c.actor /\ d.at = c.at
    BY <2>1 DEF ReplayAction
  <2> HIDE DEF d
  <2>3. ApplyExpire(f, d) = {t}
    BY <1>6, <2>2 DEF ApplyExpire
  <2> QED BY <1>1, <1>2, <2>2, <2>3 DEF Decide
<1> QED BY <1>1, <1>3, <1>4, <1>5, <1>6 DEF Ends

-----------------------------------------------------------------------------
(* Events.                                                                 *)

\* verify_event_history: the first n events, and the one that ends a family.
LeafEvents(f, ev, n) ==
    \A v \in 1..n :
        /\ ev[v].kind = IF v = 1 THEN "Issued" ELSE "Rotated"
        /\ ev[v].leaf = AllLeaves(f)[v].id /\ ev[v].version = v /\ ev[v].at = AllLeaves(f)[v].at
EndEvent(f, last) ==
    /\ last.leaf = f.current.id /\ last.version = f.version
    /\ \/ f.state = "Revoked" /\ last.kind = "ReuseRevoked" /\ f.rotated # <<>> /\ last.at >= f.current.at
       \/ f.state = "Revoked" /\ last.kind = "Revoked" /\ last.at >= f.current.at
       \/ f.state = "Expired" /\ last.kind = "Expired" /\ OutOfTime(f, last.at)

LEMMA EventsAre ==
    ASSUME NEW f \in Families, NEW ev, NEW n, n = Len(f.rotated)
    PROVE  EventsMatch(f, ev) <=> /\ Len(ev) = f.version /\ LeafEvents(f, ev, n + 1)
                                  /\ f.state # "Active" => EndEvent(f, ev[n + 2])
<1>1. n \in Nat /\ DOMAIN AllLeaves(f) = 1..(n + 1) /\ Len(AllLeaves(f)) + 1 = n + 2
  BY LeavesAre
<1> QED BY <1>1 DEF EventsMatch, LeafEvents, EndEvent

LEMMA EventsFollow ==
    ASSUME NEW f \in Families, Sound(f), NEW c \in Commands, NEW e, NEW t \in Decide(f, c, e),
           NEW ev, EventsMatch(f, ev), NEW dv, Len(dv) = Len(ev) + 1,
           \A i \in 1..Len(ev) : dv[i] = ev[i], dv[Len(ev) + 1] = t.event
    PROVE  EventsMatch(t.family, dv)
<1> DEFINE g == t.family
           n == Len(f.rotated)
<1>1. /\ g \in Families /\ Sound(g) /\ Follows(f, g) /\ t.event = Event(g, c.actor, c.at, t.event.kind)
      /\ \/ t.event.kind = "Rotated" /\ g.state = "Active" /\ g.current.at = c.at
            /\ Len(g.rotated) = n + 1
         \/ /\ g.state # "Active" /\ Len(g.rotated) = n /\ c.at >= g.current.at
            /\ \/ g.state = "Revoked" /\ t.event.kind = "ReuseRevoked" /\ f.rotated # <<>>
               \/ g.state = "Revoked" /\ t.event.kind = "Revoked"
               \/ g.state = "Expired" /\ t.event.kind = "Expired" /\ OutOfTime(g, c.at)
  BY DecisionLeads, Zenon
<1>2. n \in Nat /\ f.version = n + 1 /\ g.version = n + 2 /\ f.version \in Nat
  <2>1. n \in Nat /\ f.state = "Active" /\ g.version = f.version + 1
    BY <1>1, LeavesAre DEF Follows
  <2>2. f.version = n + 1
    BY <2>1 DEF Sound, Staged
  <2> HIDE DEF n, g
  <2> QED BY <2>1, <2>2
<1>3. Len(ev) = f.version /\ LeafEvents(f, ev, n + 1)
  BY EventsAre, Zenon
<1>4. Len(dv) = g.version /\ dv[n + 2] = t.event /\ \A v \in 1..(n + 1) : dv[v] = ev[v]
  BY <1>2, <1>3
<1>5. \A v \in 1..(n + 1) : AllLeaves(g)[v].id = AllLeaves(f)[v].id /\ AllLeaves(g)[v].at = AllLeaves(f)[v].at
  BY <1>1 DEF Follows, SameLeaf
<1>6. LeafEvents(g, dv, n + 1)
  <2> HIDE DEF g, n
  <2> SUFFICES ASSUME NEW v \in 1..(n + 1)
               PROVE  /\ dv[v].kind = IF v = 1 THEN "Issued" ELSE "Rotated"
                      /\ dv[v].leaf = AllLeaves(g)[v].id /\ dv[v].version = v /\ dv[v].at = AllLeaves(g)[v].at
    BY DEF LeafEvents
  <2> QED BY <1>3, <1>4, <1>5 DEF LeafEvents
<1>7. t.event.leaf = g.current.id /\ t.event.version = g.version /\ t.event.at = c.at
  BY <1>1 DEF Event
<1> HIDE DEF g, n
<1>8. CASE t.event.kind = "Rotated" /\ g.state = "Active" /\ g.current.at = c.at /\ Len(g.rotated) = n + 1
  <2>1. AllLeaves(g)[(n + 1) + 1] = g.current
    BY <1>1, <1>8, LeavesAre
  <2>2. (n + 1) + 1 = n + 2 /\ n + 2 # 1 /\ \A v \in 1..((n + 1) + 1) : v \in 1..(n + 1) \/ v = n + 2
    BY <1>2
  <2>3. LeafEvents(g, dv, (n + 1) + 1)
    BY <1>2, <1>4, <1>6, <1>7, <1>8, <2>1, <2>2 DEF LeafEvents
  <2>4. EventsMatch(g, dv)
    BY <1>1, <1>4, <1>8, <2>3, EventsAre, Zenon
  <2> QED BY <2>4 DEF g
<1>9. CASE /\ g.state # "Active" /\ Len(g.rotated) = n /\ c.at >= g.current.at
           /\ \/ g.state = "Revoked" /\ t.event.kind = "ReuseRevoked" /\ f.rotated # <<>>
              \/ g.state = "Revoked" /\ t.event.kind = "Revoked"
              \/ g.state = "Expired" /\ t.event.kind = "Expired" /\ OutOfTime(g, c.at)
  <2>1. f.rotated # <<>> => g.rotated # <<>>
    <3>1. f.rotated \in Seq(LeafRows) /\ g.rotated \in Seq(LeafRows)
      BY <1>1, LeavesAre
    <3>2. Len(g.rotated) = Len(f.rotated)
      BY <1>9 DEF n
    <3> QED BY <3>1, <3>2
  <2>2. EndEvent(g, dv[n + 2])
    BY <1>4, <1>7, <1>9, <2>1 DEF EndEvent
  <2>3. EventsMatch(g, dv)
    BY <1>1, <1>4, <1>6, <1>9, <2>2, EventsAre, Zenon
  <2> QED BY <2>3 DEF g
<1> QED BY <1>1, <1>8, <1>9

LEMMA IssueLeads ==
    ASSUME NEW id \in Leaves, NEW actor, NEW at \in Times, NEW idle \in Times, NEW absolute \in Times,
           NEW t \in Issue(id, actor, at, idle, absolute)
    PROVE  /\ t.family \in Families /\ Sound(t.family) /\ t.family.version = 1 /\ t.family.state = "Active"
           /\ t = [family |-> t.family, event |-> t.event] /\ t.event.kind = "Issued"
           /\ t.event = Event(t.family, actor, at, "Issued")
           /\ \A dv : Len(dv) = 1 /\ dv[1] = t.event => EventsMatch(t.family, dv)
<1> DEFINE a == ActiveLeaf(id, at, idle)
           g == [version |-> 1, state |-> "Active", issued |-> at, absolute |-> absolute,
                 current |-> a, rotated |-> <<>>]
<1>1. t = Transition(g, actor, at, "Issued") /\ absolute - at \in 1..MaxAbsolute /\ ValidIdle(at, idle, absolute)
  BY DEF Issue
<1>2. a \in LeafRows /\ a.id = id /\ a.at = at /\ a.idle = idle /\ a.state = "Active" /\ a.version = 1
  BY DEF ActiveLeaf, LeafRows
<1> HIDE DEF a
<1>3. /\ g.version = 1 /\ g.state = "Active" /\ g.issued = at /\ g.absolute = absolute /\ g.current = a
      /\ g.rotated = <<>> /\ Len(g.rotated) = 0
  OBVIOUS
<1>4. g \in Families
  <2>1. <<>> \in Seq(LeafRows)
    OBVIOUS
  <2> QED BY <1>2, <2>1 DEF Families
<1> HIDE DEF g
<1>5. AllLeaves(g)[1] = a
  <2>1. AllLeaves(g)[Len(g.rotated) + 1] = a
    BY <1>3, <1>4, LeavesAre
  <2> QED BY <1>3, <2>1
<1>6. Sound(g)
  <2>1. Staged(g)
    BY <1>2, <1>3 DEF Staged
  <2>2. Lines(g)
    <3>1. \A i \in 1..(Len(g.rotated) + 1) : i = 1
      BY <1>3
    <3>2. \A i \in 2..(Len(g.rotated) + 1) : FALSE
      BY <1>3
    <3> QED BY <1>1, <1>2, <1>3, <1>5, <3>1, <3>2 DEF Lines
  <2>3. Len(g.rotated) <= MaxRotated
    BY <1>3, FamilyAssumption DEF FamilyAssumption
  <2> QED BY <1>1, <1>3, <2>1, <2>2, <2>3 DEF Sound
<1>7. t.family = g /\ t.event = Event(g, actor, at, "Issued") /\ t = [family |-> t.family, event |-> t.event]
  BY <1>1 DEF Transition
<1>8. t.event.kind = "Issued" /\ t.event.leaf = a.id /\ t.event.version = 1 /\ t.event.at = at
  BY <1>3, <1>7 DEF Event
<1>9. ASSUME NEW dv, Len(dv) = 1, dv[1] = t.event PROVE EventsMatch(g, dv)
  <2>1. \A v \in 1..(0 + 1) : v = 1
    OBVIOUS
  <2>2. LeafEvents(g, dv, 0 + 1)
    BY <1>2, <1>5, <1>8, <1>9, <2>1 DEF LeafEvents
  <2> QED BY <1>3, <1>4, <1>9, <2>2, EventsAre, Zenon
<1> QED BY <1>3, <1>4, <1>6, <1>7, <1>8, <1>9

\* A rotation on record replaced the leaf before its own.
LEMMA RotatedAt ==
    ASSUME NEW f \in Families, Sound(f), NEW ev, EventsMatch(f, ev), NEW v \in 1..f.version, ev[v].kind = "Rotated"
    PROVE  /\ v - 1 \in 1..(Len(f.rotated) + 1)
           /\ Last(FamilyAt(f, v).rotated).id = AllLeaves(f)[v - 1].id
<1> DEFINE n == Len(f.rotated)
<1>1. /\ n \in Nat /\ f.version \in Nat /\ f.version \in {n + 1, n + 2} /\ (f.version = n + 1 => f.state = "Active")
      /\ AllLeaves(f) \in Seq(LeafRows) /\ DOMAIN AllLeaves(f) = 1..(n + 1)
      /\ \A i \in 1..n : AllLeaves(f)[i] = f.rotated[i]
  BY LeavesAre DEF Sound, Staged
<1>2. LeafEvents(f, ev, n + 1) /\ (f.state # "Active" => EndEvent(f, ev[n + 2]))
  BY EventsAre, Zenon
<1>3. v # n + 2
  <2> SUFFICES ASSUME v = n + 2 PROVE FALSE
    OBVIOUS
  <2>1. f.state # "Active"
    BY <1>1 DEF Sound, Staged
  <2> QED BY <1>2, <2>1 DEF EndEvent
<1>4. v \in 1..(n + 1)
  BY <1>1, <1>3
<1>5. v # 1
  BY <1>2, <1>4 DEF LeafEvents
<1>6. v - 1 \in 1..n /\ v - 1 \in 1..(n + 1)
  BY <1>1, <1>4, <1>5
<1>7. CASE v = f.version
  <2>1. FamilyAt(f, v) = f /\ v - 1 = n
    BY <1>1, <1>3, <1>7 DEF FamilyAt
  <2> QED BY <1>1, <1>6, <2>1 DEF Last
<1>8. CASE v # f.version
  <2> DEFINE s == [i \in 1..(v - 1) |-> HistoricalLeaf(AllLeaves(f)[i], "Rotated")]
  <2>1. FamilyAt(f, v) = Rebuilt(f, v)
    BY <1>8 DEF FamilyAt, Rebuilt
  <2>2. Rebuilt(f, v) = [version |-> v, state |-> "Active", issued |-> f.issued, absolute |-> f.absolute,
                         current |-> HistoricalLeaf(AllLeaves(f)[v], "Active"), rotated |-> s]
    BY RebuiltIs, Zenon
  <2>3. FamilyAt(f, v).rotated = s
    BY <2>1, <2>2
  <2>4. v - 1 \in Nat /\ Len(s) = v - 1
    BY <1>6
  <2>5. s[v - 1] = HistoricalLeaf(AllLeaves(f)[v - 1], "Rotated")
    BY <1>6
  <2>6. AllLeaves(f)[v - 1] \in LeafRows
    BY <1>1, <1>6
  <2> HIDE DEF s
  <2>7. s[v - 1].id = AllLeaves(f)[v - 1].id
    BY <2>5, <2>6 DEF HistoricalLeaf, LeafRows
  <2> QED BY <1>6, <2>3, <2>4, <2>7 DEF Last
<1> QED BY <1>6, <1>7, <1>8

-----------------------------------------------------------------------------
(* The repository.                                                         *)

EventRows ==
    [kind : {"Issued", "Rotated"} \cup Terminal, leaf : Leaves, version : Nat, actor : Actors, at : Times]
Entries == [event : EventRows, family : Families, clock : Clocks]
EventsOf(h) == [v \in DOMAIN h |-> h[v].event]

OnRecord(t, h) ==
    /\ t.family.version \in DOMAIN h
    /\ h[t.family.version].event = t.event /\ h[t.family.version].family = t.family

\* What is durable can be loaded, and every version rebuilt from the latest.
FamilyOK(f, h) ==
    /\ h \in Seq(Entries)
    /\ f = NoFamily => h = <<>>
    /\ f # NoFamily => /\ f \in Families /\ Sound(f) /\ EventsMatch(f, EventsOf(h)) /\ Len(h) = f.version
                       /\ \A v \in 1..Len(h) : FamilyAt(f, v) = h[v].family

LinkOK ==
    /\ DOMAIN link = {"state", "linked", "revoked"}
    /\ family # NoFamily /\ family.state # "Active" => link.state = "Revoked"

\* A plan is a transition; one that may still be committed was decided on a
\* snapshot that is on record, or issues the family.
TransitionOK(t) ==
    /\ t = [family |-> t.family, event |-> t.event]
    /\ t.family \in Families /\ t.family.version \in Nat \ {0} /\ t.event \in EventRows
IssuanceOK(t) ==
    /\ Sound(t.family) /\ t.family.version = 1 /\ t.family.state = "Active"
    /\ \A dv : Len(dv) = 1 /\ dv[1] = t.event => EventsMatch(t.family, dv)
DecidedOK(t, e, h) == e \in DOMAIN h /\ \E c \in Commands : t \in Decide(h[e].family, c, e)

RequestOK(q, h) ==
    /\ DOMAIN q = {"pc", "plan", "expected", "result"} /\ q.pc \in {"Idle", "Ready", "Doubt", "Done"}
    /\ q.pc # "Idle" => TransitionOK(q.plan)
    /\ q.pc = "Ready" /\ q.plan.event.kind = "Issued" => IssuanceOK(q.plan)
    /\ q.pc = "Ready" /\ q.plan.event.kind # "Issued" => DecidedOK(q.plan, q.expected, h)
    /\ q.result = "Committed" => q.pc = "Done" /\ OnRecord(q.plan, h)

SessionIInv ==
    /\ FamilyOK(family, history) /\ LinkOK
    /\ request = [r \in Requests |-> request[r]] /\ \A r \in Requests : RequestOK(request[r], history)

LEMMA SessionStarts == SessionInit => SessionIInv
<1> SUFFICES ASSUME SessionInit PROVE SessionIInv
  OBVIOUS
<1>1. FamilyOK(family, history)
  BY DEF SessionInit, FamilyOK
<1>2. LinkOK
  BY DEF SessionInit, LinkOK, NoLink
<1>3. \A r \in Requests : request[r] = IdleRequest
  BY DEF SessionInit
<1>4. RequestOK(IdleRequest, history)
  BY DEF IdleRequest, RequestOK
<1>5. request = [r \in Requests |-> request[r]]
  BY DEF SessionInit
<1> QED BY <1>1, <1>2, <1>3, <1>4, <1>5 DEF SessionIInv

\* History only grows.
LEMMA RequestKept ==
    ASSUME NEW q, NEW h, NEW k, RequestOK(q, h),
           \A v \in DOMAIN h : v \in DOMAIN k /\ k[v] = h[v]
    PROVE  RequestOK(q, k)
BY DEF RequestOK, OnRecord, DecidedOK

LEMMA EventIs ==
    ASSUME NEW g \in Families, NEW actor \in Actors, NEW at \in Times, NEW kind \in {"Issued", "Rotated"} \cup Terminal
    PROVE  Event(g, actor, at, kind) \in EventRows /\ Event(g, actor, at, kind).kind = kind
<1>1. g.current.id \in Leaves /\ g.version \in Nat
  BY DEF Families, LeafRows
<1> QED BY <1>1 DEF Event, EventRows

LEMMA LatestIsOnRecord ==
    ASSUME NEW f, NEW h, f # NoFamily, FamilyOK(f, h)
    PROVE  f.version \in Nat \ {0} /\ f.version \in DOMAIN h /\ h[f.version].family = f
<1>1. /\ f \in Families /\ Sound(f) /\ h \in Seq(Entries) /\ Len(h) = f.version
      /\ \A v \in 1..Len(h) : FamilyAt(f, v) = h[v].family
  BY DEF FamilyOK
<1>2. f.version \in Nat \ {0}
  BY <1>1, LeavesAre DEF Sound, Staged
<1>3. f.version \in 1..Len(h) /\ f.version \in DOMAIN h
  BY <1>1, <1>2
<1>4. FamilyAt(f, f.version) = f
  BY DEF FamilyAt
<1> QED BY <1>1, <1>2, <1>3, <1>4

\* A step of request r that leaves the durable state alone.
LEMMA RequestMoves ==
    ASSUME SessionIInv, NEW r \in Requests, NEW q, RequestOK(q, history),
           request' = [request EXCEPT ![r] = q], UNCHANGED <<family, history, link>>
    PROVE  SessionIInv'
<1>1. request' = [s \in Requests |-> request'[s]] /\ \A s \in Requests : RequestOK(request'[s], history')
  BY DEF SessionIInv
<1> QED BY <1>1 DEF SessionIInv, LinkOK

LEMMA PlanKeeps ==
    ASSUME SessionIInv, NEW r \in Requests, Plan(r)
    PROVE  SessionIInv'
<1>0. UNCHANGED <<family, history, link>>
  BY DEF Plan
<1>1. CASE /\ family = NoFamily
           /\ \E id \in Leaves, at, idle \in Times, absolute \in Lifetimes :
                \E t \in Issue(id, Owner, at, idle, absolute) : Start(r, t, 1)
  <2>1. PICK id \in Leaves, at \in Times, idle \in Times, absolute \in Lifetimes :
          \E t \in Issue(id, Owner, at, idle, absolute) : Start(r, t, 1)
    BY <1>1
  <2>2. PICK t \in Issue(id, Owner, at, idle, absolute) : Start(r, t, 1)
    BY <2>1
  <2>3. absolute \in Times /\ Owner \in Actors
    BY StoreAssumption DEF StoreAssumption
  <2>4. /\ t.family \in Families /\ Sound(t.family) /\ t.family.version = 1 /\ t.family.state = "Active"
        /\ t = [family |-> t.family, event |-> t.event] /\ t.event.kind = "Issued"
        /\ t.event = Event(t.family, Owner, at, "Issued")
        /\ \A dv : Len(dv) = 1 /\ dv[1] = t.event => EventsMatch(t.family, dv)
    BY <2>3, IssueLeads, Zenon
  <2>5. t.event \in EventRows
    BY <2>3, <2>4, EventIs
  <2> DEFINE q == [pc |-> "Ready", plan |-> t, expected |-> 1, result |-> "None"]
  <2>6. TransitionOK(t) /\ IssuanceOK(t)
    BY <2>4, <2>5 DEF TransitionOK, IssuanceOK
  <2>7. RequestOK(q, history)
    BY <2>4, <2>6 DEF RequestOK
  <2>8. request' = [request EXCEPT ![r] = q]
    BY <2>2 DEF Start
  <2> HIDE DEF q
  <2> QED BY <1>0, <2>7, <2>8, RequestMoves
<1>2. CASE /\ family # NoFamily /\ Loads
           /\ \E c \in Commands : \E t \in Decide(family, c, family.version) : Start(r, t, family.version)
  <2>1. PICK c \in Commands : \E t \in Decide(family, c, family.version) : Start(r, t, family.version)
    BY <1>2
  <2>2. PICK t \in Decide(family, c, family.version) : Start(r, t, family.version)
    BY <2>1
  <2>3. family \in Families /\ Sound(family) /\ Len(history) = family.version /\ history \in Seq(Entries)
        /\ \A v \in 1..Len(history) : FamilyAt(family, v) = history[v].family
    BY <1>2 DEF SessionIInv, FamilyOK
  <2>4. family.version \in Nat \ {0}
    BY <2>3, LeavesAre DEF Sound, Staged
  <2>5. family.version \in DOMAIN history /\ history[family.version].family = family
    BY <1>2, LatestIsOnRecord DEF SessionIInv
  <2>6. /\ t.family \in Families /\ Follows(family, t.family)
        /\ t = [family |-> t.family, event |-> t.event]
        /\ t.event = Event(t.family, c.actor, c.at, t.event.kind) /\ t.event.kind \in {"Rotated"} \cup Terminal
    BY <2>3, DecisionLeads
  <2>7. t.event \in EventRows
    <3>1. c.actor \in Actors /\ c.at \in Times
      BY CommandIs
    <3> QED BY <2>6, <3>1, EventIs
  <2>8. t.family.version \in Nat \ {0} /\ t.event.kind # "Issued"
    BY <2>4, <2>6 DEF Follows, Terminal
  <2> DEFINE q == [pc |-> "Ready", plan |-> t, expected |-> family.version, result |-> "None"]
  <2>9. TransitionOK(t) /\ DecidedOK(t, family.version, history)
    BY <2>2, <2>5, <2>6, <2>7, <2>8 DEF TransitionOK, DecidedOK
  <2>10. RequestOK(q, history)
    BY <2>8, <2>9 DEF RequestOK
  <2>11. request' = [request EXCEPT ![r] = q]
    BY <2>2 DEF Start
  <2> HIDE DEF q
  <2> QED BY <1>0, <2>10, <2>11, RequestMoves
<1> QED BY <1>1, <1>2 DEF Plan

LEMMA AnswerKeeps ==
    ASSUME SessionIInv, NEW r \in Requests, NEW result, result = "Committed" => OnRecord(request[r].plan, history),
           request[r].pc # "Idle", Answer(r, result), UNCHANGED <<family, history, link>>
    PROVE  SessionIInv'
<1>1. RequestOK(request[r], history) /\ request = [s \in Requests |-> request[s]]
  BY DEF SessionIInv
<1> DEFINE q == IF result = "Committed"
                THEN [pc |-> "Done", plan |-> request[r].plan, expected |-> 0, result |-> result]
                ELSE IdleRequest
<1>2. request' = [request EXCEPT ![r] = q]
  BY <1>1 DEF Answer
<1>3. RequestOK(q, history)
  BY <1>1 DEF RequestOK, IdleRequest
<1> HIDE DEF q
<1> QED BY <1>2, <1>3, RequestMoves

LEMMA DoubtKeeps ==
    ASSUME SessionIInv, NEW r \in Requests, request[r].pc = "Ready", InDoubt(r), UNCHANGED <<family, history, link>>
    PROVE  SessionIInv'
<1>1. RequestOK(request[r], history) /\ request = [s \in Requests |-> request[s]]
  BY DEF SessionIInv
<1> DEFINE q == [request[r] EXCEPT !.pc = "Doubt"]
<1>2. request' = [request EXCEPT ![r] = q]
  BY <1>1 DEF InDoubt
<1>3. RequestOK(q, history)
  <2>1. DOMAIN q = DOMAIN request[r] /\ q.pc = "Doubt" /\ q.plan = request[r].plan /\ q.result = request[r].result
    BY <1>1 DEF RequestOK
  <2> HIDE DEF q
  <2> QED BY <1>1, <2>1 DEF RequestOK
<1> HIDE DEF q
<1> QED BY <1>2, <1>3, RequestMoves

\* What is confirmed is on record.
LEMMA ConfirmedIsOnRecord ==
    ASSUME SessionIInv, NEW t, TransitionOK(t), Confirms(t)
    PROVE  OnRecord(t, history)
<1>1. family # NoFamily /\ TargetMatches(t)
  BY DEF Confirms
<1>2. Len(history) = family.version /\ history \in Seq(Entries) /\ family.version \in Nat
  BY <1>1, LeavesAre DEF SessionIInv, FamilyOK
<1>3. t.family.version \in Nat \ {0} /\ family.version \in {t.family.version, t.family.version + 1}
  BY <1>1 DEF TransitionOK, TargetMatches
<1>4. t.family.version \in 1..Len(history)
  BY <1>2, <1>3
<1>5. t.family.version \in DOMAIN history
  BY <1>2, <1>4
<1> QED BY <1>1, <1>5 DEF TargetMatches, Evidenced, OnRecord

-----------------------------------------------------------------------------
(* A commit.                                                               *)

\* The plan that is accepted was decided on the snapshot that is stored.
LEMMA AcceptedIsCurrent ==
    ASSUME SessionIInv, NEW r \in Requests, request[r].pc = "Ready", request[r].plan.event.kind # "Issued",
           family.version = request[r].expected
    PROVE  /\ family # NoFamily
           /\ \E c \in Commands : request[r].plan \in Decide(family, c, request[r].expected)
<1>1. DecidedOK(request[r].plan, request[r].expected, history) /\ FamilyOK(family, history)
  BY DEF SessionIInv, RequestOK
<1>2. PICK c \in Commands : request[r].plan \in Decide(history[request[r].expected].family, c, request[r].expected)
  BY <1>1 DEF DecidedOK
<1>3. family # NoFamily
  BY <1>1 DEF DecidedOK, FamilyOK
<1>4. history[request[r].expected].family = family
  BY <1>1, <1>3, LatestIsOnRecord
<1> QED BY <1>2, <1>3, <1>4

Grown(h, x, k) ==
    /\ k \in Seq(Entries) /\ Len(k) = Len(h) + 1 /\ Len(h) \in Nat
    /\ DOMAIN h = 1..Len(h) /\ DOMAIN k = 1..(Len(h) + 1)
    /\ \A v \in 1..Len(h) : k[v] = h[v]
    /\ k[Len(h) + 1] = x
    /\ \A v \in DOMAIN h : v \in DOMAIN k /\ k[v] = h[v]
    /\ Len(EventsOf(h)) = Len(h) /\ Len(EventsOf(k)) = Len(h) + 1
    /\ \A v \in 1..Len(h) : EventsOf(k)[v] = EventsOf(h)[v]
    /\ EventsOf(k)[Len(h) + 1] = x.event

LEMMA HistoryGrows ==
    ASSUME NEW h \in Seq(Entries), NEW x \in Entries, NEW k, k = Append(h, x)
    PROVE  Grown(h, x, k)
<1>1. /\ k \in Seq(Entries) /\ Len(k) = Len(h) + 1 /\ Len(h) \in Nat
      /\ DOMAIN h = 1..Len(h) /\ DOMAIN k = 1..(Len(h) + 1)
      /\ \A v \in 1..Len(h) : k[v] = h[v]
      /\ k[Len(h) + 1] = x
  OBVIOUS
<1>2. \A v \in DOMAIN h : v \in DOMAIN k /\ k[v] = h[v]
  BY <1>1
<1>3. EventsOf(h) = [v \in 1..Len(h) |-> h[v].event] /\ EventsOf(k) = [v \in 1..(Len(h) + 1) |-> k[v].event]
  BY <1>1 DEF EventsOf
<1>4. Len(EventsOf(h)) = Len(h) /\ Len(EventsOf(k)) = Len(h) + 1
  BY <1>1, <1>3
<1>5. /\ \A v \in 1..Len(h) : EventsOf(k)[v] = EventsOf(h)[v]
      /\ EventsOf(k)[Len(h) + 1] = x.event
  BY <1>1, <1>3
<1> QED BY <1>1, <1>2, <1>4, <1>5 DEF Grown

LEMMA PersistKeeps ==
    ASSUME SessionIInv, NEW r \in Requests, request[r].pc = "Ready", Accepts(r), Persist(r)
    PROVE  /\ FamilyOK(family', history') /\ LinkOK' /\ OnRecord(request[r].plan, history')
           /\ \A v \in DOMAIN history : v \in DOMAIN history' /\ history'[v] = history[v]
<1> DEFINE t == request[r].plan
<1>1. PICK clock \in Clocks :
        /\ family' = t.family
        /\ history' = Append(history, [event |-> t.event, family |-> t.family, clock |-> clock])
        /\ link' = LinkAfter(t, clock)
  BY DEF Persist
<1> DEFINE x == [event |-> t.event, family |-> t.family, clock |-> clock]
<1>2. TransitionOK(t) /\ FamilyOK(family, history) /\ DOMAIN link = {"state", "linked", "revoked"}
  BY DEF SessionIInv, RequestOK, LinkOK
<1>3. x \in Entries /\ x.event = t.event /\ x.family = t.family /\ history \in Seq(Entries)
  BY <1>2 DEF TransitionOK, Entries, FamilyOK
<1>4. family' \in Families /\ family' # NoFamily
  BY <1>1, <1>2, NoFamilyAssumption DEF TransitionOK
<1>5. CASE t.event.kind = "Issued"
  <2>1. family = NoFamily /\ history = <<>> /\ IssuanceOK(t)
    BY <1>2, <1>5 DEF Accepts, FamilyOK, SessionIInv, RequestOK
  <2> HIDE DEF x, t
  <2>2. /\ history' \in Seq(Entries) /\ Len(history') = 1 /\ history'[1] = x /\ DOMAIN history' = 1..1
        /\ Len(EventsOf(history')) = 1 /\ EventsOf(history')[1] = t.event
        /\ \A v \in DOMAIN history : v \in DOMAIN history' /\ history'[v] = history[v]
    <3>1. Len(history) = 0 /\ history' = Append(history, x)
      BY <1>1, <2>1 DEF x
    <3>2. Len(history) + 1 = 1
      BY <3>1
    <3>3. Grown(history, x, history')
      BY <1>3, <3>1, HistoryGrows, Zenon
    <3> QED BY <1>3, <3>1, <3>2, <3>3 DEF Grown
  <2>3. FamilyAt(t.family, 1) = t.family
    BY <2>1 DEF FamilyAt, IssuanceOK
  <2>4. FamilyOK(family', history')
    <3>1. EventsMatch(t.family, EventsOf(history'))
      BY <2>1, <2>2 DEF IssuanceOK
    <3>2. \A v \in 1..Len(history') : FamilyAt(t.family, v) = history'[v].family
      BY <1>3, <2>2, <2>3
    <3> QED BY <1>1, <1>4, <2>1, <2>2, <3>1, <3>2 DEF FamilyOK, IssuanceOK
  <2>5. LinkOK'
    <3>1. link' = [NoLink EXCEPT !.state = "Active", !.linked = Fact(t, clock)]
      BY <1>1, <1>5 DEF LinkAfter, Terminal
    <3>2. DOMAIN link' = {"state", "linked", "revoked"}
      BY <3>1 DEF NoLink
    <3> QED BY <1>1, <2>1, <3>2 DEF LinkOK, IssuanceOK
  <2>6. OnRecord(t, history')
    BY <1>3, <2>1, <2>2 DEF OnRecord, IssuanceOK
  <2> QED BY <2>2, <2>4, <2>5, <2>6 DEF t
<1>6. CASE t.event.kind # "Issued"
  <2>1. family.version = request[r].expected
    BY <1>6 DEF Accepts
  <2>2. /\ family # NoFamily /\ \E c \in Commands : t \in Decide(family, c, request[r].expected)
    BY <1>6, <2>1, AcceptedIsCurrent
  <2>3. PICK c \in Commands : t \in Decide(family, c, request[r].expected)
    BY <2>2
  <2>4. /\ family \in Families /\ Sound(family) /\ EventsMatch(family, EventsOf(history))
        /\ Len(history) = family.version
        /\ \A v \in 1..Len(history) : FamilyAt(family, v) = history[v].family
    BY <1>2, <2>2 DEF FamilyOK
  <2> HIDE DEF x, t
  <2>5. /\ Sound(t.family) /\ Follows(family, t.family) /\ Staged(family)
        /\ (t.event.kind = "Rotated" => t.family.state = "Active") /\ t.event.kind \in {"Rotated"} \cup Terminal
    BY <2>3, <2>4, DecisionLeads DEF Sound, Terminal
  <2>6. /\ history' \in Seq(Entries) /\ Len(history') = Len(history) + 1 /\ Len(history) \in Nat
        /\ DOMAIN history = 1..Len(history) /\ DOMAIN history' = 1..(Len(history) + 1)
        /\ \A v \in 1..Len(history) : history'[v] = history[v]
        /\ history'[Len(history) + 1] = x
        /\ \A v \in DOMAIN history : v \in DOMAIN history' /\ history'[v] = history[v]
        /\ Len(EventsOf(history)) = Len(history) /\ Len(EventsOf(history')) = Len(history) + 1
        /\ \A v \in 1..Len(history) : EventsOf(history')[v] = EventsOf(history)[v]
        /\ EventsOf(history')[Len(history) + 1] = t.event
    <3>1. history' = Append(history, x)
      BY <1>1 DEF x
    <3>2. Grown(history, x, history')
      BY <1>3, <3>1, HistoryGrows, Zenon
    <3> QED BY <1>3, <3>2 DEF Grown
  <2>7. t.family.version = Len(history) + 1
    BY <2>4, <2>5 DEF Follows
  <2>8. EventsMatch(t.family, EventsOf(history'))
    BY <2>3, <2>4, <2>6, EventsFollow
  <2>9. ASSUME NEW v \in 1..Len(history') PROVE FamilyAt(t.family, v) = history'[v].family
    <3>1. CASE v \in 1..Len(history)
      <4>1. FamilyAt(t.family, v) = FamilyAt(family, v)
        BY <1>2, <2>4, <2>5, <3>1, RebuildsEarlier DEF TransitionOK
      <4> QED BY <2>4, <2>6, <3>1, <4>1
    <3>2. CASE v = Len(history) + 1
      <4>1. FamilyAt(t.family, v) = t.family
        BY <2>7, <3>2 DEF FamilyAt
      <4> QED BY <1>3, <2>6, <3>2, <4>1
    <3> QED BY <2>6, <3>1, <3>2
  <2>10. FamilyOK(family', history')
    BY <1>1, <1>4, <2>5, <2>6, <2>7, <2>8, <2>9 DEF FamilyOK
  <2>11. LinkOK'
    <3>1. DOMAIN link' = {"state", "linked", "revoked"}
      BY <1>1, <1>2, <1>6 DEF LinkAfter
    <3>2. t.event.kind \in Terminal => link'.state = "Revoked"
      BY <1>1, <1>2, <1>6 DEF LinkAfter
    <3> QED BY <1>1, <2>5, <3>1, <3>2 DEF LinkOK
  <2>12. OnRecord(t, history')
    BY <1>3, <2>6, <2>7 DEF OnRecord
  <2> QED BY <2>6, <2>10, <2>11, <2>12 DEF t
<1> QED BY <1>5, <1>6

LEMMA CommitKeeps ==
    ASSUME SessionIInv, NEW r \in Requests, Commit(r)
    PROVE  SessionIInv'
<1>1. request[r].pc = "Ready" /\ Accepts(r) /\ Persist(r) /\ (Answer(r, "Committed") \/ InDoubt(r))
  BY DEF Commit
<1>2. /\ FamilyOK(family', history') /\ LinkOK' /\ OnRecord(request[r].plan, history')
      /\ \A v \in DOMAIN history : v \in DOMAIN history' /\ history'[v] = history[v]
  BY <1>1, PersistKeeps
<1>3. \A s \in Requests : RequestOK(request[s], history')
  BY <1>2, RequestKept DEF SessionIInv
<1>4. PICK q : /\ request' = [request EXCEPT ![r] = q] /\ RequestOK(q, history')
  <2>1. CASE Answer(r, "Committed")
    <3> DEFINE q == [pc |-> "Done", plan |-> request[r].plan, expected |-> 0, result |-> "Committed"]
    <3>1. request' = [request EXCEPT ![r] = q]
      BY <2>1 DEF Answer, SessionIInv
    <3>2. RequestOK(q, history')
      BY <1>1, <1>2, <1>3 DEF RequestOK
    <3> HIDE DEF q
    <3> QED BY <3>1, <3>2
  <2>2. CASE InDoubt(r)
    <3> DEFINE q == [request[r] EXCEPT !.pc = "Doubt"]
    <3>1. request' = [request EXCEPT ![r] = q]
      BY <2>2 DEF InDoubt, SessionIInv
    <3>2. DOMAIN q = DOMAIN request[r] /\ q.pc = "Doubt" /\ q.plan = request[r].plan /\ q.result = request[r].result
      BY <1>3 DEF RequestOK
    <3> HIDE DEF q
    <3>3. RequestOK(q, history')
      BY <1>1, <1>3, <3>2 DEF RequestOK
    <3> QED BY <3>1, <3>3
  <2> QED BY <1>1, <2>1, <2>2
<1>5. request' = [s \in Requests |-> request'[s]] /\ \A s \in Requests : RequestOK(request'[s], history')
  BY <1>3, <1>4 DEF SessionIInv
<1> QED BY <1>2, <1>5 DEF SessionIInv

LEMMA SessionInvariant == SessionSpec => []SessionIInv
<1>1. SessionIInv /\ [SessionNext]_sessionVars => SessionIInv'
  <2> SUFFICES ASSUME SessionIInv, [SessionNext]_sessionVars PROVE SessionIInv'
    OBVIOUS
  <2>1. CASE UNCHANGED sessionVars
    BY <2>1 DEF SessionIInv, LinkOK, sessionVars
  <2>2. ASSUME NEW r \in Requests, Refuse(r) PROVE SessionIInv'
    BY <2>2, AnswerKeeps DEF Refuse
  <2>3. ASSUME NEW r \in Requests, CommitLost(r) PROVE SessionIInv'
    BY <2>3, DoubtKeeps DEF CommitLost
  <2>4. ASSUME NEW r \in Requests, Reconcile(r) PROVE SessionIInv'
    <3>1. TransitionOK(request[r].plan) /\ request[r].pc # "Idle"
      BY <2>4 DEF Reconcile, SessionIInv, RequestOK
    <3>2. PICK result : Answer(r, result) /\ (result = "Committed" => Confirms(request[r].plan))
                        /\ UNCHANGED <<family, history, link>>
      BY <2>4 DEF Reconcile
    <3>3. result = "Committed" => OnRecord(request[r].plan, history)
      BY <3>1, <3>2, ConfirmedIsOnRecord
    <3> QED BY <3>1, <3>2, <3>3, AnswerKeeps
  <2>5. CASE BindingChanges
    BY <2>5 DEF BindingChanges, SessionIInv, LinkOK
  <2>6. CASE RevokeLink
    <3>1. link' = [link EXCEPT !.state = "Revoked"] /\ UNCHANGED <<family, history, request>>
      BY <2>6 DEF RevokeLink
    <3>2. LinkOK'
      BY <3>1 DEF SessionIInv, LinkOK
    <3> QED BY <3>1, <3>2 DEF SessionIInv
  <2> QED BY <2>1, <2>2, <2>3, <2>4, <2>5, <2>6, PlanKeeps, CommitKeeps DEF SessionNext
<1> QED BY <1>1, SessionStarts, PTL DEF SessionSpec

\* For any leaves, lifetimes, clocks and requests at once: what a caller was told is
\* on record, no token was honoured twice, and every version can be rebuilt from the
\* latest and replayed from its predecessor.
THEOREM FamiliesStayOnRecord == SessionSpec => []FamilyIsOnRecord
<1>1. ASSUME SessionIInv PROVE ReceiptsAreTrue
  BY <1>1 DEF SessionIInv, RequestOK, OnRecord, ReceiptsAreTrue
<1>2. ASSUME SessionIInv PROVE HistoryRebuilds
  <2> SUFFICES ASSUME family # NoFamily
               PROVE  Loads /\ \A v \in DOMAIN history : FamilyAt(family, v) = history[v].family
    BY DEF HistoryRebuilds
  <2>1. /\ family \in Families /\ Sound(family) /\ EventsMatch(family, EventsOf(history)) /\ history \in Seq(Entries)
        /\ \A v \in 1..Len(history) : FamilyAt(family, v) = history[v].family
    BY <1>2 DEF SessionIInv, FamilyOK
  <2>2. ValidSnapshot(family)
    BY <2>1, SoundIs
  <2>3. DOMAIN history = 1..Len(history)
    BY <2>1
  <2> QED BY <2>1, <2>2, <2>3 DEF Loads, EventsOf
<1>3. ASSUME SessionIInv PROVE ReplayAgrees
  <2> SUFFICES ASSUME NEW r \in Requests, request[r].pc = "Ready", request[r].plan.event.kind # "Issued",
                      family.version = request[r].expected
               PROVE  Replay(family, request[r].plan, request[r].expected) = {request[r].plan}
    BY DEF ReplayAgrees
  <2>1. family # NoFamily /\ \E c \in Commands : request[r].plan \in Decide(family, c, request[r].expected)
    BY <1>3, AcceptedIsCurrent
  <2>2. family \in Families /\ Sound(family)
    BY <1>3, <2>1 DEF SessionIInv, FamilyOK
  <2> QED BY <2>1, <2>2, ReplayIs
<1>4. ASSUME SessionIInv PROVE TokensRotateOnce
  <2>1. ASSUME NEW r \in Rotations, NEW s \in Rotations,
               Last(request[r].plan.family.rotated).id = Last(request[s].plan.family.rotated).id
        PROVE  request[r].plan = request[s].plan
    <3> DEFINE t == request[r].plan
               u == request[s].plan
               v == t.family.version
               w == u.family.version
    <3>1. /\ t.event.kind = "Rotated" /\ u.event.kind = "Rotated" /\ OnRecord(t, history) /\ OnRecord(u, history)
          /\ TransitionOK(t) /\ TransitionOK(u)
      BY <1>4 DEF Rotations, SessionIInv, RequestOK
    <3>2. v \in DOMAIN history /\ w \in DOMAIN history
      BY <3>1 DEF OnRecord
    <3>3. family # NoFamily
      BY <1>4, <3>2 DEF SessionIInv, FamilyOK
    <3>4. /\ family \in Families /\ Sound(family) /\ EventsMatch(family, EventsOf(history)) /\ history \in Seq(Entries)
          /\ Len(history) = family.version /\ Lines(family)
          /\ \A i \in 1..Len(history) : FamilyAt(family, i) = history[i].family
      BY <1>4, <3>3 DEF SessionIInv, FamilyOK, Sound
    <3> HIDE DEF t, u, v, w
    <3>5. v \in 1..family.version /\ w \in 1..family.version /\ v \in Int /\ w \in Int
      BY <3>2, <3>4
    <3>6. /\ EventsOf(history)[v].kind = "Rotated" /\ FamilyAt(family, v) = t.family
          /\ EventsOf(history)[w].kind = "Rotated" /\ FamilyAt(family, w) = u.family
      BY <3>1, <3>2, <3>4, <3>5 DEF OnRecord, EventsOf, v, w
    <3>7. /\ v - 1 \in 1..(Len(family.rotated) + 1) /\ Last(t.family.rotated).id = AllLeaves(family)[v - 1].id
          /\ w - 1 \in 1..(Len(family.rotated) + 1) /\ Last(u.family.rotated).id = AllLeaves(family)[w - 1].id
      BY <3>4, <3>5, <3>6, RotatedAt
    <3>8. v - 1 = w - 1
      BY <2>1, <3>4, <3>7 DEF Lines, t, u
    <3>9. v = w
      BY <3>5, <3>8
    <3>10. t.family = u.family /\ t.event = u.event
      BY <3>1, <3>9 DEF OnRecord, v, w
    <3> QED BY <3>1, <3>10 DEF TransitionOK, t, u
  <2>2. ASSUME NEW v \in DOMAIN history, NEW w \in DOMAIN history, v < w
        PROVE  history[v].event.kind \notin Terminal
    <3>1. family # NoFamily
      BY <1>4 DEF SessionIInv, FamilyOK
    <3>2. /\ family \in Families /\ Sound(family) /\ EventsMatch(family, EventsOf(history)) /\ history \in Seq(Entries)
          /\ Len(history) = family.version
      BY <1>4, <3>1 DEF SessionIInv, FamilyOK
    <3>3. LeafEvents(family, EventsOf(history), Len(family.rotated) + 1)
      BY <3>2, EventsAre, Zenon
    <3>4. family.version \in {Len(family.rotated) + 1, Len(family.rotated) + 2} /\ Len(family.rotated) \in Nat
      BY <3>2, LeavesAre DEF Sound, Staged
    <3>5. v \in 1..(Len(family.rotated) + 1)
      BY <2>2, <3>2, <3>4
    <3>6. EventsOf(history)[v].kind \in {"Issued", "Rotated"}
      BY <3>3, <3>5 DEF LeafEvents
    <3> QED BY <3>6 DEF EventsOf, Terminal
  <2> QED BY <2>1, <2>2 DEF TokensRotateOnce
<1> QED BY <1>1, <1>2, <1>3, <1>4, SessionInvariant, PTL DEF FamilyIsOnRecord

\* An ended family leaves no live authenticator link behind, and neither comes back,
\* whatever requests were in flight.
THEOREM FamiliesStayEnded == SessionSpec => EndedStaysEnded
<1> DEFINE Gone == family # NoFamily /\ family.state # "Active"
           Stays == Gone => link.state = "Revoked" /\ UNCHANGED <<family, link>>
<1>1. SessionIInv /\ [SessionNext]_sessionVars => [Stays]_sessionVars
  <2> SUFFICES ASSUME SessionIInv, SessionNext, Gone PROVE link.state = "Revoked" /\ UNCHANGED <<family, link>>
    OBVIOUS
  <2>1. link.state = "Revoked"
    BY DEF SessionIInv, LinkOK
  <2>2. ASSUME NEW r \in Requests, Commit(r) PROVE FALSE
    <3>1. request[r].pc = "Ready" /\ Accepts(r)
      BY <2>2 DEF Commit
    <3>2. request[r].plan.event.kind # "Issued"
      BY <3>1 DEF Accepts
    <3>3. family.version = request[r].expected
      BY <3>1, <3>2 DEF Accepts
    <3>4. PICK c \in Commands : request[r].plan \in Decide(family, c, request[r].expected)
      BY <3>1, <3>2, <3>3, AcceptedIsCurrent
    <3> QED BY <3>4, DecisionIs
  <2>3. ~RevokeLink
    BY <2>1 DEF RevokeLink
  <2> QED BY <2>1, <2>2, <2>3 DEF SessionNext, Plan, Refuse, CommitLost, Reconcile, BindingChanges
<1> QED BY <1>1, SessionInvariant, PTL DEF SessionSpec, EndedStaysEnded
=============================================================================
