------------------------- MODULE CancellationToken -------------------------
(***************************************************************************)
(* The cancellation tree of ariadnion-core (src/crates/ariadnion-core/src/ *)
(* context.rs).  A token is a node with an atomic `cancelled` flag, a link *)
(* to its parent and a mutex-protected list of waiters.  A task that polls *)
(* a token registers its waker on the token and on every ancestor; a       *)
(* cancelled node wakes the waiters of its own list.                       *)
(*                                                                         *)
(* The flag is swapped outside the lock, so one step of this module is one *)
(* atomic access: a load or swap of a flag, or one critical section of one *)
(* node's list.  Threads are the polling tasks and the cancellers; every   *)
(* interleaving of their steps is a behaviour.                             *)
(***************************************************************************)
EXTENDS Naturals, FiniteSets

CONSTANTS
    Tokens,      \* token nodes (CancellationState)
    NoToken,     \* the parent of a root token
    Parent,      \* the tree: Tokens -> Tokens \cup {NoToken}
    Chain,       \* a token with all its ancestors: what Parent walks
    Tasks,       \* polling tasks; a task is its waker identity
    TokenOf,     \* the token each task polls
    Cancellers,  \* threads that call cancel()
    Held,        \* tokens the cancellers keep a clone of
    MaxWaiters   \* MAX_CANCELLATION_WAITERS

ASSUME TreeAssumption ==
    /\ NoToken \notin Tokens
    /\ Parent \in [Tokens -> Tokens \cup {NoToken}]
    /\ Chain \in [Tokens -> SUBSET Tokens]
    /\ \A k \in Tokens :
        IF Parent[k] = NoToken
        THEN Chain[k] = {k}
        ELSE Chain[k] = {k} \cup Chain[Parent[k]] /\ k \notin Chain[Parent[k]]
    /\ \A k \in Tokens : \A n \in Chain[k] : Chain[n] \subseteq Chain[k]

ASSUME ThreadAssumption ==
    /\ TokenOf \in [Tasks -> Tokens]
    /\ Tasks \cap Cancellers = {}
    /\ Held \subseteq Tokens
    /\ MaxWaiters \in Nat \ {0}

Threads == Tasks \cup Cancellers

VARIABLES
    cancelled,  \* the atomic flag of every token
    waiters,    \* the list of every token: pairs <<owner, task>>
    pc,         \* where each thread is
    tok,        \* the token each thread works on
    node,       \* the node of the parent chain it has reached
    taken,      \* waiters a canceller took out of a list and has yet to wake
    woken       \* whether a task's waker ran since the task's last poll

vars == <<cancelled, waiters, pc, tok, node, taken, woken>>

\* A list holds one entry per (owner, waker): find_waiter_index replaces.
Waiter == Tokens \X Tasks

\* register_waker: load .. check; cancel: swap .. wake; after a positive
\* answer register_waker unlinks the whole chain.
Registering == {"load", "purge", "push", "check"}
Cancelling  == {"swap", "take", "prune", "wake"}
PC == {"idle", "pending", "done", "dropped", "unlink"} \cup Registering \cup Cancelling

Init ==
    /\ cancelled = [k \in Tokens |-> FALSE]
    /\ waiters = [k \in Tokens |-> {}]
    /\ pc = [t \in Threads |-> "idle"]
    /\ tok \in {[t \in Threads |-> IF t \in Tasks THEN TokenOf[t] ELSE k] : k \in Held}
    /\ node = tok
    /\ taken = [t \in Threads |-> {}]
    /\ woken = [t \in Tasks |-> FALSE]

-----------------------------------------------------------------------------
(* Helpers shared by the operations.                                       *)

\* is_cancelled: the flag of the token or of any ancestor.
IsCancelled(k) == \E n \in Chain[k] : cancelled[n]

\* The owner of a waiter upgrades while some clone of it (or of a descendant,
\* which keeps its parent alive) still exists.
Alive(k) ==
    \/ k \in Held
    \/ \E t \in Tasks : pc[t] # "dropped" /\ k \in Chain[TokenOf[t]]

IsActive(w) == Alive(w[1]) /\ ~IsCancelled(w[1])

Entry(t) == <<tok[t], t>>

OwnedBy(k, ws) == {w \in ws : w[1] = k}

\* Mutant: the walk stops at once.
ClimbNowhere(t, next, exit) ==
    /\ pc' = [pc EXCEPT ![t] = exit]
    /\ node' = [node EXCEPT ![t] = tok[t]]

\* Walk to the parent, or leave the loop at `exit`.
Climb(t, next, exit) ==
    IF Parent[node[t]] = NoToken
    THEN /\ pc' = [pc EXCEPT ![t] = exit]
         /\ node' = [node EXCEPT ![t] = tok[t]]
    ELSE /\ pc' = [pc EXCEPT ![t] = next]
         /\ node' = [node EXCEPT ![t] = Parent[node[t]]]

Goto(t, label) ==
    /\ pc' = [pc EXCEPT ![t] = label]
    /\ node' = [node EXCEPT ![t] = tok[t]]

-----------------------------------------------------------------------------
(* register_waker, called by a task that polls.                            *)

BeginRegister(t) ==
    /\ pc[t] \in {"idle", "pending"}
    /\ Goto(t, "load")
    /\ woken' = [woken EXCEPT ![t] = FALSE]
    /\ UNCHANGED <<cancelled, waiters, tok, taken>>

\* register_local_waker, first load: a cancelled node ends the chain.
LoadFlag(t) ==
    /\ pc[t] = "load"
    /\ IF cancelled[node[t]]
       THEN Goto(t, "unlink")
       ELSE pc' = [pc EXCEPT ![t] = "purge"] /\ UNCHANGED node
    /\ UNCHANGED <<cancelled, waiters, tok, taken, woken>>

\* remove_inactive_waiters: one critical section of its own.
RemoveInactiveWaiters(t) ==
    /\ pc[t] = "purge"
    /\ waiters' = [waiters EXCEPT ![node[t]] = {w \in @ : IsActive(w)}]
    /\ pc' = [pc EXCEPT ![t] = "push"]
    /\ UNCHANGED <<cancelled, tok, node, taken, woken>>

HasRoom(t) ==
    \/ Entry(t) \in waiters[node[t]]
    \/ Cardinality(waiters[node[t]]) < MaxWaiters

\* The critical section that inserts, after the second load of the flag.
PushWaiter(t) ==
    /\ pc[t] = "push"
    /\ \/ /\ cancelled[node[t]]
          /\ Goto(t, "unlink")
          /\ UNCHANGED waiters
       \/ /\ ~cancelled[node[t]]
          /\ HasRoom(t)
          /\ waiters' = [waiters EXCEPT ![node[t]] = @ \cup {Entry(t)}]
          /\ Climb(t, "load", "check")
       \/ /\ ~cancelled[node[t]]
          /\ ~HasRoom(t)
          /\ Goto(t, "swap")
          /\ UNCHANGED waiters
    /\ UNCHANGED <<cancelled, tok, taken, woken>>

\* Mutant: the registration is trusted without the final check.
FinalCheckSkipped(t) ==
    /\ pc[t] = "check"
    /\ Goto(t, "pending")
    /\ UNCHANGED <<cancelled, waiters, tok, taken, woken>>

\* The final check: a false answer leaves the task pending.
FinalCheck(t) ==
    /\ pc[t] = "check"
    /\ Goto(t, IF IsCancelled(tok[t]) THEN "unlink" ELSE "pending")
    /\ UNCHANGED <<cancelled, waiters, tok, taken, woken>>

\* remove_waker_chain before a true answer: one critical section per node.
UnlinkNode(t) ==
    /\ pc[t] = "unlink"
    /\ waiters' = [waiters EXCEPT ![node[t]] = @ \ OwnedBy(tok[t], @)]
    /\ Climb(t, "unlink", "done")
    /\ UNCHANGED <<cancelled, tok, taken, woken>>

\* A pending task is dropped; nothing removes its waiters.
DropTask(t) ==
    /\ pc[t] = "pending"
    /\ pc' = [pc EXCEPT ![t] = "dropped"]
    /\ UNCHANGED <<cancelled, waiters, tok, node, taken, woken>>

-----------------------------------------------------------------------------
(* cancel, called by a canceller or by register_waker on an exhausted node. *)

\* The caller whose swap finds the flag already set returns at once.
BeginCancel(t, k) ==
    /\ pc[t] = "idle"
    /\ ~cancelled[k]
    /\ cancelled' = [cancelled EXCEPT ![k] = TRUE]
    /\ tok' = [tok EXCEPT ![t] = k]
    /\ node' = [node EXCEPT ![t] = k]
    /\ pc' = [pc EXCEPT ![t] = "take"]
    /\ UNCHANGED <<waiters, taken, woken>>

CancelExhausted(t) ==
    /\ pc[t] = "swap"
    /\ cancelled' = [cancelled EXCEPT ![tok[t]] = TRUE]
    /\ Goto(t, IF cancelled[tok[t]] THEN "unlink" ELSE "take")
    /\ UNCHANGED <<waiters, tok, taken, woken>>

\* Mutant: remove_waker_chain runs before take_waiters.
PrunedBeforeTaken(t) ==
    /\ pc[t] = "take"
    /\ taken' = [taken EXCEPT ![t] = waiters[tok[t]] \ OwnedBy(tok[t], waiters[tok[t]])]
    /\ waiters' = [waiters EXCEPT ![tok[t]] = {}]
    /\ Goto(t, "prune")
    /\ UNCHANGED <<cancelled, tok, woken>>

TakeWaiters(t) ==
    /\ pc[t] = "take"
    /\ taken' = [taken EXCEPT ![t] = waiters[tok[t]]]
    /\ waiters' = [waiters EXCEPT ![tok[t]] = {}]
    /\ Goto(t, "prune")
    /\ UNCHANGED <<cancelled, tok, woken>>

\* remove_waker_chain inside cancel.
PruneNode(t) ==
    /\ pc[t] = "prune"
    /\ waiters' = [waiters EXCEPT ![node[t]] = @ \ OwnedBy(tok[t], @)]
    /\ Climb(t, "prune", "wake")
    /\ UNCHANGED <<cancelled, tok, taken, woken>>

WakeWaiters(t) ==
    /\ pc[t] = "wake"
    /\ woken' = [u \in Tasks |-> woken[u] \/ \E w \in taken[t] : w[2] = u]
    /\ taken' = [taken EXCEPT ![t] = {}]
    /\ Goto(t, IF t \in Tasks THEN "unlink" ELSE "idle")
    /\ UNCHANGED <<cancelled, waiters, tok>>

-----------------------------------------------------------------------------
\* The steps of a call in progress: the thread runs until the call returns.
Step(t) ==
    \/ LoadFlag(t) \/ RemoveInactiveWaiters(t) \/ PushWaiter(t)
    \/ FinalCheck(t) \/ UnlinkNode(t)
    \/ CancelExhausted(t) \/ TakeWaiters(t) \/ PruneNode(t) \/ WakeWaiters(t)

Next ==
    \/ \E t \in Tasks : BeginRegister(t) \/ DropTask(t)
    \/ \E c \in Cancellers, k \in Held : BeginCancel(c, k)
    \/ \E t \in Threads : Step(t)

Spec == Init /\ [][Next]_vars

\* Threads inside register_waker or cancel are scheduled; calls themselves
\* are up to the application.
FairSpec == Spec /\ \A t \in Threads : WF_vars(Step(t))

-----------------------------------------------------------------------------
(* Properties.                                                             *)

\* Flags, lists and the positions of threads are well formed.
TypeOK ==
    /\ cancelled \in [Tokens -> BOOLEAN]
    /\ waiters \in [Tokens -> SUBSET Waiter]
    /\ pc \in [Threads -> PC]
    /\ tok \in [Threads -> Tokens]
    /\ node \in [Threads -> Tokens]
    /\ taken \in [Threads -> SUBSET Waiter]
    /\ woken \in [Tasks -> BOOLEAN]

\* A task that register_waker left pending is on the list of its token and of
\* every ancestor as long as none of them is cancelled: whichever node is
\* cancelled next finds the task, whatever other tasks purge or unlink.
RegistrationCoversChain ==
    \A t \in Tasks :
        pc[t] = "pending" /\ ~IsCancelled(TokenOf[t])
            => \A n \in Chain[TokenOf[t]] : Entry(t) \in waiters[n]

Quiescent(k) == \A t \in Threads : tok[t] = k => pc[t] \notin Registering \cup Cancelling \cup {"unlink"}

\* Once a token itself is cancelled and no call on it is in progress, no list
\* of the tree keeps a waiter it owns: register_waker racing cancel cleans up
\* after itself.
NoStaleWaiters ==
    \A k \in Tokens :
        cancelled[k] /\ Quiescent(k) => \A n \in Tokens : OwnedBy(k, waiters[n]) = {}

\* A pending task whose token (or an ancestor) is cancelled is woken, polls
\* again or is dropped: the cancellation is not missed.
CancellationIsDelivered ==
    \A t \in Tasks :
        pc[t] = "pending" /\ IsCancelled(TokenOf[t]) ~> woken[t] \/ pc[t] # "pending"

\* What cancel() does deliver: a pending task that a cancelled node still has
\* on its list is woken, polls again or is dropped, unless another task is inside
\* register_waker (which may purge or unlink it); however many tasks registered,
\* left or filled a list before.
DeliveredUnlessOthersRegister ==
    \A t \in Tasks :
        pc[t] = "pending" /\ (\E n \in Chain[TokenOf[t]] : cancelled[n] /\ Entry(t) \in waiters[n])
            ~> \/ woken[t] \/ pc[t] # "pending"
               \/ \E u \in Tasks \ {t} : pc[u] \in Registering \cup {"unlink"}

=============================================================================
