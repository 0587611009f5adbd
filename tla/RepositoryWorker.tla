-------------------------- MODULE RepositoryWorker --------------------------
(***************************************************************************)
(* The worker threads that run blocking storage calls for async callers:   *)
(* one of the vault, one of the account import, one of the file catalog.   *)
(*                                                                         *)
(* A call puts a job into a bounded queue and waits on a cell that holds   *)
(* the answer and the waker of the caller's task.  The three differ in     *)
(* when a job is sent (the catalog sends it, and starts its thread, at the *)
(* first poll), in what becomes of the job of a caller that has gone (the  *)
(* vault drops it if it has not begun), in how a cell is completed (the    *)
(* catalog holds a first wake back until a second look at the cell) and in *)
(* how the thread is told to stop (a flag and a message, or the end of the *)
(* queue).  A future borrows the repository, so the repository is dropped  *)
(* only when every future is gone.                                         *)
(*                                                                         *)
(* Wakers that panic are not modelled, and a spawn does not fail.          *)
(***************************************************************************)
EXTENDS Naturals, Sequences, FiniteSets

CONSTANTS
    Calls,            \* calls on the repository
    WorkCapacity,     \* QUEUE_CAPACITY, WORK_QUEUE_CAPACITY
    NoCall

ASSUME WorkAssumption == WorkCapacity \in Nat \ {0} /\ NoCall \notin Calls

VARIABLES
    kind,             \* "vault" | "import" | "catalog"
    future,           \* per call: "new" | "waiting" | "answered" | "dropped"
    polling,          \* per call: where a poll of the vault's future is
    reply,            \* per call: what the caller was answered
    slots,            \* per call: the cell: result, waker, completing, abandoned
    scheduled,        \* calls whose task has been woken since its last poll
    contextEnded,     \* calls whose context has been cancelled
    contextWaker,     \* calls whose task is registered with its context
    acted,            \* per call: how often its action was begun
    inbox,            \* the queue
    worker,           \* the thread: where it is and the call it works on
    owner             \* "open" | "stopping" | "waking" | "joining" | "dropped"

callVars == <<future, polling, reply, slots, scheduled, contextEnded, contextWaker>>
workVars == <<kind, callVars, acted, inbox, worker, owner>>

Kinds == {"vault", "import", "catalog"}
Wake == NoCall      \* the message that only wakes the thread

\* The stop flag is up from the first step of the repository's Drop.
stopped == owner # "open"

WorkInit ==
    /\ kind \in Kinds
    /\ future = [c \in Calls |-> "new"] /\ polling = [c \in Calls |-> "no"]
    /\ reply = [c \in Calls |-> "none"]
    /\ slots = [c \in Calls |-> [result |-> "none", waker |-> FALSE, completing |-> FALSE,
                                 abandoned |-> FALSE]]
    /\ scheduled = {} /\ contextEnded = {} /\ contextWaker = {}
    /\ acted = [c \in Calls |-> 0]
    /\ inbox = << >>
    /\ worker = [at |-> IF kind = "catalog" THEN "unstarted" ELSE "receive", call |-> NoCall]
    /\ owner = "open"

-----------------------------------------------------------------------------
\* The caller.

Answer(c, what) ==
    /\ future' = [future EXCEPT ![c] = "answered"]
    /\ reply' = [reply EXCEPT ![c] = what]

\* The call returns a future: the vault's and the import's with the job already in
\* the queue.
submit(c) ==
    /\ owner = "open" /\ future[c] = "new"
    /\ IF kind # "catalog" /\ Len(inbox) = WorkCapacity
       THEN Answer(c, "ResourceExhausted") /\ UNCHANGED <<scheduled, inbox>>
       ELSE /\ future' = [future EXCEPT ![c] = "waiting"]
            /\ scheduled' = scheduled \cup {c}
            /\ inbox' = IF kind = "catalog" THEN inbox ELSE Append(inbox, c)
            /\ UNCHANGED reply
    /\ polling' = [polling EXCEPT ![c] = IF kind = "catalog" THEN "unsent" ELSE "no"]
    /\ UNCHANGED <<kind, slots, contextEnded, contextWaker, acted, worker, owner>>

\* The catalog's first poll starts the thread and sends the job.
submit_if_needed(c) ==
    /\ future[c] = "waiting" /\ polling[c] = "unsent" /\ c \in scheduled
    /\ IF Len(inbox) = WorkCapacity
       THEN Answer(c, "ResourceExhausted") /\ UNCHANGED inbox
       ELSE inbox' = Append(inbox, c) /\ UNCHANGED <<future, reply>>
    /\ polling' = [polling EXCEPT ![c] = "no"]
    /\ worker' = IF worker.at = "unstarted" THEN [worker EXCEPT !.at = "receive"] ELSE worker
    /\ UNCHANGED <<kind, slots, scheduled, contextEnded, contextWaker, acted, owner>>

\* A poll takes the result, or leaves its waker; the vault's goes on to its context.
poll_result(c) ==
    /\ future[c] = "waiting" /\ polling[c] = "no" /\ c \in scheduled
    /\ scheduled' = scheduled \ {c}
    /\ IF slots[c].result # "none" /\ ~slots[c].completing
       THEN /\ Answer(c, slots[c].result)
            /\ slots' = [slots EXCEPT ![c].result = "none"]
            /\ UNCHANGED polling
       ELSE /\ slots' = [slots EXCEPT ![c].waker = TRUE]
            /\ polling' = [polling EXCEPT ![c] = IF kind = "vault" THEN "registering" ELSE "no"]
            /\ UNCHANGED <<future, reply>>
    /\ UNCHANGED <<kind, contextEnded, contextWaker, acted, inbox, worker, owner>>

\* It registers with the context; if that has ended, a result that came in since
\* still wins.
cancellation_observed(c) ==
    /\ polling[c] = "registering"
    /\ IF c \notin contextEnded
       THEN /\ contextWaker' = contextWaker \cup {c}
            /\ polling' = [polling EXCEPT ![c] = "no"]
            /\ UNCHANGED <<future, reply, slots>>
       ELSE IF slots[c].result # "none"
       THEN /\ Answer(c, slots[c].result)
            /\ slots' = [slots EXCEPT ![c].result = "none"]
            /\ polling' = [polling EXCEPT ![c] = "no"]
            /\ UNCHANGED contextWaker
       ELSE /\ polling' = [polling EXCEPT ![c] = "abandoning"]
            /\ slots' = [slots EXCEPT ![c].waker = FALSE]
            /\ UNCHANGED <<future, reply, contextWaker>>
    /\ UNCHANGED <<kind, scheduled, contextEnded, acted, inbox, worker, owner>>

abandon(c) ==
    /\ polling[c] = "abandoning"
    /\ polling' = [polling EXCEPT ![c] = "no"]
    /\ slots' = [slots EXCEPT ![c].abandoned = TRUE]
    /\ Answer(c, "Cancelled")
    /\ UNCHANGED <<kind, scheduled, contextEnded, contextWaker, acted, inbox, worker, owner>>

\* The caller drops the future: the vault gives its job up, the vault and the
\* catalog cancel its context, the import leaves both alone.
drop_result(c) ==
    /\ future[c] = "waiting" /\ polling[c] \in {"no", "unsent"}
    /\ future' = [future EXCEPT ![c] = "dropped"]
    /\ slots' = [slots EXCEPT ![c].abandoned = (kind = "vault")]
    /\ contextEnded' = IF kind = "import" THEN contextEnded ELSE contextEnded \cup {c}
    /\ UNCHANGED <<kind, polling, reply, scheduled, contextWaker, acted, inbox, worker, owner>>

\* Somebody else cancels the caller's context.
context_ends(c) ==
    /\ future[c] = "waiting" /\ c \notin contextEnded
    /\ contextEnded' = contextEnded \cup {c}
    /\ scheduled' = IF c \in contextWaker THEN scheduled \cup {c} ELSE scheduled
    /\ contextWaker' = contextWaker \ {c}
    /\ UNCHANGED <<kind, future, polling, reply, slots, acted, inbox, worker, owner>>

-----------------------------------------------------------------------------
\* The thread.

\* The cell gets its answer and its waker is taken and woken.
Completes(c, what) ==
    /\ slots' = [slots EXCEPT ![c] = [@ EXCEPT !.result = what, !.waker = FALSE,
                                               !.completing = (kind = "catalog")]]
    /\ scheduled' = IF slots[c].waker THEN scheduled \cup {c} ELSE scheduled

Thread(at, c) == worker' = [at |-> at, call |-> c]

\* It takes the next message; without one it waits, except that the catalog's queue
\* ends when its sender is gone.
receive ==
    /\ worker.at = "receive"
    /\ IF inbox # << >>
       THEN /\ inbox' = Tail(inbox)
            /\ IF Head(inbox) = Wake THEN Thread("look", NoCall)
               ELSE Thread("begin", Head(inbox))
       ELSE /\ kind = "catalog" /\ owner = "joining"
            /\ Thread("drain", NoCall) /\ UNCHANGED inbox
    /\ UNCHANGED <<kind, callVars, acted, owner>>

\* Mutant: a job that was in the queue when the repository stopped still runs.
BeginsAfterStop(c) == kind = "vault" /\ slots[c].abandoned

\* A job does not begin once the repository has stopped, nor, in the vault, once its
\* caller has gone.
Refused(c) == stopped \/ (kind = "vault" /\ slots[c].abandoned)

\* It begins the job's action, or completes its cell without.
begin ==
    /\ worker.at = "begin"
    /\ IF Refused(worker.call)
       THEN /\ Completes(worker.call, IF stopped THEN "Unavailable" ELSE "Cancelled")
            /\ IF kind = "catalog" THEN Thread("second", worker.call)
               ELSE Thread(IF kind = "vault" THEN "look" ELSE "drain", NoCall)
            /\ UNCHANGED acted
       ELSE /\ acted' = [acted EXCEPT ![worker.call] = @ + 1]
            /\ Thread("act", worker.call)
            /\ UNCHANGED <<slots, scheduled>>
    /\ UNCHANGED <<kind, future, polling, reply, contextEnded, contextWaker, inbox, owner>>

\* The action returns, or panics: then the session is quarantined and the cell says so.
finish_action ==
    /\ worker.at = "act"
    /\ \E what \in {"result", "IntegrityFailure"} : Completes(worker.call, what)
    /\ IF kind = "catalog" THEN Thread("second", worker.call) ELSE Thread("look", NoCall)
    /\ UNCHANGED <<kind, future, polling, reply, contextEnded, contextWaker, acted, inbox, owner>>

\* The catalog's second look: a waker that came while the first was woken is woken too.
complete ==
    /\ worker.at = "second"
    /\ LET c == worker.call
       IN /\ slots' = [slots EXCEPT ![c] = [@ EXCEPT !.completing = FALSE, !.waker = FALSE]]
          /\ scheduled' = IF slots[c].waker THEN scheduled \cup {c} ELSE scheduled
    /\ Thread(IF stopped THEN "drain" ELSE "receive", NoCall)
    /\ UNCHANGED <<kind, future, polling, reply, contextEnded, contextWaker, acted, inbox, owner>>

\* The vault and the import look at the flag between two messages.
look ==
    /\ worker.at = "look"
    /\ Thread(IF stopped THEN "drain" ELSE "receive", NoCall)
    /\ UNCHANGED <<kind, callVars, acted, inbox, owner>>

\* Every message that is left is refused, then the thread ends.
drain ==
    /\ worker.at = "drain"
    /\ IF inbox = << >>
       THEN Thread("exited", NoCall) /\ UNCHANGED <<slots, scheduled, inbox>>
       ELSE /\ inbox' = Tail(inbox)
            /\ IF Head(inbox) = Wake THEN UNCHANGED <<slots, scheduled>>
               ELSE Completes(Head(inbox), "Unavailable")
            /\ UNCHANGED worker
    /\ UNCHANGED <<kind, future, polling, reply, contextEnded, contextWaker, acted, owner>>

-----------------------------------------------------------------------------
\* The repository's Drop.

\* No future is left that borrows it.
drop_worker ==
    /\ owner = "open" /\ \A c \in Calls : future[c] # "waiting"
    /\ owner' = "stopping"
    /\ UNCHANGED <<kind, callVars, acted, inbox, worker>>

\* The flag is up; now the thread is woken: by a message if the queue has room for
\* one, or by the end of the queue.
wake_worker ==
    /\ owner = "stopping"
    /\ inbox' = IF kind = "catalog" \/ worker.at = "exited" \/ Len(inbox) = WorkCapacity
                THEN inbox ELSE Append(inbox, Wake)
    /\ owner' = "joining"
    /\ UNCHANGED <<kind, callVars, acted, worker>>

join_worker ==
    /\ owner = "joining" /\ worker.at \in {"exited", "unstarted"}
    /\ owner' = "dropped"
    /\ UNCHANGED <<kind, callVars, acted, inbox, worker>>

-----------------------------------------------------------------------------
WorkThread == receive \/ begin \/ finish_action \/ complete \/ look \/ drain
WorkPoll(c) == submit_if_needed(c) \/ poll_result(c) \/ cancellation_observed(c) \/ abandon(c)
WorkDrop == wake_worker \/ join_worker

WorkNext ==
    \/ WorkThread \/ drop_worker \/ WorkDrop
    \/ \E c \in Calls : submit(c) \/ WorkPoll(c) \/ drop_result(c) \/ context_ends(c)

\* An executor polls a task it has woken; the thread and the dropping thread run.
WorkFairness ==
    /\ WF_workVars(WorkThread) /\ WF_workVars(WorkDrop)
    /\ \A c \in Calls : WF_workVars(WorkPoll(c))

WorkSpec == WorkInit /\ [][WorkNext]_workVars /\ WorkFairness

-----------------------------------------------------------------------------
\* A refusal is the truth: a call that was answered without a result of its action,
\* for want of room or because the repository stopped, never acts; no call acts
\* twice; when the repository is gone its thread has ended and left nothing in the
\* queue; and no action begins any more once the repository has begun to stop or, in
\* the vault, once its caller has gone.
RefusalsAreFinal ==
    /\ [](\A c \in Calls :
            /\ reply[c] \in {"ResourceExhausted", "Unavailable"} => acted[c] = 0
            /\ reply[c] \in {"result", "IntegrityFailure"} => acted[c] = 1
            /\ acted[c] <= 1)
    /\ [](owner = "dropped" => inbox = << >> /\ worker.at \in {"exited", "unstarted"})
    /\ [][\A c \in Calls :
            stopped \/ (kind = "vault" /\ slots[c].abandoned) => acted'[c] = acted[c]]_workVars

\* No wake-up is lost: a future that is not dropped is answered, and the Drop of
\* the repository comes to its end.
WorkEnds(c) ==
    /\ future[c] = "waiting" ~> future[c] # "waiting"
    /\ owner = "stopping" ~> owner = "dropped"

=============================================================================
