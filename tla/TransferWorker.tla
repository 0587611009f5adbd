--------------------------- MODULE TransferWorker ---------------------------
(***************************************************************************)
(* The single blocking worker of the file service (ariadnion-file-service, *)
(* worker.rs, worker/operation.rs, worker/cleanup.rs): one thread, one job *)
(* slot, one reservation.  A staged asset travels between the worker and   *)
(* the request that owns it: in a guard, in an unpolled future, in the     *)
(* slot, in the running job, in a completed cell nobody has read yet, or,  *)
(* when nothing else is left, in unresolved_stage.                         *)
(*                                                                         *)
(* Every critical section of WorkerShared.state and of a JobCell is one    *)
(* step of the worker thread or of a request's task; what a task does to   *)
(* the cell of a job it disposes of itself is part of its step.  The asset *)
(* store answers as it likes.  Panicking wakers and poisoned locks are     *)
(* left out; a panic of the store is a failing job.                        *)
(***************************************************************************)
EXTENDS Naturals, FiniteSets

CONSTANTS
  Requests,          \* requests, each with at most one staged asset
  MaxVerifications   \* bound: reserved verifications per request

ASSUME TransferAssumption == MaxVerifications \in Nat

VARIABLES
  slot,              \* WorkerState: phase, reservation, next, job, unresolved
  thread,            \* the worker thread: where it is and what it runs
  request,           \* per request: what its task holds
  cell,              \* per request: the JobCell of its current job
  fate,              \* per request: what became of its staged asset on disk
  stop               \* shutdown: "no" | "joining" | "ok" | "error"

transferVars == <<slot, thread, request, cell, fate, stop>>

NoWork == [kind |-> "none", stage |-> FALSE]

\* A job: kind, owner, its reservation and whether it carries the staged asset.
Work(kind, r, res, stage) == [kind |-> kind, of |-> r, res |-> res, stage |-> stage]
Fresh == {"stage", "read"}

NoCell == [result |-> "none", waker |-> FALSE, completing |-> FALSE, inJob |-> FALSE,
           inTask |-> FALSE]

TransferInit ==
  /\ slot = [phase |-> "Cold", reservation |-> 0, next |-> 1, job |-> NoWork,
             unresolved |-> {}]
  /\ thread = [at |-> "unborn", job |-> NoWork, out |-> "none", waker |-> FALSE]
  /\ request = [r \in Requests |-> [holds |-> "nothing", work |-> NoWork, woken |-> FALSE,
                                    res |-> 0, left |-> MaxVerifications]]
  /\ cell = [r \in Requests |-> NoCell]
  /\ fate = [r \in Requests |-> "none"]
  /\ stop = "no"

----------------------------------------------------------------------------
(* Critical sections of WorkerShared.state, as functions of the slot *)

\* contain_unresolved_stage: there is room for one; a second would be dropped.
contain_unresolved_stage(s, w) ==
  IF w.stage /\ s.unresolved = {} THEN [s EXCEPT !.unresolved = {w.of}] ELSE s

\* take_worker_failure and mark_failed; the pending job's fail contains its stage.
fail_worker(s) ==
  contain_unresolved_stage([s EXCEPT !.phase = "Failed", !.reservation = 0, !.job = NoWork],
                           s.job)

\* enqueue_abandoned: the slot is still reserved for this stage, and free.
enqueue_abandoned(s, w) ==
  s.phase = "Assigned" /\ s.reservation = w.res /\ s.job = NoWork

\* retire_retained_stage and abandon_retained_stage: queue the cleanup, or else
\* contain the stage and fail the worker.
Retired(s, w) ==
  IF enqueue_abandoned(s, w)
  THEN [s EXCEPT !.job = Work("abandoned", w.of, w.res, TRUE)]
  ELSE fail_worker(contain_unresolved_stage(s, w))

\* retain_running_reservation and release_running_reservation.
Retains(s, res) == s.phase = "Running" /\ s.reservation = res
Released(s, res) ==
  IF s.reservation # res THEN s
  ELSE [s EXCEPT !.reservation = 0, !.phase = IF @ = "Running" THEN "Idle" ELSE @]

----------------------------------------------------------------------------
(* A request's task *)

Hands(r, what, w) ==
  request' = [request EXCEPT ![r].holds = what, ![r].work = w, ![r].woken = TRUE]
Over(r) == request' = [request EXCEPT ![r] = [holds |-> "over", work |-> NoWork, woken |-> FALSE,
                                              res |-> 0, left |-> 0]]
NewCell(r) == cell' = [cell EXCEPT ![r] = [NoCell EXCEPT !.inTask = TRUE, !.inJob = TRUE]]
NoCellOf(r) == cell' = [cell EXCEPT ![r] = NoCell]

\* submit_stage, submit_read and submit_metadata: a future with a fresh job.
submit_fresh(r) ==
  /\ request[r].holds = "nothing"
  /\ \E kind \in Fresh : Hands(r, "future", Work(kind, r, 0, FALSE))
  /\ NewCell(r)
  /\ UNCHANGED <<slot, thread, fate, stop>>

\* submit_commit and submit_reserved_metadata: the future now owns the stage.
submit_reserved(r) ==
  /\ request[r].holds = "guard"
  /\ \/ Hands(r, "future", Work("commit", r, request[r].res, TRUE))
     \/ /\ request[r].left > 0
        /\ request' = [request EXCEPT ![r].holds = "future", ![r].left = @ - 1, ![r].woken = TRUE,
                                      ![r].work = Work("verify", r, request[r].res, TRUE)]
  /\ NewCell(r)
  /\ UNCHANGED <<slot, thread, fate, stop>>

\* Mutant: a fresh job is admitted whenever the slot is empty.
Assignable_EmptySlot(w) ==
  IF w.kind \in Fresh
  THEN slot.phase \in {"Cold", "Idle", "Assigned"} /\ slot.job = NoWork
  ELSE slot.phase = "Assigned" /\ slot.reservation = w.res /\ slot.job = NoWork

\* assign_fresh and assign_reserved.
Assignable(w) ==
  IF w.kind \in Fresh THEN slot.phase \in {"Cold", "Idle"}
  ELSE slot.phase = "Assigned" /\ slot.reservation = w.res /\ slot.job = NoWork
assign_state(w) ==
  IF w.kind \in Fresh
  THEN [slot EXCEPT !.phase = "Assigned", !.reservation = slot.next, !.next = @ + 1,
                    !.job = [w EXCEPT !.res = slot.next]]
  ELSE [slot EXCEPT !.job = w]

\* assign: into the slot, with the thread spawned for the first job, or rejected
\* (the spawn may fail too).  A rejected reserved job is disposed of, and its
\* future then fails the worker.
assign(r) ==
  LET w == request[r].work IN
  \/ /\ Assignable(w)
     /\ slot' = assign_state(w)
     /\ thread' = [thread EXCEPT !.at = IF slot.phase = "Cold" THEN "wait" ELSE @]
     /\ request' = [request EXCEPT ![r].holds = "polling", ![r].work = NoWork,
                                   ![r].woken = FALSE, ![r].res = slot'.reservation]
     /\ cell' = [cell EXCEPT ![r].waker = TRUE]
  \/ /\ Assignable(w) /\ slot.phase = "Cold"
     /\ slot' = [slot EXCEPT !.phase = "Failed", !.next = @ + 1]
     /\ Over(r) /\ NoCellOf(r) /\ UNCHANGED thread
  \/ /\ ~Assignable(w)
     /\ slot' = IF w.stage THEN fail_worker(Retired(slot, w)) ELSE slot
     /\ Over(r) /\ NoCellOf(r) /\ UNCHANGED thread

\* JobFuture::poll, first part: check_before_submission, register_waker, submit.
prepare_poll(r) ==
  /\ request[r].holds = "future" /\ request[r].woken
  /\ IF request[r].work = NoWork
     THEN /\ request' = [request EXCEPT ![r].holds = "polling", ![r].woken = FALSE]
          /\ cell' = [cell EXCEPT ![r].waker = TRUE]
          /\ UNCHANGED <<slot, thread>>
     ELSE \/ assign(r)
          \/ /\ request[r].work.kind \in Fresh
             /\ Over(r) /\ NoCellOf(r) /\ UNCHANGED <<slot, thread>>
  /\ UNCHANGED <<fate, stop>>

\* JobFuture::poll, second part: take_readiness.
poll_ready(r) ==
  /\ request[r].holds = "polling"
  /\ IF cell[r].completing \/ cell[r].result = "none"
     THEN request' = [request EXCEPT ![r].holds = "future"] /\ UNCHANGED cell
     ELSE /\ IF cell[r].result = "guard" THEN Hands(r, "guard", NoWork) ELSE Over(r)
          /\ cell' = [cell EXCEPT ![r].result = "none", ![r].waker = FALSE, ![r].inTask = FALSE]
  /\ UNCHANGED <<slot, thread, fate, stop>>

\* JobFuture::drop: an unsubmitted reserved job is abandoned; a result nobody
\* reads goes with the last owner of the cell.
drop_future(r) ==
  /\ request[r].holds = "future"
  /\ slot' = IF request[r].work.stage THEN Retired(slot, request[r].work)
             ELSE IF cell[r].result = "guard" /\ ~cell[r].inJob
             THEN Retired(slot, Work("guard", r, request[r].res, TRUE)) ELSE slot
  /\ IF request[r].work = NoWork /\ cell[r].inJob
     THEN cell' = [cell EXCEPT ![r].inTask = FALSE, ![r].waker = FALSE]
     ELSE NoCellOf(r)
  /\ Over(r)
  /\ UNCHANGED <<thread, fate, stop>>

\* OperationGuard::drop.
drop_guard(r) ==
  /\ request[r].holds = "guard"
  /\ slot' = Retired(slot, Work("guard", r, request[r].res, TRUE))
  /\ Over(r)
  /\ UNCHANGED <<thread, cell, fate, stop>>

\* submit_quarantine: submitted at once, with a context of its own; a rejected
\* job leaves its error in the cell.
submit_quarantine(r) ==
  LET w == Work("quarantine", r, request[r].res, TRUE) IN
  /\ request[r].holds = "guard"
  /\ Hands(r, "future", NoWork)
  /\ IF Assignable(w)
     THEN slot' = assign_state(w) /\ NewCell(r)
     ELSE /\ slot' = contain_unresolved_stage(fail_worker(slot), w)
          /\ cell' = [cell EXCEPT ![r] = [NoCell EXCEPT !.inTask = TRUE, !.result = "error"]]
  /\ UNCHANGED <<thread, fate, stop>>

----------------------------------------------------------------------------
(* The worker thread *)

Runs(at) == thread' = [thread EXCEPT !.at = at]

\* next_action: run, or leave; a stopping worker fails the job in the slot.
next_action ==
  /\ thread.at = "wait"
  /\ \/ /\ slot.phase = "Assigned" /\ slot.job # NoWork
        /\ slot' = [slot EXCEPT !.phase = "Running", !.job = NoWork]
        /\ thread' = [thread EXCEPT !.at = "call", !.job = slot.job]
     \/ /\ slot.phase = "Failed"
        /\ Runs("exited") /\ UNCHANGED slot
     \/ /\ slot.phase = "Stopping" /\ slot.job = NoWork
        /\ slot' = [slot EXCEPT !.phase = "Stopped"] /\ Runs("exited")
     \/ /\ slot.phase = "Stopping" /\ slot.job # NoWork
        /\ slot' = [contain_unresolved_stage(slot, slot.job) EXCEPT !.phase = "Stopped",
                                                                    !.job = NoWork]
        /\ thread' = [thread EXCEPT !.at = IF slot.job.kind = "abandoned" THEN "exited"
                                           ELSE "complete",
                                    !.job = [slot.job EXCEPT !.stage = FALSE],
                                    !.out = "stopped"]
  /\ UNCHANGED <<request, cell, fate, stop>>

\* execute: what the asset store answers, or a panic of it.
Answers(kind) ==
  CASE kind \in {"stage", "read", "verify"} -> {"ok", "error", "panic"}
    [] kind = "commit" -> {"ok", "determinate", "indeterminate", "unknown", "panic"}
    [] kind \in {"quarantine", "abandoned"} -> {"ok", "unknown"}

FateAfter(kind, out, f) ==
  CASE kind = "stage" /\ out = "ok" -> "live"
    [] kind = "commit" /\ out = "ok" -> "committed"
    [] kind = "commit" /\ out = "indeterminate" -> "told"
    [] kind \in {"quarantine", "abandoned"} /\ out = "ok" -> "quarantined"
    [] OTHER -> f

execute ==
  LET w == thread.job IN
  /\ thread.at = "call"
  /\ \E out \in Answers(w.kind) :
       LET f == FateAfter(w.kind, out, fate[w.of]) IN
       /\ fate' = [fate EXCEPT ![w.of] = f]
       /\ thread' = [thread EXCEPT !.out = out,
                                   !.job.stage = f = "live" /\ (w.stage \/ w.kind = "stage"),
                                   !.at = CASE out = "panic" -> "panicked"
                                            [] out = "unknown" -> "contain"
                                            [] OTHER -> "publish"]
  /\ UNCHANGED <<slot, request, cell, stop>>

\* publish, publish_stage, publish_terminal and publish_determinate: a job whose
\* stage lives on keeps the reservation for the guard; the others release it.
publish ==
  LET w == thread.job IN
  /\ thread.at = "publish"
  /\ \/ /\ w.stage /\ Retains(slot, w.res)
        /\ slot' = [slot EXCEPT !.phase = "Assigned"]
        /\ thread' = [thread EXCEPT !.at = "complete", !.out = "guard"]
     \/ /\ w.stage /\ ~Retains(slot, w.res)
        /\ Runs("contain") /\ UNCHANGED slot
     \/ /\ ~w.stage
        /\ slot' = Released(slot, w.res)
        /\ thread' = [thread EXCEPT
             !.at = CASE w.kind # "abandoned" -> "complete"
                      [] w.kind = "abandoned" /\ Retains(slot, w.res) -> "wait"
                      [] OTHER -> "fail",
             !.out = IF Retains(slot, w.res) /\ thread.out # "error" THEN "done" ELSE "error"]
  /\ UNCHANGED <<request, cell, fate, stop>>

\* contain_unresolved_stage, then fail_worker, then the error.
contain ==
  /\ thread.at = "contain"
  /\ slot' = contain_unresolved_stage(slot, thread.job)
  /\ thread' = [thread EXCEPT !.at = "fail", !.out = "error", !.job.stage = FALSE]
  /\ UNCHANGED <<request, cell, fate, stop>>

fail ==
  /\ thread.at = "fail"
  /\ slot' = fail_worker(slot)
  /\ Runs(IF thread.job.kind = "abandoned" THEN "wait" ELSE "complete")
  /\ UNCHANGED <<request, cell, fate, stop>>

\* run_job of a job that panicked: fail_worker, then the job's fail.
panicked ==
  /\ thread.at = "panicked"
  /\ slot' = contain_unresolved_stage(fail_worker(slot), thread.job)
  /\ thread' = [thread EXCEPT !.at = "complete", !.out = "error", !.job.stage = FALSE]
  /\ UNCHANGED <<request, cell, fate, stop>>

\* begin_completion: the result is stored and the waker taken.
begin_completion ==
  LET r == thread.job.of IN
  /\ thread.at = "complete"
  /\ cell' = [cell EXCEPT ![r].result = thread.out, ![r].completing = TRUE, ![r].waker = FALSE]
  /\ thread' = [thread EXCEPT !.at = "wake", !.waker = cell[r].waker, !.job.stage = FALSE]
  /\ UNCHANGED <<slot, request, fate, stop>>

\* drive_completion: wake, outside the lock.
drive_completion ==
  /\ thread.at = "wake"
  /\ request' = [request EXCEPT ![thread.job.of].woken =
                   @ \/ (thread.waker /\ request[thread.job.of].holds # "over")]
  /\ thread' = [thread EXCEPT !.at = "step", !.waker = FALSE]
  /\ UNCHANGED <<slot, cell, fate, stop>>

\* Mutant: a waker registered during the wake-up is not looked for.
NextCompletion_Once(c) == FALSE

\* next_completion_step: a waker that was registered meanwhile is woken too.
NextCompletion(c) == c.waker

\* The thread is done with the job.
JobDone == thread' = [thread EXCEPT !.at = IF thread.out = "stopped" THEN "exited" ELSE "wait",
                                    !.job = NoWork, !.out = "none"]

next_completion_step ==
  LET r == thread.job.of IN
  /\ thread.at = "step"
  /\ IF NextCompletion(cell[r])
     THEN /\ cell' = [cell EXCEPT ![r].waker = FALSE]
          /\ thread' = [thread EXCEPT !.at = "wake", !.waker = TRUE]
     ELSE /\ cell' = [cell EXCEPT ![r].completing = FALSE, ![r].inJob = FALSE]
          /\ IF cell[r].inTask THEN JobDone ELSE Runs("drop")
  /\ UNCHANGED <<slot, request, fate, stop>>

\* The job was the last owner of the cell: a guard nobody will read is dropped.
drop_job ==
  LET r == thread.job.of IN
  /\ thread.at = "drop"
  /\ slot' = IF cell[r].result = "guard"
             THEN Retired(slot, Work("guard", r, thread.job.res, TRUE)) ELSE slot
  /\ NoCellOf(r) /\ JobDone
  /\ UNCHANGED <<request, fate, stop>>

----------------------------------------------------------------------------
(* Stopping *)

\* prepare_stop, by shutdown or when the worker is dropped.
prepare_stop ==
  /\ stop = "no" /\ stop' = "joining"
  /\ slot' = [slot EXCEPT !.reservation = 0,
                          !.phase = CASE @ = "Cold" -> "Stopped"
                                      [] @ \in {"Failed", "Stopped"} -> @
                                      [] OTHER -> "Stopping"]
  /\ UNCHANGED <<thread, request, cell, fate>>

\* shutdown after the join.
Joined ==
  /\ stop = "joining" /\ thread.at \in {"unborn", "exited"}
  /\ stop' = IF slot.phase = "Failed" THEN "error" ELSE "ok"
  /\ UNCHANGED <<slot, thread, request, cell, fate>>

ThreadStep ==
  \/ next_action \/ execute \/ publish \/ contain \/ fail \/ panicked
  \/ begin_completion \/ drive_completion \/ next_completion_step \/ drop_job

TransferNext ==
  \/ \E r \in Requests :
       \/ submit_fresh(r) \/ submit_reserved(r) \/ submit_quarantine(r)
       \/ prepare_poll(r) \/ poll_ready(r) \/ drop_future(r) \/ drop_guard(r)
  \/ ThreadStep \/ prepare_stop \/ Joined

\* Fairness: the thread runs, a woken task is polled and a poll comes to its end;
\* and the scheduler does not, for ever, let the task register its waker again
\* between a wake-up and the worker's next look (the task sees "completing" and
\* goes back to sleep, the worker takes the new waker, and so on).
LastCompletionStep ==
  thread.at = "step" /\ ~cell[thread.job.of].waker /\ next_completion_step

----------------------------------------------------------------------------
(* Properties *)

StageHolders(r) ==
  {h \in {"guard", "future", "slot", "thread", "cell", "unresolved"} :
     CASE h = "guard"      -> request[r].holds = "guard"
       [] h = "future"     -> request[r].work.stage
       [] h = "slot"       -> slot.job.stage /\ slot.job.of = r
       [] h = "thread"     -> thread.job.stage /\ thread.job.of = r
       [] h = "cell"       -> cell[r].result = "guard"
       [] h = "unresolved" -> r \in slot.unresolved}

\* A staged asset is neither lost nor owned twice: from the moment it is staged
\* until it is committed, quarantined or its caller told that the outcome is
\* unknown, exactly one holder has it, across drops, rejections, panics and
\* shutdown; and there is never more than one, so that unresolved_stage has room
\* ("a failed state can retain at most one", worker/cleanup.rs:150).
StagesHaveOneHolder ==
  /\ \A r \in Requests : Cardinality(StageHolders(r)) = IF fate[r] = "live" THEN 1 ELSE 0
  /\ Cardinality({r \in Requests : fate[r] = "live"}) <= 1

\* Every future that is polled gets its answer, shutdown joins the thread, and a
\* stage whose request has gone is quarantined or contained in the end.
TransferAnswers ==
  /\ \A r \in Requests :
       request[r].holds \in {"future", "polling"} ~> request[r].holds \notin {"future", "polling"}
  /\ stop = "joining" ~> stop \in {"ok", "error"}
  /\ \A r \in Requests :
       fate[r] = "live" /\ request[r].holds = "over" ~>
         fate[r] # "live" \/ r \in slot.unresolved
=============================================================================
