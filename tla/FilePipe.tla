------------------------------ MODULE FilePipe ------------------------------
(***************************************************************************)
(* The one-chunk pipe between an async request task and the blocking       *)
(* transfer worker (ariadnion-file-service, pipe.rs).  In an upload the    *)
(* task offers chunks and the worker reads them; in a download the worker  *)
(* writes chunks and the task receives and acknowledges them.              *)
(*                                                                         *)
(* Every critical section under PipeShared.state is one step.  A waker     *)
(* taken under the lock is used after it is released: the worker holds it  *)
(* for one step (handed).  The condition variable is waited on for at most *)
(* WAIT_QUANTUM, so a blocking wait is a loop that looks again.            *)
(* Wakers that panic and the poisoned lock are left out.                   *)
(***************************************************************************)
EXTENDS Integers, Sequences

CONSTANTS
  PipeChunks,       \* bound: the lengths of the chunks of one transfer
  MaxEarlyPolls     \* bound: polls of the task that the pipe did not ask for

ASSUME PipeAssumption == PipeChunks \in Seq(Nat \ {0}) /\ MaxEarlyPolls \in Nat

VARIABLES
  flow,             \* "upload" | "download"
  pipe,             \* PipeState
  agent,            \* the async side: PipeAsyncSender or PipeAsyncReceiver
  blocking,         \* the blocking side: PipeReader or PipeWriter
  context,          \* the request context: "active" | "ended"
  got,              \* the bytes taken out, as <<sequence, offset>>
  earlyPolls,       \* wake-ups by the other futures the task polls with this one
  confirmed         \* chunks whose offer or write has answered Ok

pipeVars == <<flow, pipe, agent, blocking, context, got, earlyPolls, confirmed>>

NoSeq == -1
LastChunk == Len(PipeChunks) - 1
ChunkLen(s) == PipeChunks[s + 1]

\* A transfer of nothing has no chunk to send before its end.
Begins(sending, ending) == IF PipeChunks = << >> THEN ending ELSE sending

\* at: where the side is; seq: its next sequence; woken: the task is to be
\* polled; res: what a receive poll found; off: PipeReader.offset;
\* handed: the worker holds the task's waker.
PipeInit ==
  /\ flow \in {"upload", "download"}
  /\ pipe = [retained |-> NoSeq, inFlight |-> NoSeq, terminal |-> "Open", waker |-> FALSE,
             updates |-> 0]
  /\ agent = [at |-> IF flow = "upload" THEN Begins("offer", "finish") ELSE "receive",
              seq |-> 0, woken |-> TRUE, res |-> "none"]
  /\ blocking = [at |-> IF flow = "upload" THEN "read" ELSE Begins("empty", "publish-empty"),
                 seq |-> 0, off |-> 0, handed |-> FALSE]
  /\ context = "active" /\ got = << >> /\ earlyPolls = 0 /\ confirmed = -1

Empty == pipe.retained = NoSeq /\ pipe.inFlight = NoSeq

----------------------------------------------------------------------------
(* Aborting *)

\* PipeState::abort, and the wake-up of the waker it gives back.
aborted(p) ==
  IF p.terminal = "Eof" THEN p
  ELSE [p EXCEPT !.terminal = "Aborted", !.retained = NoSeq, !.inFlight = NoSeq, !.waker = FALSE]
Wakes(p) == p.terminal # "Eof" /\ p.waker

\* abort_shared by the worker or by another thread, and by the task itself.
AbortFromOutside == pipe' = aborted(pipe) /\ agent' = [agent EXCEPT !.woken = @ \/ Wakes(pipe)]
TaskEnds(how) == pipe' = aborted(pipe) /\ agent' = [agent EXCEPT !.at = how, !.woken = FALSE]

AgentEnded == agent.at \in {"done", "failed", "dropped"}
BlockingEnded == blocking.at \in {"done", "failed", "dropped"}

\* The task polls the worker's future too, which may wake it.
EarlyPoll ==
  /\ earlyPolls < MaxEarlyPolls /\ earlyPolls' = earlyPolls + 1
  /\ ~AgentEnded /\ agent' = [agent EXCEPT !.woken = TRUE]
  /\ UNCHANGED <<flow, pipe, blocking, context, got, confirmed>>

WorkerGivesUp(how) ==
  AbortFromOutside /\ blocking' = [blocking EXCEPT !.at = how, !.handed = FALSE]

\* The deadline passes or the request is cancelled.
ContextEnds ==
  /\ context = "active" /\ context' = "ended"
  /\ UNCHANGED <<flow, pipe, agent, blocking, got, earlyPolls, confirmed>>

\* check_active before a poll, and check_blocking_context in every blocking loop.
PollInEndedContext ==
  /\ context = "ended" /\ ~AgentEnded /\ agent.woken
  /\ agent.at \notin {"install", "complete", "deliver"}
  /\ TaskEnds("failed")
  /\ UNCHANGED <<flow, blocking, context, got, earlyPolls, confirmed>>
LoopInEndedContext ==
  /\ context = "ended" /\ blocking.at \in {"read", "empty", "ack", "publish-empty", "recheck"}
  /\ WorkerGivesUp("failed")
  /\ UNCHANGED <<flow, context, got, earlyPolls, confirmed>>

\* PipeAbortHandle::abort by the request, and abort_if_unpublished when a side is
\* dropped: the task between two polls, the worker between two calls.
DropAgent ==
  /\ ~AgentEnded /\ agent.at \notin {"install", "complete"}
  /\ TaskEnds("dropped")
  /\ UNCHANGED <<flow, blocking, context, got, earlyPolls, confirmed>>
DropBlocking ==
  /\ blocking.at \in {"read", "empty", "publish-empty"}
  /\ WorkerGivesUp("dropped")
  /\ UNCHANGED <<flow, context, got, earlyPolls, confirmed>>

----------------------------------------------------------------------------
(* Upload: PipeAsyncSender and PipeReader *)

Parks(at) == agent' = [agent EXCEPT !.at = at, !.woken = FALSE]

\* begin_offer: hand the chunk over (the one before has been confirmed, so the
\* pipe is empty).
begin_offer ==
  /\ flow = "upload" /\ agent.at = "offer" /\ agent.woken
  /\ context = "active" /\ pipe.terminal = "Open"
  /\ Empty
  /\ pipe' = [pipe EXCEPT !.retained = agent.seq, !.waker = TRUE]
  /\ Parks("offered")
  /\ UNCHANGED <<flow, blocking, context, got, earlyPolls, confirmed>>

\* finish_offer_poll: the chunk is confirmed once it has been read whole.
finish_offer_poll ==
  /\ flow = "upload" /\ agent.at = "offered" /\ agent.woken
  /\ context = "active" /\ pipe.terminal = "Open"
  /\ IF Empty
     THEN /\ agent' = [agent EXCEPT !.at = IF agent.seq = LastChunk THEN "finish" ELSE "offer",
                                    !.seq = @ + 1, !.woken = TRUE]
          /\ confirmed' = agent.seq /\ UNCHANGED pipe
     ELSE /\ pipe' = [pipe EXCEPT !.waker = TRUE]
          /\ Parks("offered") /\ UNCHANGED confirmed
  /\ UNCHANGED <<flow, blocking, context, got, earlyPolls>>

\* poll_finish_state: end of file once the pipe is empty.
poll_finish_state ==
  /\ flow = "upload" /\ agent.at = "finish" /\ agent.woken
  /\ context = "active" /\ pipe.terminal = "Open"
  /\ pipe' = [pipe EXCEPT !.terminal = "Eof"]
  /\ Parks("done")
  /\ UNCHANGED <<flow, blocking, context, got, earlyPolls, confirmed>>

\* poll_offered_state and finished_terminal_poll of an aborted pipe.
PollOfAborted ==
  /\ agent.at \in {"offer", "offered", "finish", "receive"} /\ agent.woken /\ context = "active"
  /\ pipe.terminal = "Aborted"
  /\ Parks("failed")
  /\ UNCHANGED <<flow, pipe, blocking, context, got, earlyPolls, confirmed>>

\* Mutant: the sender's waker stays in the pipe when the chunk has been read.
ReadWhole_KeepsWaker(p) == [p EXCEPT !.retained = NoSeq, !.inFlight = NoSeq]

\* finish_blocking_read of the last byte: the chunk leaves and the waker is taken.
ReadWhole(p) == [p EXCEPT !.retained = NoSeq, !.inFlight = NoSeq, !.waker = FALSE]

\* read_step: some bytes of the retained chunk.
read_step ==
  /\ blocking.at = "read" /\ context = "active" /\ pipe.retained # NoSeq
  /\ \E n \in 1..(ChunkLen(pipe.retained) - blocking.off) :
       LET s == pipe.retained
           read == [pipe EXCEPT !.inFlight = s]
           whole == blocking.off + n = ChunkLen(s)
       IN /\ got' = got \o [i \in 1..n |-> <<s, blocking.off + i - 1>>]
          /\ pipe' = IF whole THEN ReadWhole(read) ELSE read
          /\ blocking' = [blocking EXCEPT !.off = IF whole THEN 0 ELSE @ + n,
                                          !.at = IF whole THEN "wake" ELSE "read",
                                          !.handed = pipe.waker /\ ~pipe'.waker]
  /\ UNCHANGED <<flow, agent, context, earlyPolls, confirmed>>

\* empty_read_step: wait, the end of the file, or the abort.
empty_read_step ==
  /\ blocking.at = "read" /\ context = "active" /\ pipe.retained = NoSeq
  /\ pipe.terminal # "Open"
  /\ blocking' = [blocking EXCEPT !.at = IF pipe.terminal = "Eof" THEN "done" ELSE "failed"]
  /\ UNCHANGED <<flow, pipe, agent, context, got, earlyPolls, confirmed>>

\* wake_or_abort, after the lock is released.
wake_or_abort ==
  /\ blocking.at \in {"wake", "wake-write", "deliver"}
  /\ agent' = [agent EXCEPT !.woken = @ \/ (blocking.handed /\ ~AgentEnded)]
  /\ blocking' = [blocking EXCEPT !.handed = FALSE,
                                  !.at = CASE @ = "wake" -> "read"
                                           [] @ = "wake-write" -> "ack"
                                           [] @ = "deliver" -> "recheck"]
  /\ UNCHANGED <<flow, pipe, context, got, earlyPolls, confirmed>>

----------------------------------------------------------------------------
(* Download: PipeWriter and PipeAsyncReceiver *)

WriterGoes(at) == blocking' = [blocking EXCEPT !.at = at]

\* wait_until_empty, before a write and before the end.
wait_until_empty ==
  /\ blocking.at \in {"empty", "publish-empty"} /\ context = "active"
  /\ \/ /\ pipe.terminal = "Aborted" /\ WriterGoes("failed")
     \/ /\ pipe.terminal = "Open" /\ Empty
        /\ WriterGoes(IF blocking.at = "empty" THEN "retain" ELSE "publish")
  /\ UNCHANGED <<flow, pipe, agent, context, got, earlyPolls, confirmed>>

\* retain_blocking_chunk: the chunk is in the pipe and the receiver's waker is taken.
retain_blocking_chunk ==
  /\ blocking.at = "retain"
  /\ IF pipe.terminal # "Open"
     THEN WriterGoes("failed") /\ UNCHANGED pipe
     ELSE /\ pipe' = [pipe EXCEPT !.retained = blocking.seq, !.waker = FALSE]
          /\ blocking' = [blocking EXCEPT !.at = "wake-write", !.handed = pipe.waker]
  /\ UNCHANGED <<flow, agent, context, got, earlyPolls, confirmed>>

\* acknowledgement_state: an abort empties the pipe, and is looked for first.
Acknowledged == pipe.terminal # "Aborted" /\ Empty

\* wait_for_acknowledgement of the sequence just written.
wait_for_acknowledgement ==
  /\ blocking.at = "ack" /\ context = "active"
  /\ \/ /\ pipe.terminal = "Aborted" /\ WriterGoes("failed") /\ UNCHANGED confirmed
     \/ /\ Acknowledged
        /\ confirmed' = blocking.seq
        /\ blocking' = [blocking EXCEPT !.at = IF blocking.seq = LastChunk THEN "publish-empty"
                                               ELSE "empty",
                                        !.seq = @ + 1]
  /\ UNCHANGED <<flow, pipe, agent, context, got, earlyPolls>>

\* publishing_finish_step: the end of file is published only once no waker
\* update is under way and no waker is registered; one that is gets delivered.
publishing_finish_step(p) ==
  CASE p.updates # 0 ->
         pipe' = p /\ blocking' = [blocking EXCEPT !.at = "recheck"]
    [] p.updates = 0 /\ p.waker ->
         /\ pipe' = [p EXCEPT !.waker = FALSE]
         /\ blocking' = [blocking EXCEPT !.at = "deliver", !.handed = TRUE]
    [] OTHER ->
         /\ pipe' = [p EXCEPT !.terminal = "Eof"]
         /\ blocking' = [blocking EXCEPT !.at = "done"]

\* begin_blocking_finish and recheck_blocking_finish.
FinishStep ==
  \/ /\ blocking.at = "publish" /\ pipe.terminal = "Open"
     /\ publishing_finish_step([pipe EXCEPT !.terminal = "PublishingEof"])
  \/ /\ blocking.at = "recheck" /\ context = "active" /\ pipe.terminal = "PublishingEof"
     /\ publishing_finish_step(pipe)
  \/ /\ blocking.at \in {"publish", "recheck"} /\ pipe.terminal = "Aborted"
     /\ WriterGoes("failed") /\ UNCHANGED pipe

finish == FinishStep /\ UNCHANGED <<flow, agent, context, got, earlyPolls, confirmed>>

\* receive_poll_step, and the same look again when the waker is installed: take
\* the chunk, see the end, or begin (or keep) a waker registration.
Takes(s, then) ==
  /\ pipe' = [pipe EXCEPT !.retained = NoSeq, !.inFlight = s]
  /\ agent' = [agent EXCEPT !.at = then, !.seq = s, !.res = "chunk"]
Sees(res, then) == agent' = [agent EXCEPT !.at = then, !.res = res] /\ UNCHANGED pipe

receive_poll_step ==
  /\ flow = "download" /\ agent.at = "receive" /\ agent.woken /\ context = "active"
  /\ CASE pipe.retained # NoSeq       -> Takes(pipe.retained, "deliver")
       [] pipe.terminal = "Eof"       -> Sees("eof", "done")
       [] pipe.retained = NoSeq /\ pipe.terminal \in {"Open", "PublishingEof"} ->
            /\ pipe' = [pipe EXCEPT !.updates = @ + 1]
            /\ agent' = [agent EXCEPT !.at = "install", !.woken = FALSE]
       [] OTHER -> FALSE
  /\ UNCHANGED <<flow, blocking, context, got, earlyPolls, confirmed>>

\* install_receiver_waker_state.
install_receiver_waker ==
  /\ agent.at = "install"
  /\ CASE pipe.retained # NoSeq       -> Takes(pipe.retained, "complete")
       [] pipe.retained = NoSeq /\ pipe.terminal = "Aborted" -> Sees("error", "complete")
       [] OTHER -> /\ pipe' = [pipe EXCEPT !.waker = TRUE]
                   /\ agent' = [agent EXCEPT !.at = "complete", !.res = "pending"]
  /\ UNCHANGED <<flow, blocking, context, got, earlyPolls, confirmed>>

\* complete_receiver_waker_update, and the answer of the poll.
complete_receiver_waker_update ==
  /\ agent.at = "complete"
  /\ pipe' = [pipe EXCEPT !.updates = @ - 1]
  /\ agent' = [agent EXCEPT !.at = CASE agent.res = "chunk" -> "deliver"
                                     [] agent.res = "error" -> "failed"
                                     [] agent.res = "pending" -> "receive",
                            !.woken = agent.res = "chunk" \/ (@ /\ agent.res # "error")]
  /\ UNCHANGED <<flow, blocking, context, got, earlyPolls, confirmed>>

\* deliver_chunk: the sink takes the chunk, then acknowledge.
acknowledge ==
  /\ agent.at = "deliver"
  /\ got' = got \o [i \in 1..ChunkLen(agent.seq) |-> <<agent.seq, i - 1>>]
  /\ IF pipe.inFlight = agent.seq /\ pipe.retained = NoSeq
     THEN /\ pipe' = [pipe EXCEPT !.inFlight = NoSeq, !.waker = FALSE]
          /\ agent' = [agent EXCEPT !.at = "receive", !.woken = TRUE]
     ELSE TaskEnds("failed")
  /\ UNCHANGED <<flow, blocking, context, earlyPolls, confirmed>>

----------------------------------------------------------------------------
\* Fairness: the executor polls a woken task (AgentStep), the worker thread runs.
AgentStep ==
  \/ begin_offer \/ finish_offer_poll \/ poll_finish_state
  \/ receive_poll_step \/ install_receiver_waker \/ complete_receiver_waker_update
  \/ acknowledge \/ PollOfAborted \/ PollInEndedContext
BlockingStep ==
  \/ read_step \/ empty_read_step \/ wake_or_abort
  \/ wait_until_empty \/ retain_blocking_chunk \/ wait_for_acknowledgement \/ finish
  \/ LoopInEndedContext

PipeNext == AgentStep \/ BlockingStep \/ DropAgent \/ DropBlocking \/ EarlyPoll \/ ContextEnds

PipeSpec == PipeInit /\ [][PipeNext]_pipeVars

----------------------------------------------------------------------------
(* Properties *)

\* The byte that follows byte b of the file, and the one due after the first i.
Follows(b) == IF b[2] + 1 < ChunkLen(b[1]) THEN <<b[1], b[2] + 1>> ELSE <<b[1] + 1, 0>>
Due(i) == IF i = 0 THEN <<0, 0>> ELSE Follows(got[i])

\* The bytes come out in order, each once; a chunk that offer or write has
\* confirmed has come out whole; a side that sees the end of the file has it all.
PipeDeliversInOrder ==
  /\ \A i \in 1..Len(got) : got[i][1] \in 0..LastChunk /\ got[i] = Due(i - 1)
  /\ confirmed < Due(Len(got))[1]
  /\ (flow = "upload" /\ blocking.at = "done") \/ (flow = "download" /\ agent.at = "done") =>
       Due(Len(got)) = <<Len(PipeChunks), 0>>

\* Something has happened that a parked task has to see.
TaskHasWork ==
  \/ pipe.terminal \in {"Aborted", "Eof"}
  \/ agent.at \in {"offer", "offered", "finish"} /\ Empty
  \/ agent.at = "receive" /\ pipe.retained # NoSeq

\* No lost wake-up: a parked task is registered with the pipe, unless the worker
\* already holds its waker, and it is never left registered with work to do.
PipeNoLostWakeup ==
  agent.at \in {"offer", "offered", "finish", "receive"} /\ ~agent.woken =>
    blocking.handed \/ (pipe.waker /\ ~TaskHasWork)

\* What is written comes out, and nobody sleeps through it.
PipeDelivers == PipeDeliversInOrder /\ PipeNoLostWakeup

\* Both sides come to an end, however the transfer ends, unless the end of file
\* is for ever being published: the writer takes the receiver's waker, which
\* registers again before the writer looks again, and so on.  Nothing but the
\* scheduler's timing ends that exchange.
PipeEnds ==
  <>(AgentEnded /\ BlockingEnded) \/ <>[](pipe.terminal = "PublishingEof")
=============================================================================
