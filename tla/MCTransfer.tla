----------------------------- MODULE MCTransfer -----------------------------
(***************************************************************************)
(* TLC instance of the code that waits for other threads: FilePipe,        *)
(* TransferWorker, StreamDelivery and RepositoryWorker.  A behaviour runs  *)
(* one of them, `focus', and leaves the others at their start.             *)
(***************************************************************************)
EXTENDS FilePipe, TransferWorker, StreamDelivery, RepositoryWorker

CONSTANTS
  Foci,              \* the modules to be run
  s1, s2, a1, a2

VARIABLE focus

MCChunks == <<1, 2>>

\* One answer in each protocol; and one that nobody reads, beside a request that
\* wants its place.
MCWorlds ==
  {[s \in Streams |-> IF s = s1 THEN f ELSE "absent"] :
     f \in {"chat", "responses", "audio", "bridge"}}
  \cup {[s \in Streams |-> IF s = s1 THEN "unread" ELSE "unserved"]}

transferRunVars == <<focus, pipeVars, transferVars, streamVars, workVars>>

TransferRunInit ==
  /\ focus \in Foci /\ PipeInit /\ TransferInit /\ StreamInit /\ WorkInit
  /\ focus # "pipe" => flow = "upload"
  /\ focus # "repository" => kind = "vault"
  /\ focus # "stream" => format = [s \in Streams |-> IF s = s1 THEN "unread" ELSE "unserved"]

InPipe(A) == focus = "pipe" /\ A /\ UNCHANGED <<focus, transferVars, streamVars, workVars>>
InWorker(A) == focus = "worker" /\ A /\ UNCHANGED <<focus, pipeVars, streamVars, workVars>>
InRepository(A) == focus = "repository" /\ A /\ UNCHANGED <<focus, pipeVars, transferVars, streamVars>>
InStream(A) == focus = "stream" /\ A /\ UNCHANGED <<focus, pipeVars, transferVars, workVars>>

TransferRunNext ==
  \/ focus = "pipe" /\ PipeNext /\ UNCHANGED <<focus, transferVars, streamVars, workVars>>
  \/ focus = "worker" /\ TransferNext /\ UNCHANGED <<focus, pipeVars, streamVars, workVars>>
  \/ focus = "repository" /\ WorkNext /\ UNCHANGED <<focus, pipeVars, transferVars, streamVars>>
  \/ focus = "stream" /\ StreamNext /\ UNCHANGED <<focus, pipeVars, transferVars, workVars>>

\* The fairness of each module, in its own behaviours.
TransferRunSpec ==
  /\ TransferRunInit /\ [][TransferRunNext]_transferRunVars
  /\ WF_transferRunVars(InPipe(AgentStep)) /\ WF_transferRunVars(InPipe(BlockingStep))
  /\ WF_transferRunVars(InWorker(ThreadStep)) /\ WF_transferRunVars(InWorker(Joined))
  /\ \A r \in Requests : WF_transferRunVars(InWorker(prepare_poll(r) \/ poll_ready(r)))
  /\ SF_transferRunVars(InWorker(LastCompletionStep))
  /\ WF_transferRunVars(InRepository(WorkThread)) /\ WF_transferRunVars(InRepository(WorkDrop))
  /\ \A c \in Calls : WF_transferRunVars(InRepository(WorkPoll(c)))
  /\ \A s \in Streams :
       /\ WF_transferRunVars(InStream(ProviderStep(s))) /\ WF_transferRunVars(InStream(RelayStep(s)))
       /\ WF_transferRunVars(InStream(HandlerStep(s))) /\ WF_transferRunVars(InStream(TaskStep(s)))
       /\ WF_transferRunVars(InStream(deadline_passes(s)))

\* A transfer comes to its end: both sides of a pipe, every future of the worker,
\* its shutdown, and every stage whose request has gone; every relay, provider and
\* receive task of a stream; a call on a repository thread (they are alike), and its end.
TransfersEnd ==
  /\ focus = "pipe" => PipeEnds
  /\ focus = "worker" => TransferAnswers
  /\ focus = "stream" => StreamsEnd
  /\ focus = "repository" => WorkEnds(a1)
=============================================================================
