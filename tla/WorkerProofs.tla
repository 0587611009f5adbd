---------------------------- MODULE WorkerProofs ----------------------------
(***************************************************************************)
(* Proofs about the two kinds of worker, the pipe and the stream relays.   *)
(*                                                                         *)
(* RepositoryWorker: for any calls and any capacity of the queue, and for  *)
(* each of the three workers, a refusal is final, no call acts twice,      *)
(* nothing begins once the repository has begun to stop, and no wake-up is *)
(* lost.                                                                   *)
(*                                                                         *)
(* TransferWorker: for any number of requests and verifications, a staged  *)
(* asset always has exactly one holder and there is at most one, so that   *)
(* nothing is lost where the worker contains a stage.                      *)
(*                                                                         *)
(* FilePipe: for any chunks, the bytes come out in order, each once, what  *)
(* has been confirmed has come out, and no wake-up is lost.                *)
(*                                                                         *)
(* StreamDelivery: for any streams and any limit, the relay permits are    *)
(* counted exactly, and no request is refused while one is free.           *)
(* What a client gets is what its provider published, in order, without a  *)
(* gap and with nothing behind its end, and no body ends without a reason. *)
(***************************************************************************)
EXTENDS RepositoryWorker, TransferWorker, FilePipe, StreamDelivery, SequenceTheorems,
        FiniteSetTheorems, TLAPS

-----------------------------------------------------------------------------
\* Repository workers.

Replies == {"result", "IntegrityFailure", "Unavailable", "Cancelled"}

Cell == [result : Replies \cup {"none"}, waker : BOOLEAN, completing : BOOLEAN, abandoned : BOOLEAN]

\* What a queue holds: jobs by their call, and the message that only wakes.
Messages == Calls \cup {Wake}

\* Futures, cells, the queue and the thread are well formed.
WorkTypeOK ==
    /\ kind \in Kinds
    /\ future \in [Calls -> {"new", "waiting", "answered", "dropped"}]
    /\ polling \in [Calls -> {"no", "unsent", "registering", "abandoning"}]
    /\ reply \in [Calls -> Replies \cup {"none", "ResourceExhausted"}]
    /\ slots \in [Calls -> Cell]
    /\ scheduled \subseteq Calls /\ contextEnded \subseteq Calls /\ contextWaker \subseteq Calls
    /\ acted \in [Calls -> Nat]
    /\ inbox \in Seq(Messages)
    /\ worker \in [at : {"unstarted", "receive", "begin", "act", "second", "look", "drain", "exited"},
                   call : Calls \cup {NoCall}]
    /\ owner \in {"open", "stopping", "joining", "dropped"}

Queued(q, c) == \E i \in 1..Len(q) : q[i] = c

\* No job is queued twice.
Once(q) == \A i, j \in 1..Len(q) : q[i] = q[j] /\ q[i] # NoCall => i = j

Works(at, c) == worker.at = at /\ worker.call = c

\* The job of c is in the queue or with the thread, which has yet to complete it.
Pending(c) == Queued(inbox, c) \/ Works("begin", c) \/ Works("act", c)

\* The queue and the thread hold a job once between them.  The thread ends only
\* when the repository stops, with nothing left to do; the repository stops only
\* when nobody waits.
ThreadOK ==
    /\ Once(inbox)
    /\ worker.at \in {"begin", "act"} => worker.call \in Calls /\ ~Queued(inbox, worker.call)
    /\ worker.at = "second" => worker.call \in Calls
    /\ worker.at \in {"drain", "exited"} => owner # "open"
    /\ worker.at \in {"exited", "unstarted"} => inbox = << >>
    /\ worker.at = "unstarted" => kind = "catalog"
    /\ owner = "dropped" => worker.at \in {"exited", "unstarted"}
    /\ owner # "open" => \A c \in Calls : future[c] # "waiting"

\* A job that has not been sent has done nothing, and a pending one has no answer.
JobOK(c) ==
    /\ future[c] = "new" => polling[c] = "no"
    /\ future[c] = "new" \/ polling[c] = "unsent" =>
         ~Pending(c) /\ acted[c] = 0 /\ slots[c].result = "none"
    /\ polling[c] = "unsent" => future[c] \in {"waiting", "dropped"}
    /\ polling[c] \in {"registering", "abandoning"} => future[c] = "waiting"
    /\ polling[c] = "registering" => kind = "vault"
    /\ future[c] # "answered" => reply[c] = "none"
    /\ Pending(c) => slots[c].result = "none" /\ reply[c] \in {"none", "Cancelled"}

\* An action is begun once, and what the cell or the caller has says whether it was.
ActedOK(c) ==
    /\ acted[c] \in {0, 1}
    /\ Queued(inbox, c) \/ Works("begin", c) => acted[c] = 0
    /\ Works("act", c) => acted[c] = 1
    /\ slots[c].result \in {"Unavailable", "Cancelled"} => acted[c] = 0
    /\ slots[c].result \in {"result", "IntegrityFailure"} => acted[c] = 1
    /\ reply[c] \in {"ResourceExhausted", "Unavailable"} => acted[c] = 0
    /\ reply[c] \in {"result", "IntegrityFailure"} => acted[c] = 1

\* A task that waits has its answer or a job that will bring it, and unless it is
\* already woken, its waker is where the thread will find it.
WakeOK(c) ==
    /\ slots[c].completing => Works("second", c) \/ future[c] \in {"answered", "dropped"}
    /\ future[c] = "waiting" /\ polling[c] # "unsent" => Pending(c) \/ slots[c].result # "none"
    /\ future[c] = "waiting" /\ polling[c] = "unsent" => c \in scheduled
    /\ future[c] = "waiting" /\ polling[c] \in {"no", "registering"} /\ c \notin scheduled =>
         slots[c].waker /\ (Pending(c) \/ Works("second", c))
    /\ future[c] = "waiting" /\ polling[c] = "no" /\ c \notin scheduled /\ kind = "vault" =>
         c \in contextWaker

CallOK(c) == JobOK(c) /\ ActedOK(c) /\ WakeOK(c)

\* The inductive invariant.
WorkIInv ==
    /\ WorkTypeOK /\ ThreadOK
    /\ \A c \in Calls : CallOK(c)

\* No wake-up is lost, as a state: a task that waits and is not about to be polled
\* again has left its waker in a cell that the thread has yet to complete, or to look
\* at a second time; and the vault's is registered with its context as well.
NoLostWakeUp ==
    \A c \in Calls : future[c] = "waiting" /\ polling[c] = "no" /\ c \notin scheduled =>
        /\ slots[c].waker /\ (Pending(c) \/ Works("second", c))
        /\ kind = "vault" => c \in contextWaker

-----------------------------------------------------------------------------

\* What joins a queue, and what leaves it.
LEMMA AppendFacts ==
    ASSUME NEW q \in Seq(Messages), NEW x \in Messages
    PROVE  /\ Append(q, x) \in Seq(Messages)
           /\ \A c : Queued(Append(q, x), c) <=> Queued(q, c) \/ c = x
           /\ Once(q) /\ (x = NoCall \/ ~Queued(q, x)) => Once(Append(q, x))
<1>1. /\ Append(q, x) \in Seq(Messages) /\ Len(Append(q, x)) = Len(q) + 1 /\ Len(q) \in Nat
      /\ \A i \in 1..Len(q) : Append(q, x)[i] = q[i]
      /\ Append(q, x)[Len(q) + 1] = x
  OBVIOUS
<1>2. \A i \in 1..Len(Append(q, x)) : i \in 1..Len(q) \/ i = Len(q) + 1
  BY <1>1
<1>3. \A i \in 1..Len(q) : i \in 1..Len(Append(q, x)) /\ Len(q) + 1 \in 1..Len(Append(q, x))
  BY <1>1
<1>4. Len(q) + 1 \in 1..Len(Append(q, x))
  BY <1>1
<1> HIDE <1>1
<1>5. ASSUME NEW c PROVE Queued(Append(q, x), c) <=> Queued(q, c) \/ c = x
  BY <1>1, <1>2, <1>3, <1>4 DEF Queued
<1>6. ASSUME Once(q), x = NoCall \/ ~Queued(q, x) PROVE Once(Append(q, x))
  BY <1>1, <1>2, <1>6 DEF Queued, Once
<1> QED BY <1>1, <1>5, <1>6

LEMMA TailFacts ==
    ASSUME NEW q \in Seq(Messages), q # << >>
    PROVE  /\ Tail(q) \in Seq(Messages) /\ Head(q) \in Messages
           /\ \A c : Queued(q, c) <=> Queued(Tail(q), c) \/ c = Head(q)
           /\ Once(q) => /\ Once(Tail(q))
                         /\ Head(q) # NoCall => ~Queued(Tail(q), Head(q))
<1>1. /\ Tail(q) \in Seq(Messages) /\ Head(q) \in Messages /\ Head(q) = q[1]
      /\ Len(q) \in Nat /\ Len(q) >= 1 /\ Len(Tail(q)) = Len(q) - 1
      /\ \A i \in 1..Len(Tail(q)) : Tail(q)[i] = q[i + 1]
  BY EmptySeq
<1>2. \A i \in 1..Len(Tail(q)) : i + 1 \in 1..Len(q)
  BY <1>1
<1>3. \A i \in 1..Len(q) : i = 1 \/ (i - 1 \in 1..Len(Tail(q)) /\ Tail(q)[i - 1] = q[i])
  BY <1>1
<1>4. 1 \in 1..Len(q)
  BY <1>1
<1>5. ASSUME NEW c PROVE Queued(q, c) <=> Queued(Tail(q), c) \/ c = Head(q)
  BY <1>1, <1>2, <1>3, <1>4 DEF Queued
<1>6. ASSUME Once(q) PROVE Once(Tail(q))
  BY <1>1, <1>2, <1>6 DEF Once
<1>7. ASSUME Once(q), Head(q) # NoCall PROVE ~Queued(Tail(q), Head(q))
  BY <1>1, <1>2, <1>4, <1>7 DEF Once, Queued
<1> QED BY <1>1, <1>5, <1>6, <1>7

\* Nothing is in an empty queue.
LEMMA EmptyFacts == Once(<< >>) /\ \A c : ~Queued(<< >>, c)
BY DEF Once, Queued

\* Nothing is sent, and nobody waits.
LEMMA WorkInitOK == WorkInit => WorkIInv
<1> SUFFICES ASSUME WorkInit PROVE WorkIInv
  OBVIOUS
<1>1. WorkTypeOK
  BY DEF WorkInit, WorkTypeOK, Cell, Replies, Kinds
<1>2. ThreadOK
  BY EmptyFacts DEF WorkInit, ThreadOK
<1>3. ASSUME NEW c \in Calls PROVE CallOK(c)
  BY EmptyFacts DEF WorkInit, CallOK, JobOK, ActedOK, WakeOK, Pending, Works
<1> QED BY <1>1, <1>2, <1>3 DEF WorkIInv

\* Nothing that concerns the call d changes.
SameFor(d) ==
    /\ kind' = kind /\ future'[d] = future[d] /\ polling'[d] = polling[d] /\ reply'[d] = reply[d]
    /\ slots'[d] = slots[d] /\ acted'[d] = acted[d]
    /\ d \in scheduled' <=> d \in scheduled
    /\ d \in contextWaker' <=> d \in contextWaker
    /\ Queued(inbox', d) <=> Queued(inbox, d)
    /\ Works("begin", d)' <=> Works("begin", d)
    /\ Works("act", d)' <=> Works("act", d)
    /\ Works("second", d)' <=> Works("second", d)

LEMMA FrameOK ==
    ASSUME NEW d \in Calls, CallOK(d), SameFor(d) PROVE CallOK(d)'
<1>1. Pending(d)' <=> Pending(d)
  BY DEF Pending, SameFor
<1>2. JobOK(d)'
  BY <1>1 DEF CallOK, JobOK, SameFor
<1>3. ActedOK(d)'
  BY <1>1 DEF CallOK, ActedOK, SameFor
<1>4. WakeOK(d)'
  BY <1>1 DEF CallOK, WakeOK, SameFor
<1> QED BY <1>2, <1>3, <1>4 DEF CallOK

\* The call returns a future.
LEMMA SubmitOK ==
    ASSUME WorkIInv, NEW c \in Calls, submit(c) PROVE WorkIInv'
<1> USE DEF WorkIInv
<1>1. /\ future[c] = "new" /\ owner = "open" /\ polling[c] = "no"
      /\ ~Pending(c) /\ acted[c] = 0 /\ slots[c].result = "none" /\ reply[c] = "none"
  BY DEF submit, CallOK, JobOK
<1>2. /\ kind' = kind /\ slots' = slots /\ acted' = acted /\ worker' = worker /\ owner' = owner
      /\ contextEnded' = contextEnded /\ contextWaker' = contextWaker
      /\ polling' = [polling EXCEPT ![c] = IF kind = "catalog" THEN "unsent" ELSE "no"]
  BY DEF submit
<1>3. inbox \in Seq(Messages) /\ c \in Messages /\ c # NoCall
  BY WorkAssumption DEF WorkTypeOK, Messages
<1>4. \/ /\ future' = [future EXCEPT ![c] = "answered"] /\ inbox' = inbox /\ scheduled' = scheduled
         /\ reply' = [reply EXCEPT ![c] = "ResourceExhausted"] /\ kind # "catalog"
      \/ /\ future' = [future EXCEPT ![c] = "waiting"] /\ scheduled' = scheduled \cup {c}
         /\ inbox' = inbox /\ reply' = reply /\ kind = "catalog"
      \/ /\ future' = [future EXCEPT ![c] = "waiting"] /\ scheduled' = scheduled \cup {c}
         /\ inbox' = Append(inbox, c) /\ reply' = reply /\ kind # "catalog"
  BY DEF submit, Answer
<1>5. /\ inbox' \in Seq(Messages) /\ Once(inbox')
      /\ \A d : d # c => (Queued(inbox', d) <=> Queued(inbox, d))
  <2>1. Once(inbox) /\ ~Queued(inbox, c)
    BY <1>1 DEF ThreadOK, Pending
  <2>2. /\ Append(inbox, c) \in Seq(Messages) /\ Once(Append(inbox, c))
        /\ \A d : Queued(Append(inbox, c), d) <=> Queued(inbox, d) \/ d = c
    BY <1>3, <2>1, AppendFacts
  <2>3. inbox' = inbox \/ inbox' = Append(inbox, c)
    BY <1>4
  <2> QED BY <1>3, <2>1, <2>2, <2>3
<1>6. WorkTypeOK'
  BY <1>2, <1>4, <1>5 DEF WorkTypeOK
<1>7. ThreadOK'
  <2>1. worker.at \in {"begin", "act"} => worker.call # c
    BY <1>1 DEF Pending, Works
  <2>2. kind = "catalog" => inbox' = inbox
    BY <1>4
  <2> QED BY <1>1, <1>2, <1>5, <2>1, <2>2 DEF ThreadOK
<1>8. ASSUME NEW d \in Calls, d # c PROVE CallOK(d)'
  <2>1. SameFor(d)
    BY <1>2, <1>4, <1>5, <1>8 DEF SameFor, WorkTypeOK, Works
  <2> QED BY <2>1, FrameOK
<1>9. CallOK(c)'
  <2>1. Queued(Append(inbox, c), c)
    BY <1>3, AppendFacts
  <2>2. /\ future'[c] \in {"answered", "waiting"}
        /\ kind # "catalog" => polling'[c] = "no"
        /\ kind = "catalog" => polling'[c] = "unsent" /\ future'[c] = "waiting" /\ inbox' = inbox
        /\ future'[c] = "waiting" => c \in scheduled' /\ reply'[c] = "none"
                                     /\ (kind # "catalog" => Queued(inbox', c))
        /\ future'[c] = "answered" => reply'[c] = "ResourceExhausted" /\ inbox' = inbox
    BY <1>1, <1>2, <1>4, <2>1 DEF WorkTypeOK
  <2>3. ~Works("begin", c) /\ ~Works("act", c) /\ ~Queued(inbox, c)
    BY <1>1 DEF Pending
  <2>4. JobOK(c)'
    BY <1>1, <1>2, <2>2, <2>3 DEF JobOK, Pending, Works
  <2>5. ActedOK(c)'
    BY <1>1, <1>2, <2>2, <2>3 DEF ActedOK, Works, CallOK
  <2>6. WakeOK(c)'
    BY <1>1, <1>2, <2>2, <2>3 DEF WakeOK, CallOK, Works, Pending
  <2> QED BY <2>4, <2>5, <2>6 DEF CallOK
<1> QED BY <1>6, <1>7, <1>8, <1>9

\* The catalog's first poll sends the job.
LEMMA SendOK ==
    ASSUME WorkIInv, NEW c \in Calls, submit_if_needed(c) PROVE WorkIInv'
<1> USE DEF WorkIInv
<1>1. /\ future[c] = "waiting" /\ polling[c] = "unsent" /\ c \in scheduled
      /\ ~Pending(c) /\ acted[c] = 0 /\ slots[c].result = "none" /\ reply[c] = "none"
  BY DEF submit_if_needed, CallOK, JobOK
<1>2. /\ kind' = kind /\ slots' = slots /\ acted' = acted /\ owner' = owner
      /\ contextEnded' = contextEnded /\ contextWaker' = contextWaker /\ scheduled' = scheduled
      /\ polling' = [polling EXCEPT ![c] = "no"]
      /\ worker' = IF worker.at = "unstarted" THEN [worker EXCEPT !.at = "receive"] ELSE worker
  BY DEF submit_if_needed
<1>3. inbox \in Seq(Messages) /\ c \in Messages /\ c # NoCall
  BY WorkAssumption DEF WorkTypeOK, Messages
<1>4. \/ /\ future' = [future EXCEPT ![c] = "answered"] /\ inbox' = inbox
         /\ reply' = [reply EXCEPT ![c] = "ResourceExhausted"]
      \/ future' = future /\ inbox' = Append(inbox, c) /\ reply' = reply
  BY DEF submit_if_needed, Answer
<1>5. /\ inbox' \in Seq(Messages) /\ Once(inbox')
      /\ \A d : d # c => (Queued(inbox', d) <=> Queued(inbox, d))
  <2>1. Once(inbox) /\ ~Queued(inbox, c)
    BY <1>1 DEF ThreadOK, Pending
  <2>2. /\ Append(inbox, c) \in Seq(Messages) /\ Once(Append(inbox, c))
        /\ \A d : Queued(Append(inbox, c), d) <=> Queued(inbox, d) \/ d = c
    BY <1>3, <2>1, AppendFacts
  <2>3. inbox' = inbox \/ inbox' = Append(inbox, c)
    BY <1>4
  <2> QED BY <1>3, <2>1, <2>2, <2>3
<1>6. /\ worker' \in [at : {"unstarted", "receive", "begin", "act", "second", "look", "drain", "exited"},
                      call : Calls \cup {NoCall}]
      /\ worker'.at # "unstarted" /\ worker'.call = worker.call
      /\ worker.at # "unstarted" => worker' = worker
      /\ worker.at = "unstarted" => worker'.at = "receive"
  BY <1>2 DEF WorkTypeOK
<1>7. WorkTypeOK'
  BY <1>2, <1>4, <1>5, <1>6 DEF WorkTypeOK
<1>8. ThreadOK'
  <2>1. worker.at \in {"begin", "act"} => worker.call # c
    BY <1>1 DEF Pending, Works
  <2>2. owner = "open"
    BY <1>1 DEF ThreadOK
  <2> QED BY <1>2, <1>5, <1>6, <2>1, <2>2 DEF ThreadOK
<1>9. \A d : /\ Works("begin", d)' <=> Works("begin", d)
             /\ Works("act", d)' <=> Works("act", d)
             /\ Works("second", d)' <=> Works("second", d)
  BY <1>6 DEF Works
<1>10. ASSUME NEW d \in Calls, d # c PROVE CallOK(d)'
  <2>1. SameFor(d)
    BY <1>2, <1>4, <1>5, <1>9, <1>10 DEF SameFor, WorkTypeOK
  <2> QED BY <2>1, FrameOK
<1>11. CallOK(c)'
  <2>1. Queued(Append(inbox, c), c)
    BY <1>3, AppendFacts
  <2>2. /\ future'[c] \in {"answered", "waiting"} /\ polling'[c] = "no"
        /\ future'[c] = "waiting" => reply'[c] = "none" /\ Queued(inbox', c)
        /\ future'[c] = "answered" => reply'[c] = "ResourceExhausted" /\ inbox' = inbox
    BY <1>1, <1>2, <1>4, <2>1 DEF WorkTypeOK
  <2>3. ~Works("begin", c) /\ ~Works("act", c) /\ ~Queued(inbox, c)
    BY <1>1 DEF Pending
  <2>4. JobOK(c)'
    BY <1>1, <1>2, <1>9, <2>2, <2>3 DEF JobOK, Pending
  <2>5. ActedOK(c)'
    BY <1>1, <1>2, <1>9, <2>2, <2>3 DEF ActedOK, CallOK
  <2>6. WakeOK(c)'
    BY <1>1, <1>2, <1>9, <2>2, <2>3 DEF WakeOK, CallOK, Pending
  <2> QED BY <2>4, <2>5, <2>6 DEF CallOK
<1> QED BY <1>7, <1>8, <1>10, <1>11

\* Steps of a caller that leave the queue and the thread alone, and after which
\* nobody waits who did not wait before.
LEMMA ThreadFrame ==
    ASSUME ThreadOK, kind' = kind, inbox' = inbox, worker' = worker, owner' = owner,
           \A d \in Calls : future'[d] = "waiting" => future[d] = "waiting"
    PROVE  ThreadOK'
BY DEF ThreadOK

\* A poll takes the result, or leaves its waker.
LEMMA PollOK ==
    ASSUME WorkIInv, NEW c \in Calls, poll_result(c) PROVE WorkIInv'
<1> USE DEF WorkIInv
<1>1. future[c] = "waiting" /\ polling[c] = "no" /\ c \in scheduled /\ slots[c] \in Cell
      /\ reply[c] = "none"
  BY DEF poll_result, WorkTypeOK, CallOK, JobOK
<1>2. /\ kind' = kind /\ acted' = acted /\ inbox' = inbox /\ worker' = worker /\ owner' = owner
      /\ contextEnded' = contextEnded /\ contextWaker' = contextWaker
      /\ scheduled' = scheduled \ {c}
  BY DEF poll_result
<1>3. \A d : /\ Works("begin", d)' <=> Works("begin", d)
             /\ Works("act", d)' <=> Works("act", d)
             /\ Works("second", d)' <=> Works("second", d)
             /\ Pending(d)' <=> Pending(d)
  BY <1>2 DEF Works, Pending
<1>4. CASE slots[c].result # "none" /\ ~slots[c].completing
  <2>1. /\ future' = [future EXCEPT ![c] = "answered"]
        /\ reply' = [reply EXCEPT ![c] = slots[c].result]
        /\ slots' = [slots EXCEPT ![c].result = "none"] /\ polling' = polling
    BY <1>4 DEF poll_result, Answer
  <2>2. /\ slots'[c] \in Cell /\ slots'[c].result = "none"
        /\ slots'[c].completing = slots[c].completing
    BY <1>1, <2>1 DEF Cell, WorkTypeOK
  <2>3. WorkTypeOK'
    BY <1>1, <1>2, <2>1, <2>2 DEF WorkTypeOK, Cell
  <2>4. ThreadOK'
    BY <1>2, <2>1, ThreadFrame DEF WorkTypeOK
  <2>5. ASSUME NEW d \in Calls, d # c PROVE CallOK(d)'
    <3>1. SameFor(d)
      BY <1>2, <1>3, <2>1, <2>5 DEF SameFor, WorkTypeOK
    <3> QED BY <3>1, FrameOK
  <2>6. CallOK(c)'
    <3>1. future'[c] = "answered" /\ reply'[c] = slots[c].result /\ polling'[c] = "no"
      BY <1>1, <2>1 DEF WorkTypeOK
    <3>2. ~Pending(c) /\ ~Queued(inbox, c) /\ ~Works("begin", c) /\ ~Works("act", c)
      BY <1>4 DEF CallOK, JobOK, Pending
    <3>3. JobOK(c)'
      BY <1>3, <3>1, <3>2 DEF JobOK
    <3>4. ActedOK(c) /\ slots[c].result # "ResourceExhausted"
      BY <1>1 DEF CallOK, Cell, Replies
    <3>5. ActedOK(c)'
      BY <1>2, <1>3, <2>2, <3>1, <3>2, <3>4 DEF ActedOK
    <3>6. WakeOK(c)'
      BY <1>4, <2>2, <3>1 DEF WakeOK
    <3> QED BY <3>3, <3>5, <3>6 DEF CallOK
  <2> QED BY <2>3, <2>4, <2>5, <2>6
<1>5. CASE ~(slots[c].result # "none" /\ ~slots[c].completing)
  <2>1. /\ slots' = [slots EXCEPT ![c].waker = TRUE]
        /\ polling' = [polling EXCEPT ![c] = IF kind = "vault" THEN "registering" ELSE "no"]
        /\ future' = future /\ reply' = reply
    BY <1>5 DEF poll_result
  <2>2. /\ slots'[c] \in Cell /\ slots'[c].result = slots[c].result /\ slots'[c].waker
        /\ slots'[c].completing = slots[c].completing
    BY <1>1, <2>1 DEF Cell, WorkTypeOK
  <2>3. WorkTypeOK'
    BY <1>1, <1>2, <2>1, <2>2 DEF WorkTypeOK
  <2>4. ThreadOK'
    BY <1>2, <2>1, ThreadFrame DEF WorkTypeOK
  <2>5. ASSUME NEW d \in Calls, d # c PROVE CallOK(d)'
    <3>1. SameFor(d)
      BY <1>2, <1>3, <2>1, <2>5 DEF SameFor, WorkTypeOK
    <3> QED BY <3>1, FrameOK
  <2>6. CallOK(c)'
    <3>1. /\ kind = "vault" => polling'[c] = "registering"
          /\ kind # "vault" => polling'[c] = "no"
      BY <2>1 DEF WorkTypeOK
    <3>2. JobOK(c)'
      BY <1>1, <1>2, <1>3, <2>1, <2>2, <3>1 DEF JobOK, CallOK
    <3>3. ActedOK(c)'
      BY <1>2, <1>3, <2>1, <2>2 DEF ActedOK, CallOK
    <3>4. Pending(c) \/ Works("second", c)
      BY <1>1, <1>5 DEF WakeOK, CallOK
    <3>5. WakeOK(c)'
      BY <1>1, <1>2, <1>3, <2>1, <2>2, <3>1, <3>4 DEF WakeOK, CallOK
    <3> QED BY <3>2, <3>3, <3>5 DEF CallOK
  <2> QED BY <2>3, <2>4, <2>5, <2>6
<1> QED BY <1>4, <1>5

\* It registers with its context, or finds that this has ended.
LEMMA ObserveOK ==
    ASSUME WorkIInv, NEW c \in Calls, cancellation_observed(c) PROVE WorkIInv'
<1> USE DEF WorkIInv
<1>1. /\ polling[c] = "registering" /\ future[c] = "waiting" /\ kind = "vault" /\ slots[c] \in Cell
      /\ reply[c] = "none"
  BY DEF cancellation_observed, WorkTypeOK, CallOK, JobOK
<1>2. /\ kind' = kind /\ acted' = acted /\ inbox' = inbox /\ worker' = worker /\ owner' = owner
      /\ contextEnded' = contextEnded /\ scheduled' = scheduled
  BY DEF cancellation_observed
<1>3. \A d : /\ Works("begin", d)' <=> Works("begin", d)
             /\ Works("act", d)' <=> Works("act", d)
             /\ Works("second", d)' <=> Works("second", d)
             /\ Pending(d)' <=> Pending(d)
  BY <1>2 DEF Works, Pending
<1>4. CASE c \notin contextEnded
  <2>1. /\ contextWaker' = contextWaker \cup {c} /\ polling' = [polling EXCEPT ![c] = "no"]
        /\ future' = future /\ reply' = reply /\ slots' = slots
    BY <1>4 DEF cancellation_observed
  <2>2. WorkTypeOK'
    BY <1>2, <2>1 DEF WorkTypeOK
  <2>3. ThreadOK'
    BY <1>2, <2>1, ThreadFrame
  <2>4. ASSUME NEW d \in Calls, d # c PROVE CallOK(d)'
    <3>1. SameFor(d)
      BY <1>2, <1>3, <2>1, <2>4 DEF SameFor, WorkTypeOK
    <3> QED BY <3>1, FrameOK
  <2>5. CallOK(c)'
    <3>1. polling'[c] = "no" /\ c \in contextWaker'
      BY <2>1 DEF WorkTypeOK
    <3>2. JobOK(c)'
      BY <1>1, <1>2, <1>3, <2>1, <3>1 DEF JobOK, CallOK
    <3>3. ActedOK(c)'
      BY <1>2, <1>3, <2>1 DEF ActedOK, CallOK
    <3>4. WakeOK(c)'
      BY <1>1, <1>2, <1>3, <2>1, <3>1 DEF WakeOK, CallOK
    <3> QED BY <3>2, <3>3, <3>4 DEF CallOK
  <2> QED BY <2>2, <2>3, <2>4, <2>5
<1>5. CASE c \in contextEnded /\ slots[c].result # "none"
  <2>1. /\ future' = [future EXCEPT ![c] = "answered"]
        /\ reply' = [reply EXCEPT ![c] = slots[c].result]
        /\ slots' = [slots EXCEPT ![c].result = "none"]
        /\ polling' = [polling EXCEPT ![c] = "no"] /\ contextWaker' = contextWaker
    BY <1>5 DEF cancellation_observed, Answer
  <2>2. /\ slots'[c] \in Cell /\ slots'[c].result = "none"
        /\ slots[c].result \in Replies \cup {"none", "ResourceExhausted"}
        /\ slots[c].result # "ResourceExhausted"
    BY <1>1, <2>1 DEF Cell, Replies, WorkTypeOK
  <2>3. WorkTypeOK'
    BY <1>2, <2>1, <2>2 DEF WorkTypeOK
  <2>4. ThreadOK'
    BY <1>2, <2>1, ThreadFrame DEF WorkTypeOK
  <2>5. ASSUME NEW d \in Calls, d # c PROVE CallOK(d)'
    <3>1. SameFor(d)
      BY <1>2, <1>3, <2>1, <2>5 DEF SameFor, WorkTypeOK
    <3> QED BY <3>1, FrameOK
  <2>6. CallOK(c)'
    <3>1. future'[c] = "answered" /\ reply'[c] = slots[c].result /\ polling'[c] = "no"
      BY <1>1, <2>1 DEF WorkTypeOK
    <3>2. ~Pending(c) /\ ~Queued(inbox, c) /\ ~Works("begin", c) /\ ~Works("act", c)
      BY <1>5 DEF CallOK, JobOK, Pending
    <3>3. JobOK(c)'
      BY <1>3, <3>1, <3>2 DEF JobOK
    <3>4. ActedOK(c)
      BY DEF CallOK
    <3>5. ActedOK(c)'
      BY <1>2, <1>3, <2>2, <3>1, <3>2, <3>4 DEF ActedOK
    <3>6. WakeOK(c)'
      BY <3>1 DEF WakeOK
    <3> QED BY <3>3, <3>5, <3>6 DEF CallOK
  <2> QED BY <2>3, <2>4, <2>5, <2>6
<1>6. CASE c \in contextEnded /\ slots[c].result = "none"
  <2>1. /\ polling' = [polling EXCEPT ![c] = "abandoning"]
        /\ slots' = [slots EXCEPT ![c].waker = FALSE]
        /\ future' = future /\ reply' = reply /\ contextWaker' = contextWaker
    BY <1>6 DEF cancellation_observed
  <2>2. /\ slots'[c] \in Cell /\ slots'[c].result = slots[c].result
        /\ slots'[c].completing = slots[c].completing
    BY <1>1, <2>1 DEF Cell, WorkTypeOK
  <2>3. WorkTypeOK'
    BY <1>2, <2>1, <2>2 DEF WorkTypeOK
  <2>4. ThreadOK'
    BY <1>2, <2>1, ThreadFrame DEF WorkTypeOK
  <2>5. ASSUME NEW d \in Calls, d # c PROVE CallOK(d)'
    <3>1. SameFor(d)
      BY <1>2, <1>3, <2>1, <2>5 DEF SameFor, WorkTypeOK
    <3> QED BY <3>1, FrameOK
  <2>6. CallOK(c)'
    <3>1. polling'[c] = "abandoning"
      BY <2>1 DEF WorkTypeOK
    <3>2. JobOK(c)'
      BY <1>1, <1>2, <1>3, <2>1, <2>2, <3>1 DEF JobOK, CallOK
    <3>3. ActedOK(c)'
      BY <1>2, <1>3, <2>1, <2>2 DEF ActedOK, CallOK
    <3>4. WakeOK(c)'
      BY <1>1, <1>2, <1>3, <2>1, <2>2, <3>1 DEF WakeOK, CallOK
    <3> QED BY <3>2, <3>3, <3>4 DEF CallOK
  <2> QED BY <2>3, <2>4, <2>5, <2>6
<1> QED BY <1>4, <1>5, <1>6

\* The vault's caller gives up, a future is dropped, a context is cancelled.
LEMMA LeaveOK ==
    ASSUME WorkIInv, NEW c \in Calls, abandon(c) \/ drop_result(c) \/ context_ends(c) PROVE WorkIInv'
<1> USE DEF WorkIInv
<1>1. /\ kind' = kind /\ acted' = acted /\ inbox' = inbox /\ worker' = worker /\ owner' = owner
  BY DEF abandon, drop_result, context_ends
<1>2. \A d : /\ Works("begin", d)' <=> Works("begin", d)
             /\ Works("act", d)' <=> Works("act", d)
             /\ Works("second", d)' <=> Works("second", d)
             /\ Pending(d)' <=> Pending(d)
  BY <1>1 DEF Works, Pending
<1>3. JobOK(c) /\ ActedOK(c) /\ WakeOK(c) /\ slots[c] \in Cell
  BY DEF CallOK, WorkTypeOK
<1>4. CASE abandon(c)
  <2>1. /\ polling[c] = "abandoning" /\ polling' = [polling EXCEPT ![c] = "no"]
        /\ slots' = [slots EXCEPT ![c].abandoned = TRUE]
        /\ future' = [future EXCEPT ![c] = "answered"] /\ reply' = [reply EXCEPT ![c] = "Cancelled"]
        /\ scheduled' = scheduled /\ contextEnded' = contextEnded /\ contextWaker' = contextWaker
    BY <1>4 DEF abandon, Answer
  <2>2. /\ slots'[c] \in Cell /\ slots'[c].result = slots[c].result
    BY <1>3, <2>1 DEF Cell, WorkTypeOK
  <2>3. WorkTypeOK'
    BY <1>1, <2>1, <2>2 DEF WorkTypeOK, Replies
  <2>4. ThreadOK'
    BY <1>1, <2>1, ThreadFrame DEF WorkTypeOK
  <2>5. ASSUME NEW d \in Calls, d # c PROVE CallOK(d)'
    <3>1. SameFor(d)
      BY <1>1, <1>2, <2>1, <2>5 DEF SameFor, WorkTypeOK
    <3> QED BY <3>1, FrameOK
  <2>6. CallOK(c)'
    <3>1. future'[c] = "answered" /\ reply'[c] = "Cancelled" /\ polling'[c] = "no"
      BY <2>1 DEF WorkTypeOK
    <3>2. JobOK(c)'
      BY <1>2, <1>3, <2>2, <3>1 DEF JobOK
    <3>3. ActedOK(c)'
      BY <1>1, <1>2, <1>3, <2>2, <3>1 DEF ActedOK
    <3>4. WakeOK(c)'
      BY <3>1 DEF WakeOK
    <3> QED BY <3>2, <3>3, <3>4 DEF CallOK
  <2> QED BY <2>3, <2>4, <2>5, <2>6
<1>5. CASE drop_result(c)
  <2>1. /\ future[c] = "waiting" /\ polling[c] \in {"no", "unsent"}
        /\ future' = [future EXCEPT ![c] = "dropped"]
        /\ slots' = [slots EXCEPT ![c].abandoned = (kind = "vault")]
        /\ contextEnded' \subseteq Calls
        /\ polling' = polling /\ reply' = reply /\ scheduled' = scheduled /\ contextWaker' = contextWaker
    BY <1>5 DEF drop_result, WorkTypeOK
  <2>2. /\ slots'[c] \in Cell /\ slots'[c].result = slots[c].result
    BY <1>3, <2>1 DEF Cell, WorkTypeOK
  <2>3. WorkTypeOK'
    BY <1>1, <2>1, <2>2 DEF WorkTypeOK
  <2>4. ThreadOK'
    BY <1>1, <2>1, ThreadFrame DEF WorkTypeOK
  <2>5. ASSUME NEW d \in Calls, d # c PROVE CallOK(d)'
    <3>1. SameFor(d)
      BY <1>1, <1>2, <2>1, <2>5 DEF SameFor, WorkTypeOK
    <3> QED BY <3>1, FrameOK
  <2>6. CallOK(c)'
    <3>1. future'[c] = "dropped"
      BY <2>1 DEF WorkTypeOK
    <3>2. JobOK(c)'
      BY <1>1, <1>2, <1>3, <2>1, <2>2, <3>1 DEF JobOK
    <3>3. ActedOK(c)'
      BY <1>1, <1>2, <1>3, <2>1, <2>2 DEF ActedOK
    <3>4. WakeOK(c)'
      BY <3>1 DEF WakeOK
    <3> QED BY <3>2, <3>3, <3>4 DEF CallOK
  <2> QED BY <2>3, <2>4, <2>5, <2>6
<1>6. CASE context_ends(c)
  <2>1. /\ contextEnded' = contextEnded \cup {c} /\ contextWaker' = contextWaker \ {c}
        /\ scheduled' = IF c \in contextWaker THEN scheduled \cup {c} ELSE scheduled
        /\ future' = future /\ polling' = polling /\ reply' = reply /\ slots' = slots
    BY <1>6 DEF context_ends
  <2>2. WorkTypeOK'
    BY <1>1, <2>1 DEF WorkTypeOK
  <2>3. ThreadOK'
    BY <1>1, <2>1, ThreadFrame
  <2>4. ASSUME NEW d \in Calls, d # c PROVE CallOK(d)'
    <3>1. SameFor(d)
      BY <1>1, <1>2, <2>1, <2>4 DEF SameFor
    <3> QED BY <3>1, FrameOK
  <2>5. CallOK(c)'
    <3>1. JobOK(c)' /\ ActedOK(c)'
      BY <1>1, <1>2, <1>3, <2>1 DEF JobOK, ActedOK
    <3>2. WakeOK(c)'
      BY <1>1, <1>2, <1>3, <2>1 DEF WakeOK
    <3> QED BY <3>1, <3>2 DEF CallOK
  <2> QED BY <2>2, <2>3, <2>4, <2>5
<1> QED BY <1>4, <1>5, <1>6

\* The thread takes the next message, or the end of its queue.
LEMMA ReceiveOK ==
    ASSUME WorkIInv, receive PROVE WorkIInv'
<1> USE DEF WorkIInv
<1>1. /\ kind' = kind /\ future' = future /\ polling' = polling /\ reply' = reply /\ slots' = slots
      /\ scheduled' = scheduled /\ contextEnded' = contextEnded /\ contextWaker' = contextWaker
      /\ acted' = acted /\ owner' = owner /\ worker.at = "receive"
  BY DEF receive, callVars
<1>2. inbox \in Seq(Messages) /\ NoCall \notin Calls
  BY WorkAssumption DEF WorkTypeOK
<1>3. CASE inbox # << >>
  <2>1. /\ inbox' = Tail(inbox)
        /\ Head(inbox) = NoCall => worker' = [at |-> "look", call |-> NoCall]
        /\ Head(inbox) # NoCall => worker' = [at |-> "begin", call |-> Head(inbox)]
    BY <1>3 DEF receive, Thread, Wake
  <2>2. /\ inbox' \in Seq(Messages) /\ Head(inbox) \in Messages
        /\ \A d : Queued(inbox, d) <=> Queued(inbox', d) \/ d = Head(inbox)
        /\ Once(inbox') /\ (Head(inbox) # NoCall => ~Queued(inbox', Head(inbox)))
    <3>1. Once(inbox)
      BY DEF ThreadOK
    <3>2. /\ Tail(inbox) \in Seq(Messages) /\ Head(inbox) \in Messages
          /\ \A d : Queued(inbox, d) <=> Queued(Tail(inbox), d) \/ d = Head(inbox)
          /\ Once(Tail(inbox)) /\ (Head(inbox) # NoCall => ~Queued(Tail(inbox), Head(inbox)))
      BY <1>2, <1>3, <3>1, TailFacts
    <3> QED BY <2>1, <3>2
  <2>3. WorkTypeOK'
    BY <1>1, <2>1, <2>2 DEF WorkTypeOK, Messages, Wake
  <2>4. ThreadOK'
    BY <1>1, <1>2, <2>1, <2>2 DEF ThreadOK, Messages, Wake
  <2>5. ASSUME NEW d \in Calls PROVE CallOK(d)'
    <3>1. /\ ~Works("begin", d) /\ ~Works("act", d) /\ ~Works("second", d)
          /\ ~Works("act", d)' /\ ~Works("second", d)'
          /\ Works("begin", d)' <=> d = Head(inbox)
      BY <1>1, <1>2, <2>1 DEF Works
    <3>2. /\ Pending(d)' <=> Pending(d)
          /\ Queued(inbox', d) \/ Works("begin", d)' <=> Queued(inbox, d)
      BY <2>2, <3>1 DEF Pending
    <3>3. JobOK(d) /\ ActedOK(d) /\ WakeOK(d)
      BY DEF CallOK
    <3>4. JobOK(d)'
      BY <1>1, <3>2, <3>3 DEF JobOK
    <3>5. ActedOK(d)'
      BY <1>1, <3>1, <3>2, <3>3 DEF ActedOK
    <3>6. WakeOK(d)'
      BY <1>1, <3>1, <3>2, <3>3 DEF WakeOK
    <3> QED BY <3>4, <3>5, <3>6 DEF CallOK
  <2> QED BY <2>3, <2>4, <2>5
<1>4. CASE inbox = << >>
  <2>1. /\ owner = "joining" /\ worker' = [at |-> "drain", call |-> NoCall] /\ inbox' = inbox
    BY <1>4 DEF receive, Thread
  <2>2. WorkTypeOK'
    BY <1>1, <2>1 DEF WorkTypeOK
  <2>3. ThreadOK'
    BY <1>1, <2>1 DEF ThreadOK
  <2>4. ASSUME NEW d \in Calls PROVE CallOK(d)'
    <3>1. SameFor(d)
      BY <1>1, <1>2, <2>1 DEF SameFor, Works
    <3> QED BY <3>1, FrameOK
  <2> QED BY <2>2, <2>3, <2>4
<1> QED BY <1>3, <1>4

\* A cell is completed: with an answer that says whether the action was begun.
LEMMA CompletesOK ==
    ASSUME WorkIInv, NEW c \in Calls, NEW what \in Replies, Completes(c, what),
           Pending(c), ~Pending(c)',
           \A d \in Calls : d # c => (Pending(d)' <=> Pending(d)),
           \A d \in Calls : d # c => (Queued(inbox', d) \/ Works("begin", d)' <=>
                                      Queued(inbox, d) \/ Works("begin", d)),
           \A d \in Calls : d # c => (Works("act", d)' <=> Works("act", d)),
           \A d \in Calls : d # c => (Works("second", d)' <=> Works("second", d)),
           kind = "catalog" => Works("second", c)' \/ owner # "open",
           acted[c] = IF what \in {"Unavailable", "Cancelled"} THEN 0 ELSE 1,
           kind' = kind, future' = future, polling' = polling, reply' = reply, acted' = acted,
           contextWaker' = contextWaker
    PROVE  /\ slots' \in [Calls -> Cell] /\ scheduled' \subseteq Calls
           /\ \A d \in Calls : CallOK(d)'
<1> USE DEF WorkIInv
<1>1. /\ slots[c] \in Cell
      /\ slots' = [slots EXCEPT ![c] = [@ EXCEPT !.result = what, !.waker = FALSE,
                                                 !.completing = (kind = "catalog")]]
      /\ scheduled' = IF slots[c].waker THEN scheduled \cup {c} ELSE scheduled
  BY DEF Completes, WorkTypeOK
<1>2. /\ slots'[c] \in Cell /\ slots'[c].result = what /\ ~slots'[c].waker
      /\ slots'[c].completing <=> kind = "catalog"
  BY <1>1 DEF Cell, WorkTypeOK
<1>3. slots' \in [Calls -> Cell] /\ scheduled' \subseteq Calls
  BY <1>1, <1>2 DEF WorkTypeOK
<1>4. ASSUME NEW d \in Calls, d # c PROVE CallOK(d)'
  <2>1. slots'[d] = slots[d] /\ (d \in scheduled' <=> d \in scheduled)
    BY <1>1, <1>4 DEF WorkTypeOK
  <2>2. JobOK(d) /\ ActedOK(d) /\ WakeOK(d)
    BY DEF CallOK
  <2>3. JobOK(d)'
    BY <1>4, <2>1, <2>2 DEF JobOK
  <2>4. ActedOK(d)'
    BY <1>4, <2>1, <2>2 DEF ActedOK
  <2>5. WakeOK(d)'
    BY <1>4, <2>1, <2>2 DEF WakeOK
  <2> QED BY <2>3, <2>4, <2>5 DEF CallOK
<1>5. CallOK(c)'
  <2>1. JobOK(c) /\ ActedOK(c) /\ WakeOK(c) /\ what # "none"
    BY DEF CallOK, Replies
  <2>2. /\ future[c] # "new" /\ polling[c] # "unsent" /\ slots[c].result = "none"
        /\ reply[c] \in {"none", "Cancelled"}
    BY <2>1 DEF JobOK
  <2>3. ~Queued(inbox', c) /\ ~Works("begin", c)' /\ ~Works("act", c)'
    BY DEF Pending
  <2>4. JobOK(c)'
    BY <2>1, <2>2 DEF JobOK
  <2>5. ActedOK(c)'
    BY <1>2, <2>1, <2>2, <2>3 DEF ActedOK
  <2>6. future[c] = "waiting" /\ polling[c] \in {"no", "registering"} => c \in scheduled'
    <3>1. CASE c \in scheduled
      BY <1>1, <3>1
    <3>2. CASE c \notin scheduled
      BY <1>1, <2>1, <3>2 DEF WakeOK
    <3> QED BY <3>1, <3>2
  <2>7. kind = "catalog" => Works("second", c)' \/ future[c] \in {"answered", "dropped"}
    BY <2>2 DEF ThreadOK, WorkTypeOK
  <2>8. WakeOK(c)'
    BY <1>2, <2>1, <2>2, <2>6, <2>7 DEF WakeOK
  <2> QED BY <2>4, <2>5, <2>8 DEF CallOK
<1> QED BY <1>3, <1>4, <1>5

\* The thread begins an action, or refuses it.
LEMMA BeginOK ==
    ASSUME WorkIInv, begin PROVE WorkIInv'
<1> USE DEF WorkIInv
<1>0. PICK c \in Calls : c = worker.call
  BY DEF begin, ThreadOK
<1>1. /\ kind' = kind /\ future' = future /\ polling' = polling /\ reply' = reply
      /\ contextEnded' = contextEnded /\ contextWaker' = contextWaker
      /\ inbox' = inbox /\ owner' = owner /\ worker.at = "begin"
  BY DEF begin
<1>2. /\ c \in Calls /\ ~Queued(inbox, c) /\ Works("begin", c) /\ Pending(c) /\ acted[c] = 0
      /\ NoCall \notin Calls
  BY <1>0, <1>1, WorkAssumption DEF ThreadOK, Works, Pending, CallOK, ActedOK
<1>3. \A d : d # c => ~Works("begin", d) /\ ~Works("act", d) /\ ~Works("second", d)
  BY <1>0 DEF Works
<1>4. ~Works("act", c) /\ ~Works("second", c)
  BY <1>1 DEF Works
<1>5. CASE Refused(c)
  <2> DEFINE what == IF stopped THEN "Unavailable" ELSE "Cancelled"
  <2>1. /\ Completes(c, what) /\ acted' = acted /\ what \in Replies /\ what \in {"Unavailable", "Cancelled"}
        /\ kind = "catalog" => worker' = [at |-> "second", call |-> c]
        /\ kind = "vault" => worker' = [at |-> "look", call |-> NoCall]
        /\ kind = "import" => worker' = [at |-> "drain", call |-> NoCall]
    BY <1>0, <1>5 DEF begin, Thread, Replies
  <2> HIDE DEF what
  <2>2. kind \in {"catalog", "vault", "import"} /\ (kind = "import" => owner # "open")
    BY <1>5 DEF WorkTypeOK, Kinds, Refused, stopped
  <2>3. /\ worker' \in [at : {"unstarted", "receive", "begin", "act", "second", "look", "drain", "exited"},
                        call : Calls \cup {NoCall}]
        /\ worker'.at \in {"second", "look", "drain"}
        /\ worker'.at = "second" => worker'.call = c /\ kind = "catalog"
        /\ worker'.at = "drain" => owner # "open"
        /\ kind = "catalog" => worker'.at = "second" /\ worker'.call = c
    BY <1>2, <2>1, <2>2
  <2>4. /\ \A d : ~Works("begin", d)' /\ ~Works("act", d)'
        /\ \A d : d # c => ~Works("second", d)'
        /\ kind = "catalog" => Works("second", c)'
    BY <2>3 DEF Works
  <2>5. ~Pending(c)' /\ \A d : d # c => (Pending(d)' <=> Pending(d))
    BY <1>1, <1>2, <1>3, <2>4 DEF Pending
  <2>6. /\ slots' \in [Calls -> Cell] /\ scheduled' \subseteq Calls
        /\ \A d \in Calls : CallOK(d)'
    BY <1>1, <1>2, <1>3, <2>1, <2>4, <2>5, CompletesOK
  <2>7. WorkTypeOK'
    BY <1>1, <2>1, <2>3, <2>6 DEF WorkTypeOK
  <2>8. ThreadOK'
    BY <1>1, <1>2, <2>3 DEF ThreadOK
  <2> QED BY <2>6, <2>7, <2>8
<1>6. CASE ~Refused(c)
  <2>1. /\ acted' = [acted EXCEPT ![c] = @ + 1] /\ worker' = [at |-> "act", call |-> c]
        /\ slots' = slots /\ scheduled' = scheduled
    BY <1>0, <1>6 DEF begin, Thread
  <2>2. /\ \A d : ~Works("begin", d)' /\ ~Works("second", d)'
        /\ \A d : Works("act", d)' <=> d = c
    BY <2>1 DEF Works
  <2>3. WorkTypeOK'
    BY <1>1, <1>2, <2>1 DEF WorkTypeOK
  <2>4. ThreadOK'
    BY <1>1, <1>2, <2>1 DEF ThreadOK
  <2>5. ASSUME NEW d \in Calls, d # c PROVE CallOK(d)'
    <3>1. SameFor(d)
      BY <1>1, <1>3, <2>1, <2>2, <2>5 DEF SameFor, WorkTypeOK
    <3> QED BY <3>1, FrameOK
  <2>6. CallOK(c)'
    <3>1. JobOK(c) /\ ActedOK(c) /\ WakeOK(c)
      BY <1>2 DEF CallOK
    <3>2. Pending(c)' /\ acted'[c] = 1 /\ ~Queued(inbox', c)
      BY <1>1, <1>2, <2>1, <2>2 DEF Pending, WorkTypeOK
    <3>3. JobOK(c)'
      BY <1>1, <1>2, <2>1, <3>1, <3>2 DEF JobOK
    <3>4. /\ slots[c].result = "none" /\ reply[c] \in {"none", "Cancelled"}
      BY <1>2, <3>1 DEF JobOK
    <3>5. ActedOK(c)'
      BY <1>1, <2>1, <2>2, <3>2, <3>4 DEF ActedOK
    <3>6. WakeOK(c)'
      BY <1>1, <1>4, <2>1, <3>1, <3>2 DEF WakeOK
    <3> QED BY <3>3, <3>5, <3>6 DEF CallOK
  <2> QED BY <2>3, <2>4, <2>5, <2>6
<1> QED BY <1>5, <1>6

\* The action returns or panics.
LEMMA FinishOK ==
    ASSUME WorkIInv, finish_action PROVE WorkIInv'
<1> USE DEF WorkIInv
<1>0. PICK c \in Calls : c = worker.call
  BY DEF finish_action, ThreadOK
<1>1. /\ kind' = kind /\ future' = future /\ polling' = polling /\ reply' = reply /\ acted' = acted
      /\ contextEnded' = contextEnded /\ contextWaker' = contextWaker
      /\ inbox' = inbox /\ owner' = owner /\ worker.at = "act"
  BY DEF finish_action
<1>2. /\ c \in Calls /\ ~Queued(inbox, c) /\ Works("act", c) /\ Pending(c) /\ acted[c] = 1
      /\ NoCall \notin Calls
  BY <1>0, <1>1, WorkAssumption DEF ThreadOK, Works, Pending, CallOK, ActedOK
<1>3. \A d : d # c => ~Works("begin", d) /\ ~Works("act", d) /\ ~Works("second", d)
  BY <1>0 DEF Works
<1>4. PICK what \in {"result", "IntegrityFailure"} :
        /\ Completes(c, what)
        /\ kind = "catalog" => worker' = [at |-> "second", call |-> c]
        /\ kind # "catalog" => worker' = [at |-> "look", call |-> NoCall]
  BY <1>0 DEF finish_action, Thread
<1>5. what \in Replies /\ ~(what \in {"Unavailable", "Cancelled"})
  BY DEF Replies
<1>6. /\ worker' \in [at : {"unstarted", "receive", "begin", "act", "second", "look", "drain", "exited"},
                      call : Calls \cup {NoCall}]
      /\ worker'.at \in {"second", "look"}
      /\ worker'.at = "second" => worker'.call = c
      /\ kind = "catalog" => worker'.at = "second" /\ worker'.call = c
  BY <1>2, <1>4
<1>7. /\ \A d : ~Works("begin", d)' /\ ~Works("act", d)'
      /\ \A d : d # c => ~Works("second", d)'
      /\ kind = "catalog" => Works("second", c)'
  BY <1>6 DEF Works
<1>8. ~Pending(c)' /\ \A d : d # c => (Pending(d)' <=> Pending(d))
  BY <1>1, <1>2, <1>3, <1>7 DEF Pending
<1>9. /\ slots' \in [Calls -> Cell] /\ scheduled' \subseteq Calls
      /\ \A d \in Calls : CallOK(d)'
  BY <1>1, <1>2, <1>3, <1>4, <1>5, <1>7, <1>8, CompletesOK
<1>10. WorkTypeOK'
  BY <1>1, <1>6, <1>9 DEF WorkTypeOK
<1>11. ThreadOK'
  BY <1>1, <1>2, <1>6 DEF ThreadOK
<1> QED BY <1>9, <1>10, <1>11

\* The catalog's second look wakes who came meanwhile.
LEMMA CompleteOK ==
    ASSUME WorkIInv, complete PROVE WorkIInv'
<1> USE DEF WorkIInv
<1>0. PICK c \in Calls : c = worker.call
  BY DEF complete, ThreadOK
<1>1. /\ kind' = kind /\ future' = future /\ polling' = polling /\ reply' = reply /\ acted' = acted
      /\ contextEnded' = contextEnded /\ contextWaker' = contextWaker
      /\ inbox' = inbox /\ owner' = owner /\ worker.at = "second"
      /\ slots' = [slots EXCEPT ![c] = [@ EXCEPT !.completing = FALSE, !.waker = FALSE]]
      /\ scheduled' = IF slots[c].waker THEN scheduled \cup {c} ELSE scheduled
      /\ worker' = [at |-> IF stopped THEN "drain" ELSE "receive", call |-> NoCall]
  BY <1>0 DEF complete, Thread
<1>2. c \in Calls /\ slots[c] \in Cell
  BY <1>0 DEF ThreadOK, WorkTypeOK
<1>3. \A d : d # c => ~Works("begin", d) /\ ~Works("act", d) /\ ~Works("second", d)
  BY <1>0 DEF Works
<1>4. ~Works("begin", c) /\ ~Works("act", c)
  BY <1>1 DEF Works
<1>5. /\ slots'[c] \in Cell /\ slots'[c].result = slots[c].result /\ ~slots'[c].completing
  BY <1>1, <1>2 DEF Cell, WorkTypeOK
<1>6. WorkTypeOK'
  BY <1>1, <1>2, <1>5 DEF WorkTypeOK
<1>7. ThreadOK'
  BY <1>1 DEF ThreadOK, stopped
<1>8. \A d : ~Works("begin", d)' /\ ~Works("act", d)' /\ ~Works("second", d)'
  BY <1>1 DEF Works
<1>9. ASSUME NEW d \in Calls, d # c PROVE CallOK(d)'
  <2>1. SameFor(d)
    BY <1>1, <1>3, <1>8, <1>9 DEF SameFor, WorkTypeOK
  <2> QED BY <2>1, FrameOK
<1>10. CallOK(c)'
  <2>1. JobOK(c) /\ ActedOK(c) /\ WakeOK(c)
    BY <1>2 DEF CallOK
  <2>2. Pending(c)' <=> Pending(c)
    BY <1>1, <1>4, <1>8 DEF Pending
  <2>3. JobOK(c)'
    BY <1>1, <1>5, <2>1, <2>2 DEF JobOK
  <2>4. ActedOK(c)'
    BY <1>1, <1>4, <1>5, <1>8, <2>1 DEF ActedOK
  <2>5. future[c] = "waiting" /\ polling[c] \in {"no", "registering"} => c \in scheduled'
    BY <1>1, <2>1 DEF WakeOK
  <2>6. future[c] = "waiting" /\ polling[c] = "unsent" => c \in scheduled'
    BY <1>1, <2>1 DEF WakeOK
  <2>7. WakeOK(c)'
    BY <1>1, <1>5, <2>1, <2>2, <2>5, <2>6 DEF WakeOK
  <2> QED BY <2>3, <2>4, <2>7 DEF CallOK
<1> QED BY <1>6, <1>7, <1>9, <1>10

\* Between two messages, and at the end of the queue.
LEMMA DrainOK ==
    ASSUME WorkIInv, drain PROVE WorkIInv'
<1> USE DEF WorkIInv
<1>1. /\ kind' = kind /\ future' = future /\ polling' = polling /\ reply' = reply /\ acted' = acted
      /\ contextEnded' = contextEnded /\ contextWaker' = contextWaker
      /\ owner' = owner /\ worker.at = "drain" /\ owner # "open"
  BY DEF drain, ThreadOK
<1>2. inbox \in Seq(Messages) /\ NoCall \notin Calls
  BY WorkAssumption DEF WorkTypeOK
<1>3. \A d : ~Works("begin", d) /\ ~Works("act", d) /\ ~Works("second", d)
  BY <1>1 DEF Works
<1>4. CASE inbox = << >>
  <2>1. /\ worker' = [at |-> "exited", call |-> NoCall] /\ inbox' = inbox
        /\ slots' = slots /\ scheduled' = scheduled
    BY <1>4 DEF drain, Thread
  <2>2. WorkTypeOK'
    BY <1>1, <2>1 DEF WorkTypeOK
  <2>3. ThreadOK'
    BY <1>1, <1>4, <2>1 DEF ThreadOK
  <2>4. ASSUME NEW d \in Calls PROVE CallOK(d)'
    <3>1. SameFor(d)
      BY <1>1, <1>3, <2>1 DEF SameFor, Works
    <3> QED BY <3>1, FrameOK
  <2> QED BY <2>2, <2>3, <2>4
<1>5. CASE inbox # << >>
  <2>1. /\ inbox' = Tail(inbox) /\ worker' = worker
        /\ Head(inbox) = NoCall => slots' = slots /\ scheduled' = scheduled
        /\ Head(inbox) # NoCall => Completes(Head(inbox), "Unavailable")
    BY <1>5 DEF drain, Wake
  <2>2. /\ inbox' \in Seq(Messages) /\ Head(inbox) \in Messages
        /\ \A d : Queued(inbox, d) <=> Queued(inbox', d) \/ d = Head(inbox)
        /\ Once(inbox') /\ (Head(inbox) # NoCall => ~Queued(inbox', Head(inbox)))
    <3>1. Once(inbox)
      BY DEF ThreadOK
    <3>2. /\ Tail(inbox) \in Seq(Messages) /\ Head(inbox) \in Messages
          /\ \A d : Queued(inbox, d) <=> Queued(Tail(inbox), d) \/ d = Head(inbox)
          /\ Once(Tail(inbox)) /\ (Head(inbox) # NoCall => ~Queued(Tail(inbox), Head(inbox)))
      BY <1>2, <1>5, <3>1, TailFacts
    <3> QED BY <2>1, <3>2
  <2>3. \A d : ~Works("begin", d)' /\ ~Works("act", d)' /\ ~Works("second", d)'
    BY <1>1, <2>1 DEF Works
  <2>4. ThreadOK'
    BY <1>1, <2>1, <2>2 DEF ThreadOK
  <2>5. CASE Head(inbox) = NoCall
    <3>1. WorkTypeOK'
      BY <1>1, <2>1, <2>2, <2>5 DEF WorkTypeOK
    <3>2. ASSUME NEW d \in Calls PROVE CallOK(d)'
      <4>1. SameFor(d)
        BY <1>1, <1>2, <1>3, <2>1, <2>2, <2>3, <2>5 DEF SameFor
      <4> QED BY <4>1, FrameOK
    <3> QED BY <2>4, <3>1, <3>2
  <2>6. CASE Head(inbox) # NoCall
    <3>1. PICK c \in Calls : c = Head(inbox)
      BY <2>2, <2>6 DEF Messages, Wake
    <3>2. Pending(c) /\ acted[c] = 0 /\ Completes(c, "Unavailable")
      BY <2>1, <2>2, <2>6, <3>1 DEF Pending, CallOK, ActedOK
    <3>3. ~Pending(c)' /\ \A d : d # c => (Pending(d)' <=> Pending(d))
      BY <1>3, <2>2, <2>3, <2>6, <3>1 DEF Pending
    <3>4. \A d : d # c => (Queued(inbox', d) <=> Queued(inbox, d))
      BY <2>2, <3>1
    <3>5. /\ slots' \in [Calls -> Cell] /\ scheduled' \subseteq Calls
          /\ \A d \in Calls : CallOK(d)'
      <4>1. "Unavailable" \in Replies
        BY DEF Replies
      <4> QED BY <1>1, <1>3, <2>3, <3>2, <3>3, <3>4, <4>1, CompletesOK
    <3>6. WorkTypeOK'
      BY <1>1, <2>1, <2>2, <3>5 DEF WorkTypeOK
    <3> QED BY <2>4, <3>5, <3>6
  <2> QED BY <2>5, <2>6
<1> QED BY <1>4, <1>5

LEMMA LookOK ==
    ASSUME WorkIInv, look PROVE WorkIInv'
<1> USE DEF WorkIInv
<1>1. /\ kind' = kind /\ future' = future /\ polling' = polling /\ reply' = reply /\ slots' = slots
      /\ scheduled' = scheduled /\ contextEnded' = contextEnded /\ contextWaker' = contextWaker
      /\ acted' = acted /\ inbox' = inbox /\ owner' = owner /\ worker.at = "look"
      /\ worker' = [at |-> IF stopped THEN "drain" ELSE "receive", call |-> NoCall]
  BY DEF look, callVars, Thread
<1>2. WorkTypeOK'
  BY <1>1 DEF WorkTypeOK
<1>3. ThreadOK'
  BY <1>1 DEF ThreadOK, stopped
<1>4. ASSUME NEW d \in Calls PROVE CallOK(d)'
  <2>1. SameFor(d)
    BY <1>1 DEF SameFor, Works
  <2> QED BY <2>1, FrameOK
<1> QED BY <1>2, <1>3, <1>4

\* The repository's Drop.
LEMMA OwnerOK ==
    ASSUME WorkIInv, drop_worker \/ wake_worker \/ join_worker PROVE WorkIInv'
<1> USE DEF WorkIInv
<1>1. /\ kind' = kind /\ future' = future /\ polling' = polling /\ reply' = reply /\ slots' = slots
      /\ scheduled' = scheduled /\ contextEnded' = contextEnded /\ contextWaker' = contextWaker
      /\ acted' = acted /\ worker' = worker
  BY DEF drop_worker, wake_worker, join_worker, callVars
<1>2. inbox \in Seq(Messages) /\ NoCall \in Messages /\ NoCall \notin Calls
  BY WorkAssumption DEF WorkTypeOK, Messages, Wake
<1>3. \/ inbox' = inbox
      \/ inbox' = Append(inbox, NoCall) /\ kind # "catalog" /\ worker.at # "exited"
  BY DEF drop_worker, wake_worker, join_worker, Wake
<1>4. /\ Append(inbox, NoCall) \in Seq(Messages)
      /\ \A d : Queued(Append(inbox, NoCall), d) <=> Queued(inbox, d) \/ d = NoCall
      /\ Once(Append(inbox, NoCall))
  <2>1. Once(inbox)
    BY DEF ThreadOK
  <2> QED BY <1>2, <2>1, AppendFacts
<1>5. /\ inbox' \in Seq(Messages) /\ Once(inbox')
      /\ \A d \in Calls : Queued(inbox', d) <=> Queued(inbox, d)
  <2>1. Once(inbox)
    BY DEF ThreadOK
  <2> QED BY <1>2, <1>3, <1>4, <2>1
<1>6. WorkTypeOK'
  BY <1>1, <1>5 DEF WorkTypeOK, drop_worker, wake_worker, join_worker
<1>7. ThreadOK'
  BY <1>1, <1>3, <1>5 DEF ThreadOK, drop_worker, wake_worker, join_worker
<1>8. ASSUME NEW d \in Calls PROVE CallOK(d)'
  <2>1. SameFor(d)
    BY <1>1, <1>5 DEF SameFor, Works
  <2> QED BY <2>1, FrameOK
<1> QED BY <1>6, <1>7, <1>8

\* Nothing happens.
LEMMA StutterOK ==
    ASSUME WorkIInv, UNCHANGED workVars PROVE WorkIInv'
BY DEF WorkIInv, workVars, callVars, WorkTypeOK, ThreadOK, CallOK, JobOK, ActedOK, WakeOK,
   Pending, Works

LEMMA WorkNextOK == WorkIInv /\ [WorkNext]_workVars => WorkIInv'
<1> SUFFICES ASSUME WorkIInv, [WorkNext]_workVars PROVE WorkIInv'
  OBVIOUS
<1>1. CASE WorkThread
  BY <1>1, ReceiveOK, BeginOK, FinishOK, CompleteOK, LookOK, DrainOK DEF WorkThread
<1>2. CASE drop_worker \/ WorkDrop
  BY <1>2, OwnerOK DEF WorkDrop
<1>3. ASSUME NEW c \in Calls, submit(c) \/ WorkPoll(c) \/ drop_result(c) \/ context_ends(c)
      PROVE  WorkIInv'
  BY <1>3, SubmitOK, SendOK, PollOK, ObserveOK, LeaveOK DEF WorkPoll
<1>4. CASE UNCHANGED workVars
  BY <1>4, StutterOK
<1> QED BY <1>1, <1>2, <1>3, <1>4 DEF WorkNext

\* The invariant holds throughout (the safety part of the specification).
LEMMA WorkInvariant == WorkSpec => []WorkIInv
BY WorkInitOK, WorkNextOK, PTL DEF WorkSpec

\* A call that was refused, for want of room or because the repository stopped,
\* never acts, no call acts twice, the repository is gone only when its thread is and
\* nothing is left in the queue, and no action begins once it has begun to stop or,
\* in the vault, once the caller has gone (execute, drain_jobs and Drop).
THEOREM RefusalsStayFinal == WorkSpec => RefusalsAreFinal
<1> DEFINE Told == \A c \in Calls :
               /\ reply[c] \in {"ResourceExhausted", "Unavailable"} => acted[c] = 0
               /\ reply[c] \in {"result", "IntegrityFailure"} => acted[c] = 1
               /\ acted[c] <= 1
           Gone == owner = "dropped" => inbox = << >> /\ worker.at \in {"exited", "unstarted"}
           Late == \A c \in Calls : stopped \/ (kind = "vault" /\ slots[c].abandoned) =>
                       acted'[c] = acted[c]
<1>1. WorkIInv => Told
  BY DEF WorkIInv, CallOK, ActedOK
<1>2. WorkIInv => Gone
  BY DEF WorkIInv, ThreadOK
<1>3. WorkIInv /\ [WorkNext]_workVars => [Late]_workVars
  <2> SUFFICES ASSUME WorkIInv, WorkNext, NEW c \in Calls,
                      stopped \/ (kind = "vault" /\ slots[c].abandoned)
               PROVE  acted'[c] = acted[c]
    BY DEF workVars
  <2>1. CASE begin
    <3>1. CASE worker.call = c
      BY <2>1, <3>1 DEF begin, Refused
    <3>2. CASE worker.call # c
      BY <2>1, <3>2 DEF begin, WorkIInv, WorkTypeOK
    <3> QED BY <3>1, <3>2
  <2>2. CASE ~begin
    BY <2>2 DEF WorkNext, WorkThread, WorkDrop, WorkPoll, receive, finish_action, complete, look,
       drain, drop_worker, wake_worker, join_worker, submit, submit_if_needed, poll_result,
       cancellation_observed, abandon, drop_result, context_ends
  <2> QED BY <2>1, <2>2
<1> HIDE DEF Told, Gone, Late
<1>4. WorkSpec => []Told /\ []Gone /\ [][Late]_workVars
  BY WorkInvariant, <1>1, <1>2, <1>3, PTL DEF WorkSpec
<1> QED BY <1>4 DEF RefusalsAreFinal, Told, Gone, Late

\* A task that waits and is not about to be polled has its waker where the thread
\* will find it, in each of the three protocols: the vault's two registrations, the
\* import's one, and the catalog's completion in two looks (poll_result, complete).
THEOREM NoWakeUpIsLost == WorkSpec => []NoLostWakeUp
<1>1. WorkIInv => NoLostWakeUp
  BY DEF WorkIInv, CallOK, WakeOK, NoLostWakeUp
<1> QED BY WorkInvariant, <1>1, PTL

-----------------------------------------------------------------------------
\* The transfer worker.

TransferSpec == TransferInit /\ [][TransferNext]_transferVars

Reserved == {"commit", "verify", "quarantine", "abandoned"}

JobKinds == {"stage", "read", "commit", "verify", "quarantine", "abandoned", "guard"}

Outs == {"none", "ok", "error", "panic", "determinate", "indeterminate", "unknown", "guard", "done",
         "stopped"}

JobRecords == [kind : JobKinds, of : Requests, res : Nat, stage : BOOLEAN]

\* A fresh job carries no stage, any other carries the one it was made for.
Jobs == {w \in JobRecords : w.kind \in Fresh \cup Reserved /\ (w.stage <=> w.kind \in Reserved)}

Phases == {"Cold", "Idle", "Assigned", "Running", "Failed", "Stopping", "Stopped"}

Slots == [phase : Phases, reservation : Nat, next : Nat, job : Jobs \cup {NoWork},
          unresolved : SUBSET Requests]

Places == {"unborn", "wait", "call", "publish", "contain", "panicked", "fail", "complete", "wake",
           "step", "drop", "exited"}

Threads == [at : Places, job : JobRecords \cup {NoWork}, out : Outs, waker : BOOLEAN]

Tasks == [holds : {"nothing", "future", "polling", "guard", "over"}, work : Jobs \cup {NoWork},
          woken : BOOLEAN, res : Nat, left : Nat]

Cells == [result : Outs, waker : BOOLEAN, completing : BOOLEAN, inJob : BOOLEAN, inTask : BOOLEAN]

Fates == {"none", "live", "committed", "told", "quarantined"}

\* The slot, the thread, what tasks and cells hold and the stages are well formed.
TransferTypeOK ==
  /\ slot \in Slots /\ thread \in Threads
  /\ request \in [Requests -> Tasks] /\ cell \in [Requests -> Cells]
  /\ fate \in [Requests -> Fates]

\* The places where the stage of r may be.
InGuard(r) == request[r].holds = "guard"
InFuture(r) == request[r].work # NoWork /\ request[r].work.stage
InSlot(r) == slot.job # NoWork /\ slot.job.stage /\ slot.job.of = r
InThread(r) == thread.job # NoWork /\ thread.job.stage /\ thread.job.of = r
InCell(r) == cell[r].result = "guard"
InUnresolved(r) == r \in slot.unresolved

\* A live stage is in one place, and only a live one is anywhere.
InOnePlace(r) ==
  /\ fate[r] = "live" <=> \/ InGuard(r) \/ InFuture(r) \/ InSlot(r)
                          \/ InThread(r) \/ InCell(r) \/ InUnresolved(r)
  /\ InGuard(r) => ~InFuture(r) /\ ~InSlot(r) /\ ~InThread(r) /\ ~InCell(r) /\ ~InUnresolved(r)
  /\ InFuture(r) => ~InSlot(r) /\ ~InThread(r) /\ ~InCell(r) /\ ~InUnresolved(r)
  /\ InSlot(r) => ~InThread(r) /\ ~InCell(r) /\ ~InUnresolved(r)
  /\ InThread(r) => ~InCell(r) /\ ~InUnresolved(r)
  /\ InCell(r) => ~InUnresolved(r)

OneLive == \A r, q \in Requests : fate[r] = "live" /\ fate[q] = "live" => r = q

\* The thread has a job in hand whose outcome it has not settled.
AtWork == thread.at \in {"call", "publish", "contain", "panicked"}

\* Who has the slot, or works, is the only one that can have a live stage; an open
\* slot means that there is none.
SlotOK ==
  /\ slot.phase = "Cold" => thread.at = "unborn"
  /\ slot.phase \in {"Cold", "Idle"} => slot.job = NoWork /\ \A r \in Requests : fate[r] # "live"
  /\ slot.job # NoWork =>
       /\ slot.phase \in {"Assigned", "Stopping"}
       /\ \A r \in Requests : fate[r] = "live" => InSlot(r)
  /\ AtWork \/ thread.at = "fail" =>
       slot.job = NoWork /\ slot.phase \in {"Running", "Stopping"}

HandsOK ==
  /\ thread.at \notin {"unborn", "wait", "exited"} => thread.job # NoWork
  /\ AtWork => \A r \in Requests : fate[r] = "live" => InThread(r)
  /\ thread.at = "call" => thread.job \in Jobs
  /\ thread.at = "fail" => \A r \in Requests : fate[r] = "live" => InUnresolved(r)
  /\ ~AtWork /\ thread.at # "complete" => thread.job = NoWork \/ ~thread.job.stage
  /\ thread.at = "complete" => (thread.out = "guard" <=> thread.job.stage)
  /\ thread.at \in {"publish", "fail"} => thread.out # "guard"
  /\ thread.at \in {"panicked", "complete", "wake", "step", "drop"} => thread.job.kind # "abandoned"
  /\ thread.at = "publish" /\ thread.job.stage => thread.job.kind # "abandoned"

\* The job in the slot or with the thread, not yet completed, is for the cell of r.
Assigned(r) == slot.job # NoWork /\ slot.job.kind # "abandoned" /\ slot.job.of = r
With(r) == thread.job # NoWork /\ thread.job.kind # "abandoned" /\ thread.job.of = r
Awaited(r) == Assigned(r) \/ (With(r) /\ (AtWork \/ thread.at \in {"fail", "complete"}))

\* A task that waits owns its cell; the cell of a job is empty until the job is
\* completed, and its result is taken only after that.
CellOK(r) ==
  /\ cell[r].inTask <=> request[r].holds \in {"future", "polling"}
  /\ request[r].work # NoWork =>
       /\ request[r].holds = "future" /\ request[r].work.of = r
       /\ cell[r].result = "none" /\ cell[r].inJob
       /\ ~cell[r].completing
       /\ request[r].work.kind # "abandoned"
  /\ request[r].holds = "nothing" => fate[r] # "live"
  /\ Awaited(r) =>
       /\ request[r].holds \in {"future", "polling", "over"} /\ request[r].work = NoWork
       /\ cell[r].result = "none" /\ cell[r].inJob /\ ~cell[r].completing
  /\ With(r) /\ thread.at \in {"wake", "step"} =>
       /\ request[r].holds \in {"future", "polling", "over"} /\ request[r].work = NoWork
       /\ cell[r].inJob /\ cell[r].completing
  /\ With(r) /\ thread.at = "drop" => request[r].holds = "over"
  /\ With(r) /\ thread.at \in {"complete", "wake", "step", "drop"} => ~Assigned(r)

TransferIInv ==
  /\ TransferTypeOK /\ OneLive /\ SlotOK /\ HandsOK
  /\ \A r \in Requests : InOnePlace(r) /\ CellOK(r)

-----------------------------------------------------------------------------
LEMMA JobFacts ==
  /\ NoWork \notin JobRecords /\ ~NoWork.stage /\ Jobs \subseteq JobRecords
  /\ \A w \in Jobs : w.kind \in Fresh \cup Reserved /\ (w.stage <=> w.kind \in Reserved)
BY DEF NoWork, JobRecords, Jobs

LEMMA WorkFacts ==
  ASSUME NEW task \in JobKinds, NEW r \in Requests, NEW res \in Nat, NEW staged \in BOOLEAN
  PROVE  LET w == Work(task, r, res, staged) IN
         /\ w \in JobRecords /\ w.kind = task /\ w.of = r /\ w.res = res /\ w.stage = staged
         /\ (task \in Fresh /\ ~staged) \/ (task \in Reserved /\ staged) => w \in Jobs
BY DEF Work, JobRecords, Jobs, Fresh, Reserved

LEMMA TransferStarts == TransferInit => TransferIInv
<1> SUFFICES ASSUME TransferInit PROVE TransferIInv
  OBVIOUS
<1>1. slot \in Slots /\ slot.phase = "Cold" /\ slot.job = NoWork /\ slot.unresolved = {}
  BY DEF TransferInit, Slots, Phases
<1>2. thread \in Threads /\ thread.at = "unborn" /\ thread.job = NoWork
  BY DEF TransferInit, Threads, Places, Outs
<1>3. request \in [Requests -> Tasks]
      /\ \A r \in Requests : request[r].holds = "nothing" /\ request[r].work = NoWork
  BY TransferAssumption DEF TransferInit, Tasks
<1>4. cell \in [Requests -> Cells]
      /\ \A r \in Requests : cell[r].result = "none" /\ ~cell[r].inTask
  BY DEF TransferInit, Cells, NoCell, Outs
<1>5. fate \in [Requests -> Fates] /\ \A r \in Requests : fate[r] = "none"
  BY DEF TransferInit, Fates
<1> QED BY <1>1, <1>2, <1>3, <1>4, <1>5
        DEF TransferIInv, TransferTypeOK, OneLive, SlotOK, HandsOK, InOnePlace, CellOK, InGuard,
            InFuture, InSlot, InThread, InCell, InUnresolved, AtWork, Assigned, With, Awaited

-----------------------------------------------------------------------------
(* What the critical sections do to a slot *)

LEMMA ContainFacts ==
  ASSUME NEW s \in Slots, NEW w \in JobRecords \cup {NoWork}
  PROVE  LET d == contain_unresolved_stage(s, w) IN
         /\ d \in Slots /\ d.phase = s.phase /\ d.reservation = s.reservation /\ d.next = s.next
         /\ d.job = s.job
         /\ d.unresolved = IF w.stage /\ s.unresolved = {} THEN {w.of} ELSE s.unresolved
<1>1. w.stage => w.of \in Requests
  BY JobFacts DEF JobRecords
<1> QED BY <1>1 DEF contain_unresolved_stage, Slots

LEMMA FailFacts ==
  ASSUME NEW s \in Slots, s.job = NoWork
  PROVE  LET d == fail_worker(s) IN
         d \in Slots /\ d.phase = "Failed" /\ d.job = NoWork /\ d.unresolved = s.unresolved
<1> DEFINE t == [s EXCEPT !.phase = "Failed", !.reservation = 0, !.job = NoWork]
<1>1. t \in Slots /\ t.phase = "Failed" /\ t.job = NoWork /\ t.unresolved = s.unresolved
  BY DEF Slots, Phases
<1>2. fail_worker(s) = contain_unresolved_stage(t, NoWork)
  BY DEF fail_worker
<1> HIDE DEF t
<1>3. contain_unresolved_stage(t, NoWork) \in Slots
      /\ contain_unresolved_stage(t, NoWork).phase = t.phase
      /\ contain_unresolved_stage(t, NoWork).job = t.job
      /\ contain_unresolved_stage(t, NoWork).unresolved = t.unresolved
  BY <1>1, ContainFacts, JobFacts
<1> QED BY <1>1, <1>2, <1>3

\* With nothing else in the slot, a stage that is given up is queued or contained.
LEMMA RetiredFacts ==
  ASSUME NEW s \in Slots, NEW w \in JobRecords, w.stage, s.job = NoWork, s.unresolved = {}
  PROVE  LET d == Retired(s, w) IN
         /\ d \in Slots
         /\ \/ /\ d.phase = "Assigned" /\ d.unresolved = {}
               /\ d.job \in Jobs /\ d.job.kind = "abandoned" /\ d.job.of = w.of /\ d.job.stage
            \/ d.phase = "Failed" /\ d.unresolved = {w.of} /\ d.job = NoWork
<1> DEFINE a == Work("abandoned", w.of, w.res, TRUE)
<1>1. a \in Jobs /\ a.kind = "abandoned" /\ a.of = w.of /\ a.stage
  BY DEF Work, JobRecords, Jobs, Reserved, JobKinds, Fresh
<1>2. CASE enqueue_abandoned(s, w)
  <2>1. Retired(s, w) = [s EXCEPT !.job = a]
    BY <1>2 DEF Retired
  <2> HIDE DEF a
  <2> QED BY <1>1, <1>2, <2>1 DEF Slots, enqueue_abandoned
<1>3. CASE ~enqueue_abandoned(s, w)
  <2>1. Retired(s, w) = fail_worker(contain_unresolved_stage(s, w))
    BY <1>3 DEF Retired
  <2>2. contain_unresolved_stage(s, w) \in Slots /\ contain_unresolved_stage(s, w).job = NoWork
        /\ contain_unresolved_stage(s, w).unresolved = {w.of}
    BY ContainFacts
  <2> QED BY <2>1, <2>2, FailFacts
<1> QED BY <1>2, <1>3

\* A stage in a guard, a future or a cell leaves nothing to anybody else.
LEMMA Alone ==
  ASSUME TransferIInv, NEW r \in Requests, InGuard(r) \/ InFuture(r) \/ InCell(r)
  PROVE  /\ fate[r] = "live" /\ \A q \in Requests : fate[q] = "live" => q = r
         /\ slot.job = NoWork /\ slot.unresolved = {} /\ slot.phase \notin {"Cold", "Idle"}
         /\ ~AtWork /\ thread.at # "fail"
         /\ thread.job = NoWork \/ ~thread.job.stage
<1>1. fate[r] = "live" /\ ~InSlot(r) /\ ~InThread(r) /\ ~InUnresolved(r)
  BY DEF TransferIInv, InOnePlace
<1>2. \A q \in Requests : fate[q] = "live" => q = r
  BY <1>1 DEF TransferIInv, OneLive
<1>3. slot.job = NoWork /\ slot.phase \notin {"Cold", "Idle"}
  BY <1>1 DEF TransferIInv, SlotOK
<1>4. ~AtWork /\ thread.at # "fail"
  BY <1>1 DEF TransferIInv, HandsOK
<1>5. slot.unresolved = {}
  <2>1. \A q \in slot.unresolved : q \in Requests /\ InUnresolved(q)
    BY DEF TransferIInv, TransferTypeOK, Slots, InUnresolved
  <2> QED BY <1>1, <1>2, <2>1 DEF TransferIInv, InOnePlace
<1>6. thread.job = NoWork \/ ~thread.job.stage
  <2> SUFFICES ASSUME thread.job # NoWork, thread.job.stage PROVE FALSE
    OBVIOUS
  <2>1. thread.job.of \in Requests
    BY DEF TransferIInv, TransferTypeOK, Threads, JobRecords
  <2>2. InThread(thread.job.of)
    BY DEF InThread
  <2> QED BY <1>1, <1>2, <2>1, <2>2 DEF TransferIInv, InOnePlace
<1> QED BY <1>1, <1>2, <1>3, <1>4, <1>5, <1>6

-----------------------------------------------------------------------------
(* What the steps do to a task and to a cell *)

\* Only the task, only the cell, of r changes.
OtherTasks(r) == \A q \in Requests \ {r} : request'[q] = request[q]
OtherCells(r) == \A q \in Requests \ {r} : cell'[q] = cell[q]

LEMMA TaskSet ==
  ASSUME request \in [Requests -> Tasks], NEW r \in Requests, NEW t \in Tasks,
         request' = [request EXCEPT ![r] = t]
  PROVE  request' \in [Requests -> Tasks] /\ request'[r] = t /\ OtherTasks(r)
BY DEF OtherTasks

LEMMA CellSet ==
  ASSUME cell \in [Requests -> Cells], NEW r \in Requests, NEW c \in Cells,
         cell' = [cell EXCEPT ![r] = c]
  PROVE  cell' \in [Requests -> Cells] /\ cell'[r] = c /\ OtherCells(r)
BY DEF OtherCells

LEMMA TaskHands ==
  ASSUME request \in [Requests -> Tasks], NEW r \in Requests,
         NEW what \in {"future", "guard"}, NEW w \in Jobs \cup {NoWork}, Hands(r, what, w)
  PROVE  /\ request' \in [Requests -> Tasks] /\ OtherTasks(r)
         /\ request'[r].holds = what /\ request'[r].work = w
<1> DEFINE t == [request[r] EXCEPT !.holds = what, !.work = w, !.woken = TRUE]
<1>1. request' = [request EXCEPT ![r] = t]
  BY DEF Hands, Tasks
<1>2. t \in Tasks /\ t.holds = what /\ t.work = w
  BY DEF Tasks
<1> HIDE DEF t
<1> QED BY <1>1, <1>2, TaskSet

LEMMA TaskOver ==
  ASSUME request \in [Requests -> Tasks], NEW r \in Requests, Over(r)
  PROVE  /\ request' \in [Requests -> Tasks] /\ OtherTasks(r)
         /\ request'[r].holds = "over" /\ request'[r].work = NoWork
<1> DEFINE t == [holds |-> "over", work |-> NoWork, woken |-> FALSE, res |-> 0, left |-> 0]
<1>1. request' = [request EXCEPT ![r] = t]
  BY DEF Over
<1>2. t \in Tasks /\ t.holds = "over" /\ t.work = NoWork
  BY DEF Tasks
<1> HIDE DEF t
<1> QED BY <1>1, <1>2, TaskSet

LEMMA CellNew ==
  ASSUME cell \in [Requests -> Cells], NEW r \in Requests, NewCell(r)
  PROVE  /\ cell' \in [Requests -> Cells] /\ OtherCells(r)
         /\ cell'[r].result = "none" /\ cell'[r].inJob /\ cell'[r].inTask /\ ~cell'[r].completing
<1> DEFINE c == [NoCell EXCEPT !.inTask = TRUE, !.inJob = TRUE]
<1>1. cell' = [cell EXCEPT ![r] = c]
  BY DEF NewCell
<1>2. c \in Cells /\ c.result = "none" /\ c.inJob /\ c.inTask /\ ~c.completing
  BY DEF Cells, NoCell, Outs
<1> HIDE DEF c
<1> QED BY <1>1, <1>2, CellSet

LEMMA CellGone ==
  ASSUME cell \in [Requests -> Cells], NEW r \in Requests, NoCellOf(r)
  PROVE  /\ cell' \in [Requests -> Cells] /\ OtherCells(r)
         /\ cell'[r].result = "none" /\ ~cell'[r].inTask
<1>1. NoCell \in Cells /\ NoCell.result = "none" /\ ~NoCell.inTask
  BY DEF Cells, NoCell, Outs
<1> QED BY <1>1, CellSet DEF NoCellOf

-----------------------------------------------------------------------------
(* Steps of a request's task *)

LEMMA SubmitFreshOK ==
  ASSUME TransferIInv, NEW r \in Requests, submit_fresh(r)
  PROVE  TransferIInv'
<1>1. PICK task \in Fresh : Hands(r, "future", Work(task, r, 0, FALSE))
  BY DEF submit_fresh
<1>2. PICK w \in Jobs : Hands(r, "future", w) /\ w.kind = task /\ w.of = r /\ ~w.stage
  <2>1. LET w == Work(task, r, 0, FALSE) IN w \in Jobs /\ w.kind = task /\ w.of = r /\ ~w.stage
    BY DEF Work, JobRecords, Jobs, Fresh, JobKinds, Reserved
  <2> QED BY <1>1, <2>1
<1>3. request' \in [Requests -> Tasks] /\ OtherTasks(r)
      /\ request'[r].holds = "future" /\ request'[r].work = w
  BY <1>2, TaskHands DEF TransferIInv, TransferTypeOK
<1>4. cell' \in [Requests -> Cells] /\ OtherCells(r)
      /\ cell'[r].result = "none" /\ cell'[r].inJob /\ cell'[r].inTask /\ ~cell'[r].completing
  BY CellNew DEF TransferIInv, TransferTypeOK, submit_fresh
<1>5. request[r].holds = "nothing" /\ UNCHANGED <<slot, thread, fate>>
  BY DEF submit_fresh
<1>6. TransferTypeOK' /\ OneLive' /\ SlotOK' /\ HandsOK'
  BY <1>3, <1>4, <1>5 DEF TransferIInv, TransferTypeOK, OneLive, SlotOK, HandsOK, AtWork, InSlot,
                          InThread, InUnresolved
<1>7. ASSUME NEW q \in Requests PROVE InOnePlace(q)' /\ CellOK(q)'
  BY <1>2, <1>3, <1>4, <1>5 DEF TransferIInv, OtherTasks, OtherCells, Fresh, InOnePlace, CellOK, InGuard, InFuture, InSlot,
         InThread, InCell, InUnresolved, AtWork, Assigned, With, Awaited
<1> QED BY <1>6, <1>7 DEF TransferIInv

LEMMA SubmitReservedOK ==
  ASSUME TransferIInv, NEW r \in Requests, submit_reserved(r)
  PROVE  TransferIInv'
<1>1. request[r] \in Tasks /\ request[r].res \in Nat /\ request[r].left \in Nat
  BY DEF TransferIInv, TransferTypeOK, Tasks
<1>2. \A task \in {"commit", "verify"} :
        LET w == Work(task, r, request[r].res, TRUE)
        IN  w \in Jobs /\ w.of = r /\ w.stage /\ w.kind # "abandoned"
  BY <1>1 DEF Work, JobRecords, Jobs, Fresh, JobKinds, Reserved
<1>3. /\ request' \in [Requests -> Tasks] /\ OtherTasks(r) /\ request'[r].holds = "future"
      /\ request'[r].work \in Jobs /\ request'[r].work.of = r /\ request'[r].work.stage
      /\ request'[r].work.kind # "abandoned"
  <2>1. CASE Hands(r, "future", Work("commit", r, request[r].res, TRUE))
    BY <1>2, <2>1, TaskHands DEF TransferIInv, TransferTypeOK
  <2>2. CASE request[r].left > 0 /\ request' = [request EXCEPT ![r].holds = "future", ![r].left = @ - 1, ![r].woken = TRUE,
                                      ![r].work = Work("verify", r, request[r].res, TRUE)]
    <3> DEFINE w == Work("verify", r, request[r].res, TRUE)
               t == [request[r] EXCEPT !.holds = "future", !.left = request[r].left - 1, !.woken = TRUE, !.work = w]
    <3>1. w \in Jobs /\ w.of = r /\ w.stage /\ w.kind # "abandoned"
      BY <1>2
    <3>2. request' = [request EXCEPT ![r].holds = "future", ![r].left = @ - 1, ![r].woken = TRUE,
                                      ![r].work = w]
      BY <2>2
    <3> HIDE DEF w
    <3>3. request' = [request EXCEPT ![r] = t]
      BY <1>1, <3>2 DEF TransferIInv, TransferTypeOK, Tasks
    <3>4. request[r].left - 1 \in Nat
      BY <1>1, <2>2
    <3>5. t \in Tasks /\ t.holds = "future" /\ t.work = w
      BY <1>1, <3>1, <3>4 DEF Tasks
    <3> HIDE DEF t
    <3> QED BY <3>1, <3>3, <3>5, TaskSet DEF TransferIInv, TransferTypeOK
  <2> QED BY <2>1, <2>2 DEF submit_reserved
<1>4. cell' \in [Requests -> Cells] /\ OtherCells(r)
      /\ cell'[r].result = "none" /\ cell'[r].inJob /\ cell'[r].inTask /\ ~cell'[r].completing
  BY CellNew DEF TransferIInv, TransferTypeOK, submit_reserved
<1>5. InGuard(r) /\ UNCHANGED <<slot, thread, fate>>
  BY DEF submit_reserved, InGuard
<1>6. TransferTypeOK' /\ OneLive' /\ SlotOK' /\ HandsOK'
  BY <1>3, <1>4, <1>5 DEF TransferIInv, TransferTypeOK, OneLive, SlotOK, HandsOK, AtWork, InSlot,
                          InThread, InUnresolved
<1>7. ~AtWork /\ thread.at # "fail" /\ slot.job = NoWork /\ fate[r] = "live"
  BY <1>5, Alone
<1>8. ASSUME NEW q \in Requests PROVE InOnePlace(q)' /\ CellOK(q)'
  BY <1>3, <1>4, <1>5, <1>7, JobFacts DEF TransferIInv, OtherTasks, OtherCells, InOnePlace, CellOK, InGuard, InFuture, InSlot,
         InThread, InCell, InUnresolved, AtWork, Assigned, With, Awaited
<1> QED BY <1>6, <1>8 DEF TransferIInv

LEMMA PollReadyOK ==
  ASSUME TransferIInv, NEW r \in Requests, poll_ready(r)
  PROVE  TransferIInv'
<1>1. /\ request[r].holds = "polling" /\ request[r].work = NoWork
      /\ request[r] \in Tasks /\ cell[r] \in Cells /\ UNCHANGED <<slot, thread, fate>>
  BY DEF poll_ready, TransferIInv, TransferTypeOK, CellOK
<1>2. OneLive' /\ SlotOK' /\ HandsOK'
  BY <1>1 DEF TransferIInv, OneLive, SlotOK, HandsOK, AtWork, InSlot, InThread, InUnresolved
<1>3. CASE cell[r].completing \/ cell[r].result = "none"
  <2>1. request' = [request EXCEPT ![r].holds = "future"] /\ UNCHANGED cell
    BY <1>3 DEF poll_ready
  <2>2. [request[r] EXCEPT !.holds = "future"] \in Tasks
    BY <1>1 DEF Tasks
  <2>3. request' \in [Requests -> Tasks] /\ OtherTasks(r)
        /\ request'[r].holds = "future" /\ request'[r].work = NoWork
    BY <1>1, <2>1, <2>2 DEF Tasks, OtherTasks, TransferIInv, TransferTypeOK
  <2>4. TransferTypeOK'
    BY <1>1, <2>1, <2>3 DEF TransferIInv, TransferTypeOK
  <2>5. ASSUME NEW q \in Requests PROVE InOnePlace(q)' /\ CellOK(q)'
    BY <1>1, <2>1, <2>3 DEF TransferIInv, OtherTasks, InOnePlace, CellOK, InGuard, InFuture, InSlot,
         InThread, InCell, InUnresolved, AtWork, Assigned, With, Awaited
  <2> QED BY <1>2, <2>4, <2>5 DEF TransferIInv
<1>4. CASE ~(cell[r].completing \/ cell[r].result = "none")
  <2> DEFINE c == [cell[r] EXCEPT !.result = "none", !.waker = FALSE, !.inTask = FALSE]
  <2>1. cell' = [cell EXCEPT ![r] = c]
    BY <1>1, <1>4 DEF poll_ready, TransferIInv, TransferTypeOK, Cells
  <2>2. c \in Cells /\ c.result = "none" /\ ~c.inTask
    BY <1>1 DEF Cells, Outs
  <2> HIDE DEF c
  <2>3. cell' \in [Requests -> Cells] /\ OtherCells(r) /\ cell'[r].result = "none" /\ ~cell'[r].inTask
    BY <2>1, <2>2, CellSet DEF TransferIInv, TransferTypeOK
  <2>4. request' \in [Requests -> Tasks] /\ OtherTasks(r) /\ request'[r].work = NoWork
        /\ request'[r].holds = IF cell[r].result = "guard" THEN "guard" ELSE "over"
    BY <1>4, TaskHands, TaskOver DEF poll_ready, TransferIInv, TransferTypeOK
  <2>5. TransferTypeOK'
    BY <1>1, <2>3, <2>4 DEF TransferIInv, TransferTypeOK
  <2>6. ASSUME NEW q \in Requests PROVE InOnePlace(q)' /\ CellOK(q)'
    BY <1>1, <1>4, <2>3, <2>4 DEF TransferIInv, OtherTasks, OtherCells, InOnePlace, CellOK, InGuard, InFuture, InSlot,
         InThread, InCell, InUnresolved, AtWork, Assigned, With, Awaited
  <2> QED BY <1>2, <2>5, <2>6 DEF TransferIInv
<1> QED BY <1>3, <1>4

\* A stage that is given up, queued for its cleanup or contained.
Stored(r) ==
  /\ slot' \in Slots
  /\ \/ /\ slot'.phase = "Assigned" /\ slot'.unresolved = {}
        /\ slot'.job \in Jobs /\ slot'.job.kind = "abandoned" /\ slot'.job.of = r /\ slot'.job.stage
     \/ slot'.phase = "Failed" /\ slot'.unresolved = {r} /\ slot'.job = NoWork

LEMMA StoredBy ==
  ASSUME TransferIInv, NEW r \in Requests, InGuard(r) \/ InFuture(r) \/ InCell(r),
         NEW w \in JobRecords, w.of = r, w.stage, slot' = Retired(slot, w)
  PROVE  Stored(r)
BY Alone, RetiredFacts DEF TransferIInv, TransferTypeOK, Stored

\* The request is over, its stage is stored and its cell has nothing of it.
LEMMA GivenUpOK ==
  ASSUME TransferIInv, NEW r \in Requests, InGuard(r) \/ InFuture(r) \/ InCell(r), Stored(r),
         \/ thread' = thread /\ ~(With(r) /\ thread.at \in {"wake", "step"})
         \/ thread' \in Threads /\ thread'.at \in {"wait", "exited"} /\ thread'.job = NoWork
              /\ thread.at = "drop",
         request' \in [Requests -> Tasks], OtherTasks(r),
         request'[r].holds = "over", request'[r].work = NoWork,
         cell' \in [Requests -> Cells], OtherCells(r), cell'[r].result # "guard", ~cell'[r].inTask,
         fate' = fate
  PROVE  TransferIInv'
<1>1. /\ fate[r] = "live" /\ \A q \in Requests : fate[q] = "live" => q = r
      /\ slot.job = NoWork /\ slot.unresolved = {} /\ slot.phase \notin {"Cold", "Idle"}
      /\ ~AtWork /\ thread.at # "fail"
      /\ thread.job = NoWork \/ ~thread.job.stage
  BY Alone
<1>2. thread' \in Threads /\ ~AtWork' /\ thread'.at # "fail"
      /\ (thread'.job = NoWork \/ ~thread'.job.stage)
  BY <1>1 DEF TransferIInv, TransferTypeOK, AtWork
<1>3. TransferTypeOK' /\ OneLive'
  BY <1>2 DEF TransferIInv, TransferTypeOK, OneLive, Stored
<1>4. SlotOK'
  BY <1>1, <1>2, JobFacts DEF SlotOK, Stored, InSlot, TransferIInv
<1>5. HandsOK'
  BY <1>1, <1>2 DEF HandsOK, TransferIInv, AtWork
<1>6. ~Awaited(r)
  BY DEF TransferIInv, InOnePlace, CellOK, InGuard, InFuture, InSlot,
         InThread, InCell, InUnresolved, AtWork, Assigned, With, Awaited
<1>7. ~Awaited(r)' /\ ~(With(r) /\ thread.at \in {"wake", "step"})'
  BY <1>1, <1>2, <1>6 DEF Awaited, Assigned, With, Stored, AtWork
<1>8. InOnePlace(r)' /\ CellOK(r)'
  BY <1>1, <1>2, <1>7, JobFacts DEF InOnePlace, CellOK, InGuard, InFuture, InSlot, InThread, InCell,
         InUnresolved, With, Stored, Assigned
<1>9. ASSUME NEW q \in Requests, q # r PROVE InOnePlace(q)' /\ CellOK(q)'
  BY <1>1, <1>2, <1>9 DEF TransferIInv, Stored, OtherTasks, OtherCells, InOnePlace, CellOK, InGuard, InFuture, InSlot,
         InThread, InCell, InUnresolved, AtWork, Assigned, With, Awaited
<1> QED BY <1>3, <1>4, <1>5, <1>8, <1>9 DEF TransferIInv

LEMMA DropGuardOK ==
  ASSUME TransferIInv, NEW r \in Requests, drop_guard(r)
  PROVE  TransferIInv'
<1>1. InGuard(r) /\ UNCHANGED <<thread, cell, fate>>
  BY DEF drop_guard, InGuard
<1>2. Stored(r)
  <2>1. LET w == Work("guard", r, request[r].res, TRUE) IN w \in JobRecords /\ w.of = r /\ w.stage
    BY DEF Work, JobRecords, JobKinds, TransferIInv, TransferTypeOK, Tasks
  <2> QED BY <1>1, <2>1, StoredBy DEF drop_guard
<1>3. /\ request' \in [Requests -> Tasks] /\ OtherTasks(r)
      /\ request'[r].holds = "over" /\ request'[r].work = NoWork
  BY TaskOver DEF drop_guard, TransferIInv, TransferTypeOK
<1>4. ~(With(r) /\ thread.at \in {"wake", "step"}) /\ ~InCell(r) /\ ~cell[r].inTask
  BY <1>1 DEF TransferIInv, CellOK, InOnePlace, InGuard
<1>5. cell' \in [Requests -> Cells] /\ OtherCells(r) /\ cell'[r].result # "guard" /\ ~cell'[r].inTask
  BY <1>1, <1>4 DEF OtherCells, InCell, TransferIInv, TransferTypeOK
<1> QED BY <1>1, <1>2, <1>3, <1>4, <1>5, GivenUpOK

LEMMA DropFutureOK ==
  ASSUME TransferIInv, NEW r \in Requests, drop_future(r)
  PROVE  TransferIInv'
<1>1. request[r].holds = "future" /\ UNCHANGED <<thread, fate>> /\ request[r] \in Tasks /\ cell[r] \in Cells
  BY DEF drop_future, TransferIInv, TransferTypeOK
<1>2. /\ request' \in [Requests -> Tasks] /\ OtherTasks(r)
      /\ request'[r].holds = "over" /\ request'[r].work = NoWork
  BY TaskOver DEF drop_future, TransferIInv, TransferTypeOK
<1>3. CASE request[r].work.stage
  <2>1. InFuture(r) /\ request[r].work # NoWork /\ request[r].work \in Jobs /\ request[r].work.of = r
    BY <1>1, <1>3, JobFacts DEF InFuture, Tasks, TransferIInv, CellOK
  <2>2. Stored(r)
    BY <1>3, <2>1, JobFacts, StoredBy DEF drop_future
  <2>3. cell' \in [Requests -> Cells] /\ OtherCells(r) /\ cell'[r].result # "guard" /\ ~cell'[r].inTask
    BY <2>1, CellGone DEF drop_future, TransferIInv, TransferTypeOK
  <2>4. ~(With(r) /\ thread.at \in {"wake", "step"})
    BY <2>1 DEF TransferIInv, CellOK
  <2> QED BY <1>1, <1>2, <2>1, <2>2, <2>3, <2>4, GivenUpOK
<1>4. CASE ~request[r].work.stage /\ cell[r].result = "guard" /\ ~cell[r].inJob
  <2>1. InCell(r) /\ request[r].res \in Nat
    BY <1>1, <1>4 DEF InCell, Tasks
  <2>2. Stored(r)
    <3>1. LET w == Work("guard", r, request[r].res, TRUE) IN w \in JobRecords /\ w.of = r /\ w.stage
      BY <2>1 DEF Work, JobRecords, JobKinds
    <3> QED BY <1>4, <2>1, <3>1, StoredBy DEF drop_future
  <2>3. cell' \in [Requests -> Cells] /\ OtherCells(r) /\ cell'[r].result # "guard" /\ ~cell'[r].inTask
    BY <1>4, CellGone DEF drop_future, TransferIInv, TransferTypeOK
  <2>4. ~(With(r) /\ thread.at \in {"wake", "step"})
    BY <1>4 DEF TransferIInv, CellOK
  <2> QED BY <1>1, <1>2, <2>1, <2>2, <2>3, <2>4, GivenUpOK
<1>5. CASE ~request[r].work.stage /\ ~(cell[r].result = "guard" /\ ~cell[r].inJob)
  <2>1. slot' = slot
    BY <1>5 DEF drop_future
  <2>2. TransferTypeOK' /\ OneLive' /\ SlotOK' /\ HandsOK' /\ OtherCells(r) /\ ~cell'[r].inTask
        /\ IF request[r].work = NoWork /\ cell[r].inJob
           THEN cell'[r].result = cell[r].result /\ cell'[r].inJob /\ cell'[r].completing = cell[r].completing
           ELSE cell'[r].result = "none"
    <3> DEFINE c == [cell[r] EXCEPT !.inTask = FALSE, !.waker = FALSE]
    <3>1. CASE request[r].work = NoWork /\ cell[r].inJob
      <4>1. cell' = [cell EXCEPT ![r] = c]
        BY <1>1, <3>1 DEF drop_future, TransferIInv, TransferTypeOK, Cells
      <4>2. c \in Cells /\ c.result = cell[r].result /\ ~c.inTask /\ c.inJob = cell[r].inJob
            /\ c.completing = cell[r].completing
        BY <1>1 DEF Cells
      <4> HIDE DEF c
      <4>3. cell' \in [Requests -> Cells] /\ cell'[r] = c /\ OtherCells(r)
        BY <4>1, <4>2, CellSet DEF TransferIInv, TransferTypeOK
      <4> QED BY <1>1, <1>2, <2>1, <3>1, <4>2, <4>3 DEF TransferIInv, TransferTypeOK, OneLive, SlotOK, HandsOK, AtWork, InSlot,
                          InThread, InUnresolved
    <3>2. CASE ~(request[r].work = NoWork /\ cell[r].inJob)
      <4>1. NoCellOf(r)
        BY <3>2 DEF drop_future
      <4> QED BY <1>1, <1>2, <2>1, <3>2, <4>1, CellGone DEF TransferIInv, TransferTypeOK, OneLive, SlotOK, HandsOK, AtWork, InSlot,
                          InThread, InUnresolved
    <3> QED BY <3>1, <3>2
  <2>3. request[r].work = NoWork \/ (request[r].work # NoWork /\ cell[r].result = "none")
    BY DEF TransferIInv, CellOK
  <2>4. ASSUME NEW q \in Requests PROVE InOnePlace(q)'
    BY <1>1, <1>2, <1>5, <2>1, <2>2, <2>3 DEF TransferIInv, OtherTasks, OtherCells, InOnePlace, InGuard, InFuture, InSlot, InThread, InCell, InUnresolved
  <2>5. ASSUME NEW q \in Requests PROVE CellOK(q)'
    BY <1>1, <1>2, <1>5, <2>1, <2>2, <2>3 DEF TransferIInv, OtherTasks, OtherCells, CellOK, AtWork, Assigned, With, Awaited
  <2> QED BY <2>2, <2>4, <2>5 DEF TransferIInv
<1> QED BY <1>3, <1>4, <1>5

\* The job of r enters the slot: a fresh one into an open slot, or the one that carries
\* the stage of r.
LEMMA EntersSlotOK ==
  ASSUME TransferIInv, NEW r \in Requests,
         request[r].work # NoWork \/ InGuard(r),
         slot' \in Slots, slot'.phase = "Assigned", slot'.unresolved = slot.unresolved,
         slot'.job \in Jobs, slot'.job.of = r, slot'.job.kind # "abandoned",
         \/ slot.phase \in {"Cold", "Idle"} /\ ~slot'.job.stage
         \/ (InGuard(r) \/ InFuture(r)) /\ slot'.job.stage,
         thread' \in Threads, thread'.job = thread.job, thread'.out = thread.out,
         thread'.at = IF slot.phase = "Cold" THEN "wait" ELSE thread.at,
         request' \in [Requests -> Tasks], OtherTasks(r),
         request'[r].holds \in {"future", "polling"}, request'[r].work = NoWork,
         cell' \in [Requests -> Cells], OtherCells(r), cell'[r].result = "none",
         cell'[r].inJob, cell'[r].inTask, ~cell'[r].completing,
         fate' = fate
  PROVE  TransferIInv'
<1>1. slot.job = NoWork /\ ~AtWork /\ thread.at # "fail"
  <2>1. CASE slot.phase \in {"Cold", "Idle"}
    BY <2>1 DEF TransferIInv, SlotOK
  <2>2. CASE InGuard(r) \/ InFuture(r)
    BY <2>2, Alone
  <2> QED BY <2>1, <2>2
<1>2. \A q \in Requests : fate[q] = "live" =>
        q = r /\ slot'.job.stage /\ (InGuard(r) \/ InFuture(r))
  <2>1. CASE slot.phase \in {"Cold", "Idle"} /\ ~slot'.job.stage
    BY <2>1 DEF TransferIInv, SlotOK
  <2>2. CASE (InGuard(r) \/ InFuture(r)) /\ slot'.job.stage
    BY <2>2, Alone
  <2> QED BY <2>1, <2>2
<1>3. ~AtWork' /\ thread'.at # "fail" /\ slot'.job # NoWork
  BY <1>1, JobFacts DEF AtWork
<1>4. TransferTypeOK' /\ OneLive'
  BY DEF TransferIInv, TransferTypeOK, OneLive
<1>5. SlotOK'
  BY <1>2, <1>3 DEF SlotOK, InSlot
<1>6. HandsOK'
  BY <1>1, <1>3 DEF HandsOK, TransferIInv, AtWork, SlotOK
<1>7. ~Awaited(r) /\ ~(With(r) /\ thread.at \in {"wake", "step", "complete", "drop"})
  BY DEF TransferIInv, CellOK, InGuard, Awaited, AtWork
<1>8. ~slot'.job.stage => fate[r] # "live"
  BY <1>2
<1>9. InOnePlace(r)'
  BY <1>1, <1>2, <1>3, <1>8 DEF TransferIInv, InOnePlace, InGuard, InFuture, InSlot, InThread, InCell,
         InUnresolved
<1>10. CellOK(r)'
  BY <1>1, <1>3, <1>7 DEF TransferIInv, CellOK, Assigned, With, Awaited, AtWork
<1>11. ASSUME NEW q \in Requests, q # r PROVE InOnePlace(q)' /\ CellOK(q)'
  BY <1>1, <1>3, <1>11 DEF TransferIInv, OtherTasks, OtherCells, SlotOK, InOnePlace, CellOK, InGuard, InFuture, InSlot,
         InThread, InCell, InUnresolved, AtWork, Assigned, With, Awaited
<1> QED BY <1>4, <1>5, <1>6, <1>9, <1>10, <1>11 DEF TransferIInv

LEMMA AssignStateFacts ==
  ASSUME slot \in Slots, NEW w \in Jobs, Assignable(w)
  PROVE  LET d == assign_state(w) IN
         /\ d \in Slots /\ d.phase = "Assigned" /\ d.unresolved = slot.unresolved
         /\ d.job \in Jobs /\ d.job.of = w.of /\ d.job.kind = w.kind /\ d.job.stage = w.stage
         /\ \/ slot.phase \in {"Cold", "Idle"} /\ ~w.stage
            \/ w.stage
<1>1. CASE w.kind \in Fresh
  <2> DEFINE v == [w EXCEPT !.res = slot.next]
  <2>1. v \in Jobs /\ v.of = w.of /\ v.kind = w.kind /\ v.stage = w.stage
    BY DEF Jobs, JobRecords, Slots
  <2>2. assign_state(w) = [slot EXCEPT !.phase = "Assigned", !.reservation = slot.next,
                                       !.next = slot.next + 1, !.job = v]
    BY <1>1 DEF assign_state, Slots
  <2>3. ~w.stage /\ slot.phase \in {"Cold", "Idle"}
    BY <1>1, JobFacts DEF Assignable, Fresh, Reserved
  <2>4. PICK n \in Nat : n = slot.next + 1
    BY DEF Slots
  <2> HIDE DEF v
  <2>5. assign_state(w) = [slot EXCEPT !.phase = "Assigned", !.reservation = slot.next, !.next = n, !.job = v]
    BY <2>2, <2>4
  <2> QED BY <2>1, <2>3, <2>5 DEF Slots, Phases
<1>2. CASE w.kind \notin Fresh
  <2>1. assign_state(w) = [slot EXCEPT !.job = w]
    BY <1>2 DEF assign_state
  <2>2. w.stage /\ slot.phase = "Assigned"
    BY <1>2, JobFacts DEF Assignable
  <2> QED BY <2>1, <2>2 DEF Slots
<1> QED BY <1>1, <1>2

LEMMA SubmitQuarantineOK ==
  ASSUME TransferIInv, NEW r \in Requests, submit_quarantine(r)
  PROVE  TransferIInv'
<1> DEFINE w == Work("quarantine", r, request[r].res, TRUE)
<1>1. InGuard(r) /\ UNCHANGED <<thread, fate>> /\ thread \in Threads /\ slot \in Slots
  BY DEF submit_quarantine, InGuard, TransferIInv, TransferTypeOK
<1>2. w \in Jobs /\ w.of = r /\ w.stage /\ w.kind = "quarantine"
  BY DEF Work, JobRecords, Jobs, JobKinds, Fresh, Reserved, TransferIInv, TransferTypeOK, Tasks
<1>3. /\ request' \in [Requests -> Tasks] /\ OtherTasks(r)
      /\ request'[r].holds = "future" /\ request'[r].work = NoWork
  BY TaskHands DEF submit_quarantine, TransferIInv, TransferTypeOK
<1>4. IF Assignable(w)
      THEN slot' = assign_state(w) /\ NewCell(r)
      ELSE /\ slot' = contain_unresolved_stage(fail_worker(slot), w)
           /\ cell' = [cell EXCEPT ![r] = [NoCell EXCEPT !.inTask = TRUE, !.result = "error"]]
  BY DEF submit_quarantine
<1> HIDE DEF w
<1>5. CASE Assignable(w)
  <2>1. cell' \in [Requests -> Cells] /\ OtherCells(r) /\ cell'[r].result = "none"
        /\ cell'[r].inJob /\ cell'[r].inTask /\ ~cell'[r].completing
    BY <1>4, <1>5, CellNew DEF TransferIInv, TransferTypeOK
  <2>2. /\ slot' \in Slots /\ slot'.phase = "Assigned" /\ slot'.unresolved = slot.unresolved
        /\ slot'.job \in Jobs /\ slot'.job.of = r /\ slot'.job.kind # "abandoned" /\ slot'.job.stage
    BY <1>1, <1>2, <1>4, <1>5, AssignStateFacts
  <2>3. slot.phase # "Cold"
    BY <1>1, Alone
  <2> QED BY <1>1, <1>3, <2>1, <2>2, <2>3, EntersSlotOK
<1>6. CASE ~Assignable(w)
  <2>1. /\ fate[r] = "live" /\ \A q \in Requests : fate[q] = "live" => q = r
        /\ slot.job = NoWork /\ slot.unresolved = {} /\ ~AtWork /\ thread.at # "fail"
        /\ thread.job = NoWork \/ ~thread.job.stage
    BY <1>1, Alone
  <2>2. slot' \in Slots /\ slot'.phase = "Failed" /\ slot'.job = NoWork /\ slot'.unresolved = {r}
    <3>1. fail_worker(slot) \in Slots /\ fail_worker(slot).phase = "Failed"
          /\ fail_worker(slot).job = NoWork /\ fail_worker(slot).unresolved = {}
      BY <1>1, <2>1, FailFacts
    <3> QED BY <1>2, <1>4, <1>6, <3>1, ContainFacts, JobFacts
  <2>3. cell' \in [Requests -> Cells] /\ OtherCells(r) /\ cell'[r].result = "error" /\ cell'[r].inTask
    <3> DEFINE c == [NoCell EXCEPT !.inTask = TRUE, !.result = "error"]
    <3>1. c \in Cells /\ c.result = "error" /\ c.inTask
      BY DEF NoCell, Cells, Outs
    <3>2. cell' = [cell EXCEPT ![r] = c]
      BY <1>4, <1>6
    <3> HIDE DEF c
    <3> QED BY <3>1, <3>2, CellSet DEF TransferIInv, TransferTypeOK
  <2>4. TransferTypeOK' /\ OneLive' /\ SlotOK' /\ HandsOK'
    BY <1>1, <1>3, <2>1, <2>2, <2>3 DEF TransferIInv, TransferTypeOK, OneLive, SlotOK, HandsOK,
         AtWork, InSlot, InThread
  <2>5. ASSUME NEW q \in Requests PROVE InOnePlace(q)' /\ CellOK(q)'
    BY <1>1, <1>3, <2>1, <2>2, <2>3 DEF TransferIInv, OtherTasks, OtherCells, InOnePlace, CellOK, InGuard, InFuture, InSlot,
         InThread, InCell, InUnresolved, AtWork, Assigned, With, Awaited
  <2> QED BY <2>4, <2>5 DEF TransferIInv
<1> QED BY <1>5, <1>6

\* A request whose job is refused before it carries anything is over.
LEMMA FreshOverOK ==
  ASSUME TransferIInv, NEW r \in Requests, request[r].work # NoWork, ~request[r].work.stage,
         Over(r), NoCellOf(r), UNCHANGED <<thread, fate>>,
         slot' \in Slots, slot'.job = slot.job, slot'.unresolved = slot.unresolved,
         slot'.phase = slot.phase \/ (slot.phase = "Cold" /\ slot'.phase = "Failed")
  PROVE  TransferIInv'
<1>1. /\ request' \in [Requests -> Tasks] /\ OtherTasks(r)
      /\ request'[r].holds = "over" /\ request'[r].work = NoWork
  BY TaskOver DEF TransferIInv, TransferTypeOK
<1>2. /\ cell' \in [Requests -> Cells] /\ OtherCells(r)
      /\ cell'[r].result = "none" /\ ~cell'[r].inTask
  BY CellGone DEF TransferIInv, TransferTypeOK
<1>3. TransferTypeOK' /\ OneLive' /\ SlotOK' /\ HandsOK'
  BY <1>1, <1>2 DEF TransferIInv, TransferTypeOK, OneLive, SlotOK, HandsOK, AtWork, InSlot, InThread,
       InUnresolved
<1>4. ASSUME NEW q \in Requests PROVE InOnePlace(q)' /\ CellOK(q)'
  BY <1>1, <1>2 DEF TransferIInv, OtherTasks, OtherCells, InOnePlace, CellOK, InGuard, InFuture, InSlot,
         InThread, InCell, InUnresolved, AtWork, Assigned, With, Awaited
<1> QED BY <1>3, <1>4 DEF TransferIInv

LEMMA PreparePollOK ==
  ASSUME TransferIInv, NEW r \in Requests, prepare_poll(r)
  PROVE  TransferIInv'
<1> DEFINE w == request[r].work
<1>1. /\ request[r].holds = "future" /\ UNCHANGED fate /\ request[r] \in Tasks /\ cell[r] \in Cells
      /\ slot \in Slots /\ thread \in Threads
  BY DEF prepare_poll, TransferIInv, TransferTypeOK
<1>2. CASE w = NoWork
  <2> DEFINE t == [request[r] EXCEPT !.holds = "polling", !.woken = FALSE]
             c == [cell[r] EXCEPT !.waker = TRUE]
  <2>1. request' = [request EXCEPT ![r] = t] /\ cell' = [cell EXCEPT ![r] = c] /\ UNCHANGED <<slot, thread>>
    BY <1>1, <1>2 DEF prepare_poll, TransferIInv, TransferTypeOK, Tasks, Cells
  <2>2. t \in Tasks /\ t.holds = "polling" /\ t.work = NoWork /\ c \in Cells /\ c.result = cell[r].result
        /\ c.inTask = cell[r].inTask /\ c.inJob = cell[r].inJob /\ c.completing = cell[r].completing
    BY <1>1, <1>2 DEF Tasks, Cells
  <2> HIDE DEF t, c
  <2>3. request' \in [Requests -> Tasks] /\ OtherTasks(r) /\ request'[r] = t
        /\ cell' \in [Requests -> Cells] /\ OtherCells(r) /\ cell'[r] = c
    BY <2>1, <2>2, TaskSet, CellSet DEF TransferIInv, TransferTypeOK
  <2>4. TransferTypeOK' /\ OneLive' /\ SlotOK' /\ HandsOK'
    BY <1>1, <2>1, <2>3 DEF TransferIInv, TransferTypeOK, OneLive, SlotOK, HandsOK, AtWork, InSlot,
         InThread, InUnresolved
  <2>5. ASSUME NEW q \in Requests PROVE InOnePlace(q)' /\ CellOK(q)'
    BY <1>1, <1>2, <2>1, <2>2, <2>3 DEF TransferIInv, OtherTasks, OtherCells, InOnePlace, CellOK, InGuard, InFuture, InSlot,
         InThread, InCell, InUnresolved, AtWork, Assigned, With, Awaited
  <2> QED BY <2>4, <2>5 DEF TransferIInv
<1>3. CASE w # NoWork
  <2>1. /\ w \in Jobs /\ w.of = r /\ w.kind # "abandoned" /\ (w.stage => InFuture(r))
        /\ cell[r].result = "none" /\ cell[r].inJob /\ ~cell[r].completing /\ cell[r].inTask
    BY <1>1, <1>3 DEF Tasks, TransferIInv, CellOK, InFuture
  <2>2. CASE /\ Assignable(w) /\ slot' = assign_state(w)
             /\ thread' = [thread EXCEPT !.at = IF slot.phase = "Cold" THEN "wait" ELSE @]
             /\ request' = [request EXCEPT ![r].holds = "polling", ![r].work = NoWork,
                                   ![r].woken = FALSE, ![r].res = slot'.reservation]
             /\ cell' = [cell EXCEPT ![r].waker = TRUE]
    <3> DEFINE t == [request[r] EXCEPT !.holds = "polling", !.work = NoWork, !.woken = FALSE,
                                       !.res = slot'.reservation]
               c == [cell[r] EXCEPT !.waker = TRUE]
    <3>1. /\ slot' \in Slots /\ slot'.phase = "Assigned" /\ slot'.unresolved = slot.unresolved
          /\ slot'.job \in Jobs /\ slot'.job.of = r /\ slot'.job.kind # "abandoned"
          /\ slot'.job.stage = w.stage /\ (w.stage \/ (slot.phase \in {"Cold", "Idle"} /\ ~w.stage))
      BY <1>1, <2>1, <2>2, AssignStateFacts
    <3>2. slot'.reservation \in Nat
      BY <3>1 DEF Slots
    <3>3. request' = [request EXCEPT ![r] = t] /\ cell' = [cell EXCEPT ![r] = c]
      BY <1>1, <2>2 DEF TransferIInv, TransferTypeOK, Tasks, Cells
    <3>4. t \in Tasks /\ t.holds = "polling" /\ t.work = NoWork /\ c \in Cells /\ c.result = "none"
          /\ c.inTask /\ c.inJob /\ ~c.completing
      BY <1>1, <2>1, <3>2 DEF Tasks, Cells
    <3> HIDE DEF t, c
    <3>5. request' \in [Requests -> Tasks] /\ OtherTasks(r) /\ request'[r] = t
          /\ cell' \in [Requests -> Cells] /\ OtherCells(r) /\ cell'[r] = c
      BY <3>3, <3>4, TaskSet, CellSet DEF TransferIInv, TransferTypeOK
    <3>6. thread' \in Threads /\ thread'.job = thread.job /\ thread'.out = thread.out
          /\ thread'.at = IF slot.phase = "Cold" THEN "wait" ELSE thread.at
      BY <1>1, <2>2 DEF Threads, Places
    <3> QED BY <1>1, <1>3, <2>1, <3>1, <3>4, <3>5, <3>6, EntersSlotOK
  <2>3. CASE /\ Assignable(w) /\ slot.phase = "Cold"
             /\ slot' = [slot EXCEPT !.phase = "Failed", !.next = @ + 1]
             /\ Over(r) /\ NoCellOf(r) /\ UNCHANGED thread
    <3>1. ~w.stage
      BY <2>1, <2>3, JobFacts DEF Assignable, Fresh, Reserved
    <3>2. slot' \in Slots /\ slot'.job = slot.job /\ slot'.unresolved = slot.unresolved
          /\ slot'.phase = "Failed"
      <4>1. PICK n \in Nat : n = slot.next + 1
        BY <1>1 DEF Slots
      <4>2. slot' = [slot EXCEPT !.phase = "Failed", !.next = n]
        BY <2>3, <4>1
      <4> QED BY <1>1, <4>2 DEF Slots, Phases
    <3> QED BY <1>1, <1>3, <2>3, <3>1, <3>2, FreshOverOK
  <2>4. CASE /\ ~Assignable(w)
             /\ slot' = IF w.stage THEN fail_worker(Retired(slot, w)) ELSE slot
             /\ Over(r) /\ NoCellOf(r) /\ UNCHANGED thread
    <3>1. CASE ~w.stage
      BY <1>1, <1>3, <2>4, <3>1, FreshOverOK
    <3>2. CASE w.stage
      <4>1. InFuture(r) /\ slot.job = NoWork /\ slot.unresolved = {}
        BY <2>1, <3>2, Alone
      <4>2. ~enqueue_abandoned(slot, w)
        BY <2>1, <2>4, <3>2, JobFacts DEF Assignable, enqueue_abandoned, Fresh, Reserved
      <4>3. contain_unresolved_stage(slot, w) \in Slots /\ contain_unresolved_stage(slot, w).job = NoWork
            /\ contain_unresolved_stage(slot, w).unresolved = {r}
        BY <1>1, <2>1, <3>2, <4>1, ContainFacts, JobFacts
      <4>4. Retired(slot, w) = fail_worker(contain_unresolved_stage(slot, w))
        BY <4>2 DEF Retired
      <4>5. Retired(slot, w) \in Slots /\ Retired(slot, w).job = NoWork /\ Retired(slot, w).unresolved = {r}
        BY <4>3, <4>4, FailFacts
      <4>6. Stored(r)
        BY <2>4, <3>2, <4>5, FailFacts DEF Stored
      <4>7. ~(With(r) /\ thread.at \in {"wake", "step"})
        BY <1>3 DEF TransferIInv, CellOK
      <4>8. /\ request' \in [Requests -> Tasks] /\ OtherTasks(r)
            /\ request'[r].holds = "over" /\ request'[r].work = NoWork
        BY <2>4, TaskOver DEF TransferIInv, TransferTypeOK
      <4>9. /\ cell' \in [Requests -> Cells] /\ OtherCells(r)
            /\ cell'[r].result # "guard" /\ ~cell'[r].inTask
        BY <2>4, CellGone DEF TransferIInv, TransferTypeOK
      <4> QED BY <1>1, <2>4, <4>1, <4>6, <4>7, <4>8, <4>9, GivenUpOK
    <3> QED BY <3>1, <3>2
  <2>5. CASE w.kind \in Fresh /\ Over(r) /\ NoCellOf(r) /\ UNCHANGED <<slot, thread>>
    <3>1. ~w.stage
      BY <2>1, <2>5, JobFacts DEF Fresh, Reserved
    <3> QED BY <1>1, <1>3, <2>5, <3>1, FreshOverOK
  <2> QED BY <1>3, <2>2, <2>3, <2>4, <2>5 DEF prepare_poll, assign
<1> QED BY <1>2, <1>3

-----------------------------------------------------------------------------
(* Steps of the worker thread *)

LEMMA ThreadType ==
  ASSUME TransferIInv
  PROVE  /\ slot \in Slots /\ slot.job \in Jobs \cup {NoWork} /\ thread \in Threads
         /\ thread.at \notin {"unborn", "wait", "exited"} => thread.job \in JobRecords /\ thread.job.of \in Requests
         /\ thread.job \in JobRecords \cup {NoWork}
BY DEF TransferIInv, TransferTypeOK, HandsOK, Slots, Threads, JobRecords

LEMMA NextActionOK ==
  ASSUME TransferIInv, next_action
  PROVE  TransferIInv'
<1>1. thread.at = "wait" /\ UNCHANGED <<request, cell, fate>> /\ slot \in Slots /\ thread \in Threads
      /\ (thread.job = NoWork \/ ~thread.job.stage)
  BY ThreadType DEF next_action, TransferIInv, HandsOK, AtWork
<1>2. CASE /\ slot.phase = "Assigned" /\ slot.job # NoWork
           /\ slot' = [slot EXCEPT !.phase = "Running", !.job = NoWork]
           /\ thread' = [thread EXCEPT !.at = "call", !.job = slot.job]
  <2>1. slot' \in Slots /\ slot'.phase = "Running" /\ slot'.job = NoWork /\ slot'.unresolved = slot.unresolved
    BY <1>1, <1>2 DEF Slots, Phases
  <2>2. slot.job \in Jobs /\ slot.job \in JobRecords
    BY <1>2, ThreadType, JobFacts
  <2>3. thread' \in Threads /\ thread'.at = "call" /\ thread'.job = slot.job
    BY <1>1, <1>2, <2>2 DEF Threads, Places
  <2>4. \A q \in Requests : InThread(q)' <=> InSlot(q)
    BY <2>3 DEF InThread, InSlot
  <2>5. TransferTypeOK' /\ OneLive' /\ SlotOK'
    BY <1>1, <2>1, <2>3 DEF TransferIInv, TransferTypeOK, OneLive, SlotOK
  <2>6. HandsOK'
    BY <1>1, <1>2, <2>2, <2>3, <2>4, JobFacts DEF TransferIInv, SlotOK, HandsOK, AtWork
  <2>7. ASSUME NEW q \in Requests PROVE InOnePlace(q)'
    BY <1>1, <2>1, <2>3 DEF TransferIInv, InOnePlace, InGuard, InFuture, InSlot, InThread, InCell, InUnresolved
  <2>8. ASSUME NEW q \in Requests PROVE CellOK(q)'
    BY <1>1, <2>1, <2>3 DEF TransferIInv, CellOK, Awaited, Assigned, With, AtWork
  <2> QED BY <2>5, <2>6, <2>7, <2>8 DEF TransferIInv
<1>3. CASE \/ slot.phase = "Failed" /\ Runs("exited") /\ UNCHANGED slot
           \/ /\ slot.phase = "Stopping" /\ slot.job = NoWork
              /\ slot' = [slot EXCEPT !.phase = "Stopped"] /\ Runs("exited")
  <2>1. slot' \in Slots /\ slot'.phase \in {"Failed", "Stopped"} /\ slot'.job = slot.job
        /\ slot'.unresolved = slot.unresolved /\ (slot.phase = "Failed" \/ slot.job = NoWork)
    BY <1>1, <1>3 DEF Slots, Phases
  <2>2. thread' \in Threads /\ thread'.at = "exited" /\ thread'.job = thread.job
    BY <1>1, <1>3 DEF Threads, Places, Runs
  <2>3. slot.job = NoWork
    BY <2>1 DEF TransferIInv, SlotOK
  <2>4. TransferTypeOK' /\ OneLive' /\ SlotOK' /\ HandsOK'
    BY <1>1, <2>1, <2>2, <2>3 DEF TransferIInv, TransferTypeOK, OneLive, SlotOK, HandsOK, AtWork
  <2>5. ASSUME NEW q \in Requests PROVE InOnePlace(q)'
    BY <1>1, <2>1, <2>2 DEF TransferIInv, InOnePlace, InGuard, InFuture, InSlot, InThread, InCell, InUnresolved
  <2>6. ASSUME NEW q \in Requests PROVE CellOK(q)'
    BY <1>1, <2>1, <2>2 DEF TransferIInv, CellOK, Awaited, Assigned, With, AtWork
  <2> QED BY <2>4, <2>5, <2>6 DEF TransferIInv
<1>4. CASE /\ slot.phase = "Stopping" /\ slot.job # NoWork
           /\ slot' = [contain_unresolved_stage(slot, slot.job) EXCEPT !.phase = "Stopped", !.job = NoWork]
           /\ thread' = [thread EXCEPT !.at = IF slot.job.kind = "abandoned" THEN "exited" ELSE "complete",
                                       !.job = [slot.job EXCEPT !.stage = FALSE], !.out = "stopped"]
  <2>1. slot.job \in Jobs /\ slot.job \in JobRecords /\ slot.job.of \in Requests
    BY <1>4, ThreadType, JobFacts DEF JobRecords
  <2>2. slot.job.stage => slot.unresolved = {}
    <3> SUFFICES ASSUME slot.job.stage, NEW q \in slot.unresolved PROVE FALSE
      OBVIOUS
    <3>1. q \in Requests /\ InUnresolved(q) /\ InSlot(slot.job.of)
      BY <1>1, <1>4 DEF Slots, InUnresolved, InSlot
    <3> QED BY <2>1, <3>1 DEF TransferIInv, InOnePlace, OneLive
  <2>3. slot' \in Slots /\ slot'.phase = "Stopped" /\ slot'.job = NoWork
        /\ slot'.unresolved = IF slot.job.stage THEN {slot.job.of} ELSE slot.unresolved
    <3> DEFINE d == contain_unresolved_stage(slot, slot.job)
    <3>1. d \in Slots /\ d.unresolved = IF slot.job.stage THEN {slot.job.of} ELSE slot.unresolved
      BY <1>1, <2>1, <2>2, ContainFacts
    <3>2. slot' = [d EXCEPT !.phase = "Stopped", !.job = NoWork]
      BY <1>4
    <3> HIDE DEF d
    <3> QED BY <3>1, <3>2 DEF Slots, Phases
  <2>4. /\ thread' \in Threads /\ thread'.at = (IF slot.job.kind = "abandoned" THEN "exited" ELSE "complete")
        /\ thread'.job \in JobRecords /\ thread'.job.kind = slot.job.kind /\ thread'.job.of = slot.job.of
        /\ ~thread'.job.stage /\ thread'.out = "stopped"
    <3> DEFINE v == [slot.job EXCEPT !.stage = FALSE]
    <3>1. v \in JobRecords /\ v.kind = slot.job.kind /\ v.of = slot.job.of /\ ~v.stage
      BY <2>1 DEF JobRecords
    <3>2. thread' = [thread EXCEPT !.at = IF slot.job.kind = "abandoned" THEN "exited" ELSE "complete",
                                       !.job = v, !.out = "stopped"]
      BY <1>4
    <3> HIDE DEF v
    <3> QED BY <1>1, <3>1, <3>2 DEF Threads, Places, Outs
  <2>5. thread'.job # NoWork
    BY <2>4, JobFacts
  <2>6. TransferTypeOK' /\ OneLive' /\ SlotOK' /\ HandsOK'
    BY <1>1, <2>3, <2>4, <2>5 DEF TransferIInv, TransferTypeOK, OneLive, SlotOK, HandsOK, AtWork
  <2>7. ASSUME NEW q \in Requests PROVE InOnePlace(q)'
    <3>1. ~InThread(q) /\ ~InThread(q)' /\ ~InSlot(q)'
      BY <1>1, <2>3, <2>4 DEF InThread, InSlot
    <3>2. InUnresolved(q)' <=> InUnresolved(q) \/ InSlot(q)
      BY <1>4, <2>1, <2>2, <2>3 DEF InUnresolved, InSlot
    <3>3. (InGuard(q)' <=> InGuard(q)) /\ (InFuture(q)' <=> InFuture(q)) /\ (InCell(q)' <=> InCell(q))
      BY <1>1 DEF InGuard, InFuture, InCell
    <3>4. InOnePlace(q) /\ fate' = fate
      BY <1>1 DEF TransferIInv
    <3> QED BY <3>1, <3>2, <3>3, <3>4 DEF InOnePlace
  <2>8. ASSUME NEW q \in Requests PROVE CellOK(q)'
    BY <1>1, <1>4, <2>3, <2>4, <2>5 DEF TransferIInv, CellOK, Awaited, Assigned, With, AtWork
  <2> QED BY <2>6, <2>7, <2>8 DEF TransferIInv
<1> QED BY <1>2, <1>3, <1>4 DEF next_action

LEMMA ExecuteOK ==
  ASSUME TransferIInv, execute
  PROVE  TransferIInv'
<1> DEFINE w == thread.job
           r == thread.job.of
<1>1. /\ thread.at = "call" /\ UNCHANGED <<slot, request, cell>> /\ thread \in Threads
      /\ w \in JobRecords /\ r \in Requests /\ w # NoWork
      /\ w.kind \in Fresh \cup Reserved /\ (w.stage <=> w.kind \in Reserved) /\ w.stage \in BOOLEAN
  BY ThreadType, JobFacts DEF execute, TransferIInv, HandsOK, JobRecords
<1>2. PICK out \in Answers(w.kind) :
        LET f == FateAfter(w.kind, out, fate[r]) IN
        /\ fate' = [fate EXCEPT ![r] = f]
        /\ thread' = [thread EXCEPT !.out = out,
                                   !.job.stage = f = "live" /\ (w.stage \/ w.kind = "stage"),
                                   !.at = CASE out = "panic" -> "panicked"
                                            [] out = "unknown" -> "contain"
                                            [] OTHER -> "publish"]
  BY DEF execute
<1> DEFINE f == FateAfter(w.kind, out, fate[r])
           at == CASE out = "panic" -> "panicked" [] out = "unknown" -> "contain" [] OTHER -> "publish"
           v == [w EXCEPT !.stage = f = "live" /\ (w.stage \/ w.kind = "stage")]
<1>3. fate \in [Requests -> Fates] /\ \A q \in Requests : fate[q] = "live" => w.stage /\ q = r
  BY <1>1 DEF TransferIInv, TransferTypeOK, HandsOK, AtWork, InThread
<1>4. w.stage => fate[r] = "live"
  BY <1>1 DEF TransferIInv, InOnePlace, InThread
<1>5. out \in Outs /\ out # "guard"
  BY <1>1 DEF Answers, Outs, Fresh, Reserved
<1>6. f \in Fates /\ (f = "live" => w.stage \/ w.kind = "stage")
  BY <1>1, <1>3 DEF FateAfter, Fates
<1>7. v \in JobRecords /\ v.kind = w.kind /\ v.of = r /\ (v.stage <=> f = "live")
  BY <1>1, <1>6 DEF JobRecords
<1>8. at \in {"publish", "contain", "panicked"}
  OBVIOUS
<1>9. thread' \in Threads /\ thread'.at = at /\ thread'.job = v /\ thread'.out = out
  <2>1. thread' = [thread EXCEPT !.out = out, !.job = v, !.at = at]
    BY <1>1, <1>2 DEF Threads
  <2> HIDE DEF v, at, f
  <2> QED BY <1>1, <1>5, <1>7, <1>8, <2>1 DEF Threads, Places
<1>10. fate' \in [Requests -> Fates] /\ fate'[r] = f /\ \A q \in Requests \ {r} : fate'[q] = fate[q]
  BY <1>1, <1>2, <1>3, <1>6
<1>11. v # NoWork
  BY <1>7, JobFacts
<1>12. \A q \in Requests : InThread(q)' <=> (q = r /\ f = "live")
  BY <1>7, <1>9, <1>11 DEF InThread
<1> HIDE DEF v, at, f
<1>13. \A q \in Requests : fate'[q] = "live" => q = r /\ f = "live"
  BY <1>3, <1>10
<1>14. TransferTypeOK' /\ OneLive'
  BY <1>1, <1>9, <1>10, <1>13 DEF TransferIInv, TransferTypeOK, OneLive
<1>15. slot.job = NoWork /\ slot.phase \in {"Running", "Stopping"}
  BY <1>1 DEF TransferIInv, SlotOK, AtWork
<1>16. w.kind = "abandoned" => out # "panic" /\ (out # "unknown" => f # "live")
  BY DEF f, Answers, FateAfter
<1>20. SlotOK' /\ HandsOK'
  BY <1>1, <1>5, <1>7, <1>16, <1>8, <1>9, <1>11, <1>12, <1>13, <1>15 DEF SlotOK, HandsOK, AtWork, at
<1>17. \A q \in Requests : ~InGuard(q) /\ ~InFuture(q) /\ ~InSlot(q) /\ ~InCell(q) /\ ~InUnresolved(q)
  BY <1>1, <1>3, <1>4 DEF TransferIInv, InOnePlace, InThread
<1>18. ASSUME NEW q \in Requests PROVE InOnePlace(q)'
  <2>1. ~InGuard(q)' /\ ~InFuture(q)' /\ ~InSlot(q)' /\ ~InCell(q)' /\ ~InUnresolved(q)'
    BY <1>1, <1>17 DEF InGuard, InFuture, InSlot, InCell, InUnresolved
  <2> QED BY <1>10, <1>12, <1>13, <2>1 DEF InOnePlace
<1>19. ASSUME NEW q \in Requests PROVE CellOK(q)'
  <2>1. With(q)' <=> With(q)
    BY <1>1, <1>7, <1>9, <1>11 DEF With
  <2>2. Awaited(q)' <=> Awaited(q)
    BY <1>1, <1>8, <1>9, <2>1 DEF Awaited, Assigned, AtWork
  <2>3. fate'[q] = "live" => With(q) \/ w.kind = "abandoned"
    BY <1>1, <1>13 DEF With
  <2>4. request[q].holds = "nothing" => fate'[q] # "live"
    <3>1. CASE w.kind = "abandoned"
      BY <1>1, <1>4, <1>10, <1>3, <3>1 DEF TransferIInv, CellOK, Reserved, f, FateAfter
    <3>2. CASE w.kind # "abandoned"
      BY <1>1, <2>3, <3>2 DEF TransferIInv, CellOK, Awaited, AtWork
    <3> QED BY <3>1, <3>2
  <2> QED BY <1>1, <1>8, <1>9, <2>1, <2>2, <2>4 DEF TransferIInv, CellOK, Assigned
<1> QED BY <1>14, <1>18, <1>19, <1>20 DEF TransferIInv

\* While the thread is at work nobody else has a stage.
LEMMA WorkedOn ==
  ASSUME TransferIInv, AtWork
  PROVE  /\ slot.job = NoWork /\ slot.unresolved = {} /\ slot.phase \in {"Running", "Stopping"}
         /\ thread.job \in JobRecords /\ thread.job.of \in Requests /\ thread.job # NoWork
         /\ \A q \in Requests : fate[q] = "live" <=> thread.job.stage /\ q = thread.job.of
         /\ \A q \in Requests : ~InGuard(q) /\ ~InFuture(q) /\ ~InCell(q)
<1>1. slot.job = NoWork /\ slot.phase \in {"Running", "Stopping"}
  BY DEF TransferIInv, SlotOK
<1>2. thread.job \in JobRecords /\ thread.job.of \in Requests /\ thread.job # NoWork
  BY ThreadType, JobFacts DEF AtWork
<1>3. \A q \in Requests : fate[q] = "live" => InThread(q)
  BY DEF TransferIInv, HandsOK
<1>4. \A q \in Requests : ~InGuard(q) /\ ~InFuture(q) /\ ~InCell(q) /\ ~InUnresolved(q)
  BY <1>3 DEF TransferIInv, InOnePlace
<1>5. \A q \in Requests : fate[q] = "live" <=> InThread(q)
  BY <1>3 DEF TransferIInv, InOnePlace
<1>6. slot.unresolved = {}
  BY <1>4 DEF InUnresolved, TransferIInv, TransferTypeOK, Slots
<1> QED BY <1>1, <1>2, <1>4, <1>5, <1>6 DEF InThread

LEMMA ReleasedFacts ==
  ASSUME NEW s \in Slots, NEW res
  PROVE  LET d == Released(s, res) IN
         /\ d \in Slots /\ d.job = s.job /\ d.unresolved = s.unresolved
         /\ d.phase = IF Retains(s, res) THEN "Idle" ELSE s.phase
<1>1. CASE s.reservation # res
  BY <1>1 DEF Released, Retains
<1>2. CASE s.reservation = res
  <2>1. PICK ph \in Phases : ph = IF Retains(s, res) THEN "Idle" ELSE s.phase
    BY DEF Slots, Phases
  <2>2. Released(s, res) = [s EXCEPT !.reservation = 0, !.phase = ph]
    BY <1>2, <2>1 DEF Released, Retains
  <2>3. LET d == [s EXCEPT !.reservation = 0, !.phase = ph] IN
        d \in Slots /\ d.job = s.job /\ d.unresolved = s.unresolved /\ d.phase = ph
    BY DEF Slots
  <2> QED BY <2>1, <2>2, <2>3
<1> QED BY <1>1, <1>2

LEMMA PublishOK ==
  ASSUME TransferIInv, publish
  PROVE  TransferIInv'
<1> DEFINE w == thread.job
           r == thread.job.of
<1>1. /\ thread.at = "publish" /\ UNCHANGED <<request, cell, fate>> /\ thread \in Threads /\ slot \in Slots
      /\ AtWork /\ thread.out # "guard" /\ (w.stage => w.kind # "abandoned")
  BY ThreadType DEF publish, AtWork, TransferIInv, HandsOK
<1>2. /\ slot.job = NoWork /\ slot.unresolved = {} /\ slot.phase \in {"Running", "Stopping"}
      /\ w \in JobRecords /\ r \in Requests /\ w # NoWork
      /\ \A q \in Requests : fate[q] = "live" <=> w.stage /\ q = r
      /\ \A q \in Requests : ~InGuard(q) /\ ~InFuture(q) /\ ~InCell(q)
  BY <1>1, WorkedOn
<1>3. CASE w.stage /\ Retains(slot, w.res)
  <2>1. slot' \in Slots /\ slot'.phase = "Assigned" /\ slot'.job = NoWork /\ slot'.unresolved = {}
    BY <1>1, <1>2, <1>3 DEF publish, Slots, Phases
  <2>2. thread' \in Threads /\ thread'.at = "complete" /\ thread'.out = "guard" /\ thread'.job = w
    BY <1>1, <1>3 DEF publish, Threads, Places, Outs
  <2>4. TransferTypeOK' /\ OneLive' /\ SlotOK'
    BY <1>1, <2>1, <2>2 DEF TransferIInv, TransferTypeOK, OneLive, SlotOK, AtWork
  <2>5. HandsOK'
    BY <1>1, <1>2, <1>3, <2>2 DEF HandsOK, AtWork
  <2>6. ASSUME NEW q \in Requests PROVE InOnePlace(q)'
    BY <1>1, <1>2, <2>1, <2>2 DEF InOnePlace, InGuard, InFuture, InSlot, InThread, InCell, InUnresolved
  <2>7. ASSUME NEW q \in Requests PROVE CellOK(q)'
    BY <1>1, <1>2, <2>1, <2>2 DEF TransferIInv, CellOK, Awaited, Assigned, With, AtWork
  <2> QED BY <2>4, <2>5, <2>6, <2>7 DEF TransferIInv
<1>4. CASE w.stage /\ ~Retains(slot, w.res)
  <2>1. slot' = slot
    BY <1>4 DEF publish
  <2>2. thread' \in Threads /\ thread'.at = "contain" /\ thread'.out = thread.out /\ thread'.job = w
    BY <1>1, <1>4 DEF publish, Runs, Threads, Places
  <2>3. \A q \in Requests : InThread(q)' <=> InThread(q)
    BY <2>2 DEF InThread
  <2>4. TransferTypeOK' /\ OneLive' /\ SlotOK' /\ HandsOK'
    BY <1>1, <1>2, <2>1, <2>2, <2>3 DEF TransferIInv, TransferTypeOK, OneLive, SlotOK, HandsOK, AtWork
  <2>5. ASSUME NEW q \in Requests PROVE InOnePlace(q)'
    BY <1>1, <1>2, <2>1, <2>2 DEF InOnePlace, InGuard, InFuture, InSlot, InThread, InCell, InUnresolved
  <2>6. ASSUME NEW q \in Requests PROVE CellOK(q)'
    BY <1>1, <1>2, <2>1, <2>2 DEF TransferIInv, CellOK, Awaited, Assigned, With, AtWork
  <2> QED BY <2>4, <2>5, <2>6 DEF TransferIInv
<1>5. CASE ~w.stage
  <2>1. /\ slot' \in Slots /\ slot'.job = NoWork /\ slot'.unresolved = {}
        /\ slot'.phase \in {"Idle", "Running", "Stopping"}
        /\ ~Retains(slot, w.res) => slot'.phase = slot.phase
    <3>1. slot' = Released(slot, w.res)
      BY <1>5 DEF publish
    <3> QED BY <1>1, <1>2, <3>1, ReleasedFacts
  <2>2. /\ thread' \in Threads /\ thread'.job = w /\ thread'.out \in {"done", "error"}
        /\ thread'.at = CASE w.kind # "abandoned" -> "complete"
                          [] w.kind = "abandoned" /\ Retains(slot, w.res) -> "wait"
                          [] OTHER -> "fail"
    <3>1. PICK at, out :
             /\ thread' = [thread EXCEPT !.at = at, !.out = out]
             /\ out = (IF Retains(slot, w.res) /\ thread.out # "error" THEN "done" ELSE "error")
             /\ at = CASE w.kind # "abandoned" -> "complete"
                       [] w.kind = "abandoned" /\ Retains(slot, w.res) -> "wait"
                       [] OTHER -> "fail"
      BY <1>5 DEF publish
    <3>2. out \in {"done", "error"} /\ at \in {"complete", "wait", "fail"}
      BY <3>1
    <3>3. thread' \in Threads /\ thread'.job = w /\ thread'.out = out /\ thread'.at = at
      BY <1>1, <3>1, <3>2 DEF Threads, Places, Outs
    <3> QED BY <3>1, <3>2, <3>3
  <2>3. /\ thread'.at \in {"complete", "wait", "fail"}
        /\ thread'.at = "complete" <=> w.kind # "abandoned"
        /\ thread'.at = "fail" => slot'.phase \in {"Running", "Stopping"}
    BY <1>2, <2>1, <2>2
  <2>4. ~AtWork' /\ slot'.phase # "Cold"
    BY <2>1, <2>3 DEF AtWork
  <2>5. \A q \in Requests : fate'[q] # "live"
    BY <1>1, <1>2, <1>5
  <2>6. TransferTypeOK' /\ OneLive'
    BY <1>1, <2>1, <2>2, <2>5 DEF TransferIInv, TransferTypeOK, OneLive
  <2>7. SlotOK'
    BY <2>1, <2>3, <2>4, <2>5 DEF SlotOK
  <2>8. HandsOK'
    BY <1>2, <1>5, <2>2, <2>3, <2>4, <2>5 DEF HandsOK
  <2>9. ASSUME NEW q \in Requests PROVE InOnePlace(q)'
    BY <1>1, <1>2, <1>5, <2>1, <2>2 DEF InOnePlace, InGuard, InFuture, InSlot, InThread, InCell, InUnresolved
  <2>10. ASSUME NEW q \in Requests PROVE CellOK(q)'
    <3>1. With(q)' <=> With(q)
      BY <2>2 DEF With
    <3>2. Awaited(q)' => Awaited(q)
      BY <1>1, <2>1, <3>1 DEF Awaited, Assigned
    <3> QED BY <1>1, <2>1, <2>3, <3>1, <3>2 DEF TransferIInv, CellOK, Assigned
  <2> QED BY <2>6, <2>7, <2>8, <2>9, <2>10 DEF TransferIInv
<1> QED BY <1>3, <1>4, <1>5

\* The thread has contained the stage it worked on.
LEMMA ContainedOK ==
  ASSUME TransferIInv, AtWork, UNCHANGED <<request, cell, fate>>,
         slot' \in Slots, slot'.job = NoWork,
         slot'.unresolved = IF thread.job.stage THEN {thread.job.of} ELSE {},
         thread' \in Threads, thread'.job \in JobRecords, thread'.job.kind = thread.job.kind,
         thread'.job.of = thread.job.of, ~thread'.job.stage, thread'.out = "error",
         \/ thread'.at = "fail" /\ slot'.phase = slot.phase
         \/ thread'.at = "complete" /\ slot'.phase = "Failed" /\ thread.job.kind # "abandoned"
  PROVE  TransferIInv'
<1>1. /\ slot.job = NoWork /\ slot.phase \in {"Running", "Stopping"}
      /\ thread.job \in JobRecords /\ thread.job.of \in Requests /\ thread.job # NoWork
      /\ \A q \in Requests : fate[q] = "live" <=> thread.job.stage /\ q = thread.job.of
      /\ \A q \in Requests : ~InGuard(q) /\ ~InFuture(q) /\ ~InCell(q)
  BY WorkedOn
<1>2. thread'.job # NoWork /\ ~AtWork'
  BY JobFacts DEF AtWork
<1>3. \A q \in Requests : fate'[q] = "live" => InUnresolved(q)'
  BY <1>1 DEF InUnresolved
<1>4. TransferTypeOK' /\ OneLive' /\ SlotOK' /\ HandsOK'
  BY <1>1, <1>2, <1>3 DEF TransferIInv, TransferTypeOK, OneLive, SlotOK, HandsOK
<1>5. ASSUME NEW q \in Requests PROVE InOnePlace(q)'
  BY <1>1, <1>2 DEF InOnePlace, InGuard, InFuture, InSlot, InThread, InCell, InUnresolved
<1>6. ASSUME NEW q \in Requests PROVE CellOK(q)'
  <2>1. With(q)' <=> With(q)
    BY <1>1, <1>2 DEF With
  <2>2. Awaited(q)' => Awaited(q)
    BY <2>1 DEF Awaited, Assigned
  <2> QED BY <1>1, <2>1, <2>2 DEF TransferIInv, CellOK, Assigned
<1> QED BY <1>4, <1>5, <1>6 DEF TransferIInv

LEMMA ThreadStage ==
  ASSUME thread \in Threads, thread.job \in JobRecords, NEW at \in Places, NEW out \in Outs,
         NEW waker \in BOOLEAN,
         thread' = [thread EXCEPT !.at = at, !.out = out, !.waker = waker, !.job.stage = FALSE]
  PROVE  /\ thread' \in Threads /\ thread'.at = at /\ thread'.out = out /\ thread'.job \in JobRecords
         /\ thread'.job.kind = thread.job.kind /\ thread'.job.of = thread.job.of
         /\ thread'.job.res = thread.job.res /\ ~thread'.job.stage
<1> DEFINE v == [thread.job EXCEPT !.stage = FALSE]
<1>1. v \in JobRecords /\ v.kind = thread.job.kind /\ v.of = thread.job.of /\ v.res = thread.job.res /\ ~v.stage
  BY DEF JobRecords
<1>2. thread' = [thread EXCEPT !.at = at, !.out = out, !.waker = waker, !.job = v]
  BY DEF Threads
<1> HIDE DEF v
<1> QED BY <1>1, <1>2 DEF Threads

LEMMA ContainOK ==
  ASSUME TransferIInv, contain
  PROVE  TransferIInv'
<1>1. AtWork /\ UNCHANGED <<request, cell, fate>> /\ thread \in Threads /\ slot \in Slots
  BY ThreadType DEF contain, AtWork
<1>2. thread.job \in JobRecords /\ slot.unresolved = {} /\ slot.job = NoWork
  BY <1>1, WorkedOn
<1>3. thread' = [thread EXCEPT !.at = "fail", !.out = "error", !.waker = thread.waker, !.job.stage = FALSE]
      /\ thread.waker \in BOOLEAN
  BY <1>1 DEF contain, Threads
<1>4. /\ thread' \in Threads /\ thread'.at = "fail" /\ thread'.out = "error" /\ thread'.job \in JobRecords
      /\ thread'.job.kind = thread.job.kind /\ thread'.job.of = thread.job.of /\ ~thread'.job.stage
  BY <1>1, <1>2, <1>3, ThreadStage DEF Places, Outs
<1>5. /\ slot' \in Slots /\ slot'.job = NoWork /\ slot'.phase = slot.phase
      /\ slot'.unresolved = IF thread.job.stage THEN {thread.job.of} ELSE {}
  BY <1>1, <1>2, ContainFacts DEF contain
<1> QED BY <1>1, <1>4, <1>5, ContainedOK

LEMMA PanickedOK ==
  ASSUME TransferIInv, panicked
  PROVE  TransferIInv'
<1>1. AtWork /\ UNCHANGED <<request, cell, fate>> /\ thread \in Threads /\ slot \in Slots
  BY ThreadType DEF panicked, AtWork
<1>2. thread.job \in JobRecords /\ slot.unresolved = {} /\ slot.job = NoWork
  BY <1>1, WorkedOn
<1>3. thread' = [thread EXCEPT !.at = "complete", !.out = "error", !.waker = thread.waker, !.job.stage = FALSE]
      /\ thread.waker \in BOOLEAN
  BY <1>1 DEF panicked, Threads
<1>4. /\ thread' \in Threads /\ thread'.at = "complete" /\ thread'.out = "error" /\ thread'.job \in JobRecords
      /\ thread'.job.kind = thread.job.kind /\ thread'.job.of = thread.job.of /\ ~thread'.job.stage
  BY <1>1, <1>2, <1>3, ThreadStage DEF Places, Outs
<1>5. /\ slot' \in Slots /\ slot'.job = NoWork /\ slot'.phase = "Failed"
      /\ slot'.unresolved = IF thread.job.stage THEN {thread.job.of} ELSE {}
  <2>1. fail_worker(slot) \in Slots /\ fail_worker(slot).phase = "Failed"
        /\ fail_worker(slot).job = NoWork /\ fail_worker(slot).unresolved = {}
    BY <1>1, <1>2, FailFacts
  <2> QED BY <1>2, <2>1, ContainFacts DEF panicked
<1>6. thread.job.kind # "abandoned"
  BY DEF panicked, TransferIInv, HandsOK
<1> QED BY <1>1, <1>4, <1>5, <1>6, ContainedOK

LEMMA FailOK ==
  ASSUME TransferIInv, fail
  PROVE  TransferIInv'
<1>1. /\ thread.at = "fail" /\ UNCHANGED <<request, cell, fate>> /\ thread \in Threads /\ slot \in Slots
      /\ slot.job = NoWork /\ thread.out # "guard" /\ thread.job # NoWork /\ ~thread.job.stage
  BY ThreadType DEF fail, TransferIInv, SlotOK, HandsOK, AtWork
<1>2. slot' \in Slots /\ slot'.job = NoWork /\ slot'.phase = "Failed" /\ slot'.unresolved = slot.unresolved
  BY <1>1, FailFacts DEF fail
<1>3. /\ thread' \in Threads /\ thread'.job = thread.job /\ thread'.out = thread.out
      /\ thread'.at = IF thread.job.kind = "abandoned" THEN "wait" ELSE "complete"
  BY <1>1 DEF fail, Runs, Threads, Places
<1>4. ~AtWork'
  BY <1>3 DEF AtWork
<1>5. TransferTypeOK' /\ OneLive' /\ SlotOK' /\ HandsOK'
  BY <1>1, <1>2, <1>3, <1>4 DEF TransferIInv, TransferTypeOK, OneLive, SlotOK, HandsOK
<1>6. ASSUME NEW q \in Requests PROVE InOnePlace(q)'
  BY <1>1, <1>2, <1>3 DEF TransferIInv, InOnePlace, InGuard, InFuture, InSlot, InThread, InCell, InUnresolved
<1>7. ASSUME NEW q \in Requests PROVE CellOK(q)'
  BY <1>1, <1>2, <1>3 DEF TransferIInv, CellOK, Awaited, Assigned, With, AtWork
<1> QED BY <1>5, <1>6, <1>7 DEF TransferIInv

LEMMA BeginCompletionOK ==
  ASSUME TransferIInv, begin_completion
  PROVE  TransferIInv'
<1> DEFINE r == thread.job.of
           c == [cell[r] EXCEPT !.result = thread.out, !.completing = TRUE, !.waker = FALSE]
<1>1. /\ thread.at = "complete" /\ UNCHANGED <<slot, request, fate>> /\ thread \in Threads
      /\ thread.job \in JobRecords /\ r \in Requests /\ thread.job # NoWork /\ thread.job.kind # "abandoned"
      /\ (thread.out = "guard" <=> thread.job.stage) /\ cell[r] \in Cells /\ thread.out \in Outs
  BY ThreadType, JobFacts DEF begin_completion, TransferIInv, TransferTypeOK, HandsOK, Threads
<1>2. With(r) /\ Awaited(r) /\ ~Assigned(r) /\ cell[r].inJob /\ cell[r].result = "none"
  BY <1>1 DEF With, Awaited, TransferIInv, CellOK
<1>3. thread' = [thread EXCEPT !.at = "wake", !.out = thread.out, !.waker = cell[r].waker, !.job.stage = FALSE]
      /\ cell[r].waker \in BOOLEAN
  BY <1>1 DEF begin_completion, Threads, Cells
<1>4. /\ thread' \in Threads /\ thread'.at = "wake" /\ thread'.job \in JobRecords /\ thread'.job.of = r
      /\ thread'.job.kind = thread.job.kind /\ ~thread'.job.stage /\ thread'.job # NoWork
  BY <1>1, <1>3, ThreadStage, JobFacts DEF Places
<1>5. cell' = [cell EXCEPT ![r] = c]
  BY <1>1 DEF begin_completion, TransferIInv, TransferTypeOK, Cells
<1>6. c \in Cells /\ c.result = thread.out /\ c.completing /\ c.inJob = cell[r].inJob /\ c.inTask = cell[r].inTask
  BY <1>1 DEF Cells
<1> HIDE DEF c
<1>7. cell' \in [Requests -> Cells] /\ OtherCells(r) /\ cell'[r] = c
  BY <1>1, <1>5, <1>6, CellSet DEF TransferIInv, TransferTypeOK
<1>8. TransferTypeOK' /\ OneLive' /\ SlotOK' /\ HandsOK'
  BY <1>1, <1>4, <1>7 DEF TransferIInv, TransferTypeOK, OneLive, SlotOK, HandsOK, AtWork, InSlot
<1>9. ASSUME NEW q \in Requests PROVE InOnePlace(q)'
  <2>1. ~InThread(q)' /\ ~(InThread(q) /\ q # r)
    BY <1>4 DEF InThread
  <2>2. InCell(q)' <=> InCell(q) \/ InThread(q)
    BY <1>1, <1>2, <1>6, <1>7 DEF InCell, InThread, OtherCells
  <2>3. (InGuard(q)' <=> InGuard(q)) /\ (InFuture(q)' <=> InFuture(q)) /\ (InSlot(q)' <=> InSlot(q))
        /\ (InUnresolved(q)' <=> InUnresolved(q)) /\ fate' = fate /\ InOnePlace(q)
    BY <1>1 DEF InGuard, InFuture, InSlot, InUnresolved, TransferIInv
  <2> QED BY <2>1, <2>2, <2>3 DEF InOnePlace
<1>10. ASSUME NEW q \in Requests PROVE CellOK(q)'
  <2>1. (With(q)' <=> q = r) /\ (With(q) <=> q = r) /\ (Assigned(q)' <=> Assigned(q))
    BY <1>1, <1>4 DEF With, Assigned
  <2>2. Awaited(q)' => q # r /\ Awaited(q)
    BY <1>1, <1>2, <1>4, <2>1 DEF Awaited, AtWork
  <2>3. CASE q = r
    BY <1>1, <1>2, <1>4, <1>6, <1>7, <2>1, <2>2, <2>3 DEF TransferIInv, CellOK
  <2>4. CASE q # r
    BY <1>1, <1>7, <2>1, <2>2, <2>4 DEF TransferIInv, CellOK, OtherCells
  <2> QED BY <2>3, <2>4
<1> QED BY <1>8, <1>9, <1>10 DEF TransferIInv

LEMMA DriveCompletionOK ==
  ASSUME TransferIInv, drive_completion
  PROVE  TransferIInv'
<1> DEFINE r == thread.job.of
<1>1. /\ thread.at = "wake" /\ UNCHANGED <<slot, cell, fate>> /\ thread \in Threads
      /\ thread.job \in JobRecords /\ r \in Requests /\ thread.waker \in BOOLEAN /\ request[r] \in Tasks
  BY ThreadType DEF drive_completion, TransferIInv, TransferTypeOK, Threads
<1>2. thread' \in Threads /\ thread'.at = "step" /\ thread'.job = thread.job
  BY <1>1 DEF drive_completion, Threads, Places
<1>3. PICK b \in BOOLEAN : request' = [request EXCEPT ![r].woken = b]
  <2>1. (request[r].woken \/ (thread.waker /\ request[r].holds # "over")) \in BOOLEAN
    OBVIOUS
  <2> QED BY <2>1 DEF drive_completion
<1> DEFINE t == [request[r] EXCEPT !.woken = b]
<1>4. request' = [request EXCEPT ![r] = t]
  BY <1>1, <1>3 DEF TransferIInv, TransferTypeOK, Tasks
<1>5. t \in Tasks /\ t.holds = request[r].holds /\ t.work = request[r].work
  BY <1>1 DEF Tasks
<1> HIDE DEF t
<1>6. request' \in [Requests -> Tasks] /\ OtherTasks(r) /\ request'[r] = t
  BY <1>1, <1>4, <1>5, TaskSet DEF TransferIInv, TransferTypeOK
<1>7. \A q \in Requests : request'[q].holds = request[q].holds /\ request'[q].work = request[q].work
  BY <1>5, <1>6 DEF OtherTasks
<1>8. TransferTypeOK' /\ OneLive' /\ SlotOK' /\ HandsOK'
  BY <1>1, <1>2, <1>6 DEF TransferIInv, TransferTypeOK, OneLive, SlotOK, HandsOK, AtWork, InSlot
<1>9. ASSUME NEW q \in Requests PROVE InOnePlace(q)' /\ CellOK(q)'
  BY <1>1, <1>2, <1>7 DEF TransferIInv, InOnePlace, InGuard, InFuture, InSlot, InThread, InCell, InUnresolved, CellOK, Awaited, Assigned, With, AtWork
<1> QED BY <1>8, <1>9 DEF TransferIInv

LEMMA JobDoneFacts ==
  ASSUME thread \in Threads, JobDone
  PROVE  thread' \in Threads /\ thread'.at \in {"wait", "exited"} /\ thread'.job = NoWork
<1>1. PICK at \in {"wait", "exited"} : thread' = [thread EXCEPT !.at = at, !.job = NoWork, !.out = "none"]
  BY DEF JobDone
<1> QED BY <1>1 DEF Threads, Places, Outs

LEMMA NextCompletionStepOK ==
  ASSUME TransferIInv, next_completion_step
  PROVE  TransferIInv'
<1> DEFINE r == thread.job.of
<1>1. /\ thread.at = "step" /\ UNCHANGED <<slot, request, fate>> /\ thread \in Threads
      /\ thread.job \in JobRecords /\ r \in Requests /\ cell[r] \in Cells
      /\ thread.job # NoWork /\ thread.job.kind # "abandoned" /\ ~thread.job.stage
  BY ThreadType, JobFacts DEF next_completion_step, TransferIInv, TransferTypeOK, HandsOK, AtWork
<1>2. /\ With(r) /\ request[r].holds \in {"future", "polling", "over"} /\ request[r].work = NoWork
      /\ cell[r].inJob /\ cell[r].completing /\ ~Assigned(r) /\ ~Awaited(r)
  BY <1>1 DEF TransferIInv, CellOK, With, Awaited, AtWork
<1>3. PICK c \in Cells :
        /\ cell' = [cell EXCEPT ![r] = c]
        /\ c.result = cell[r].result /\ c.inTask = cell[r].inTask
        /\ \/ c.inJob /\ c.completing /\ thread' = [thread EXCEPT !.at = "wake", !.waker = TRUE]
           \/ IF cell[r].inTask THEN JobDone ELSE Runs("drop")
  <2>1. CASE NextCompletion(cell[r])
    <3> DEFINE c == [cell[r] EXCEPT !.waker = FALSE]
    <3>1. cell' = [cell EXCEPT ![r] = c] /\ thread' = [thread EXCEPT !.at = "wake", !.waker = TRUE]
      BY <1>1, <2>1 DEF next_completion_step, TransferIInv, TransferTypeOK, Cells
    <3>2. c \in Cells /\ c.result = cell[r].result /\ c.inTask = cell[r].inTask /\ c.inJob /\ c.completing
      BY <1>1, <1>2 DEF Cells
    <3> HIDE DEF c
    <3> QED BY <3>1, <3>2
  <2>2. CASE ~NextCompletion(cell[r])
    <3> DEFINE c == [cell[r] EXCEPT !.completing = FALSE, !.inJob = FALSE]
    <3>1. cell' = [cell EXCEPT ![r] = c] /\ IF cell[r].inTask THEN JobDone ELSE Runs("drop")
      BY <1>1, <2>2 DEF next_completion_step, TransferIInv, TransferTypeOK, Cells
    <3>2. c \in Cells /\ c.result = cell[r].result /\ c.inTask = cell[r].inTask
      BY <1>1, <1>2 DEF Cells
    <3> HIDE DEF c
    <3> QED BY <3>1, <3>2
  <2> QED BY <2>1, <2>2
<1>4. cell' \in [Requests -> Cells] /\ OtherCells(r) /\ cell'[r] = c
  BY <1>1, <1>3, CellSet DEF TransferIInv, TransferTypeOK
<1>5. \A q \in Requests : cell'[q].result = cell[q].result /\ cell'[q].inTask = cell[q].inTask
  BY <1>3, <1>4 DEF OtherCells
<1>6. /\ thread' \in Threads
      /\ \/ thread'.at = "wake" /\ thread'.job = thread.job /\ c.inJob /\ c.completing
         \/ thread'.at \in {"wait", "exited"} /\ thread'.job = NoWork
         \/ thread'.at = "drop" /\ thread'.job = thread.job /\ ~cell[r].inTask
  <2>1. CASE c.inJob /\ c.completing /\ thread' = [thread EXCEPT !.at = "wake", !.waker = TRUE]
    BY <1>1, <2>1 DEF Threads, Places
  <2>2. CASE cell[r].inTask /\ JobDone
    BY <1>1, <2>2, JobDoneFacts
  <2>3. CASE ~cell[r].inTask /\ Runs("drop")
    BY <1>1, <2>3 DEF Runs, Threads, Places
  <2> QED BY <1>3, <2>1, <2>2, <2>3
<1>7. ~cell[r].inTask => request[r].holds = "over"
  BY <1>1, <1>2 DEF TransferIInv, CellOK
<1>8. TransferTypeOK' /\ OneLive' /\ SlotOK' /\ HandsOK'
  BY <1>1, <1>4, <1>6 DEF TransferIInv, TransferTypeOK, OneLive, SlotOK, HandsOK, AtWork, InSlot
<1>9. ASSUME NEW q \in Requests PROVE InOnePlace(q)'
  BY <1>1, <1>5, <1>6 DEF TransferIInv, InOnePlace, InGuard, InFuture, InSlot, InThread, InCell, InUnresolved
<1>10. ASSUME NEW q \in Requests PROVE CellOK(q)'
  <2>1. CASE q = r
    BY <1>1, <1>2, <1>4, <1>5, <1>6, <1>7, <2>1 DEF TransferIInv, CellOK, Awaited, Assigned, With, AtWork
  <2>2. CASE q # r
    BY <1>1, <1>4, <1>5, <1>6, <2>2 DEF TransferIInv, OtherCells, CellOK, Awaited, Assigned, With, AtWork
  <2> QED BY <2>1, <2>2
<1> QED BY <1>8, <1>9, <1>10 DEF TransferIInv

LEMMA DropJobOK ==
  ASSUME TransferIInv, drop_job
  PROVE  TransferIInv'
<1> DEFINE r == thread.job.of
<1>1. /\ thread.at = "drop" /\ UNCHANGED <<request, fate>> /\ thread \in Threads
      /\ thread.job \in JobRecords /\ r \in Requests /\ thread.job # NoWork /\ thread.job.kind # "abandoned"
      /\ ~thread.job.stage
  BY ThreadType, JobFacts DEF drop_job, TransferIInv, HandsOK, AtWork
<1>2. request[r].holds = "over" /\ request[r].work = NoWork
  BY <1>1 DEF TransferIInv, CellOK, With
<1>3. cell' \in [Requests -> Cells] /\ OtherCells(r) /\ cell'[r].result = "none" /\ ~cell'[r].inTask
  BY <1>1, CellGone DEF drop_job, TransferIInv, TransferTypeOK
<1>4. thread' \in Threads /\ thread'.at \in {"wait", "exited"} /\ thread'.job = NoWork
  BY <1>1, JobDoneFacts DEF drop_job
<1>5. request' \in [Requests -> Tasks] /\ OtherTasks(r)
  BY <1>1 DEF OtherTasks, TransferIInv, TransferTypeOK
<1>6. CASE cell[r].result = "guard"
  <2>1. LET w == Work("guard", r, thread.job.res, TRUE) IN w \in JobRecords /\ w.of = r /\ w.stage
    BY <1>1 DEF Work, JobRecords, JobKinds
  <2>2. Stored(r) /\ InCell(r)
    BY <1>1, <1>6, <2>1, StoredBy DEF drop_job, InCell
  <2> QED BY <1>1, <1>2, <1>3, <1>4, <1>5, <2>2, GivenUpOK
<1>7. CASE cell[r].result # "guard"
  <2>1. slot' = slot
    BY <1>7 DEF drop_job
  <2>2. TransferTypeOK' /\ OneLive' /\ SlotOK' /\ HandsOK'
    BY <1>1, <1>3, <1>4, <2>1 DEF TransferIInv, TransferTypeOK, OneLive, SlotOK, HandsOK, AtWork, InSlot
  <2>3. ASSUME NEW q \in Requests PROVE InOnePlace(q)'
    BY <1>1, <1>3, <1>4, <1>7, <2>1 DEF TransferIInv, OtherCells, InOnePlace, InGuard, InFuture, InSlot, InThread, InCell, InUnresolved
  <2>4. ~Assigned(r)
    BY <1>1 DEF TransferIInv, CellOK, With
  <2>5. ASSUME NEW q \in Requests PROVE CellOK(q)'
    BY <1>1, <1>2, <1>3, <1>4, <2>1, <2>4 DEF TransferIInv, OtherCells, CellOK, Awaited, Assigned, With, AtWork
  <2> QED BY <2>2, <2>3, <2>5 DEF TransferIInv
<1> QED BY <1>6, <1>7

LEMMA PrepareStopOK ==
  ASSUME TransferIInv, prepare_stop
  PROVE  TransferIInv'
<1>1. UNCHANGED <<thread, request, cell, fate>> /\ slot \in Slots
  BY DEF prepare_stop, TransferIInv, TransferTypeOK
<1>2. /\ slot' \in Slots /\ slot'.job = slot.job /\ slot'.unresolved = slot.unresolved
      /\ \/ slot.phase = "Cold" /\ slot'.phase = "Stopped"
         \/ slot.phase \in {"Failed", "Stopped"} /\ slot'.phase = slot.phase
         \/ slot.phase \in {"Idle", "Assigned", "Running", "Stopping"} /\ slot'.phase = "Stopping"
  <2> DEFINE p == CASE slot.phase = "Cold" -> "Stopped"
                    [] slot.phase \in {"Failed", "Stopped"} -> slot.phase
                    [] OTHER -> "Stopping"
  <2>1. slot' = [slot EXCEPT !.reservation = 0, !.phase = p]
    BY <1>1 DEF prepare_stop, Slots
  <2>2. \/ slot.phase = "Cold" /\ p = "Stopped"
        \/ slot.phase \in {"Failed", "Stopped"} /\ p = slot.phase
        \/ slot.phase \in {"Idle", "Assigned", "Running", "Stopping"} /\ p = "Stopping"
    BY <1>1 DEF Slots, Phases
  <2>3. p \in Phases
    BY <2>2 DEF Phases
  <2> HIDE DEF p
  <2> QED BY <1>1, <2>1, <2>2, <2>3 DEF Slots
<1>3. TransferTypeOK' /\ OneLive' /\ SlotOK' /\ HandsOK'
  BY <1>1, <1>2
     DEF TransferIInv, TransferTypeOK, OneLive, SlotOK, HandsOK, AtWork, InSlot, InThread, InUnresolved
<1>4. ASSUME NEW q \in Requests PROVE InOnePlace(q)' /\ CellOK(q)'
  BY <1>1, <1>2 DEF TransferIInv, InOnePlace, InGuard, InFuture, InSlot, InThread, InCell, InUnresolved,
                    CellOK, Awaited, Assigned, With, AtWork
<1> QED BY <1>3, <1>4 DEF TransferIInv

LEMMA TransferStutterOK ==
  ASSUME TransferIInv, UNCHANGED <<slot, thread, request, cell, fate>>
  PROVE  TransferIInv'
BY DEF TransferIInv, TransferTypeOK, OneLive, SlotOK, HandsOK, AtWork, InOnePlace, InGuard, InFuture, InSlot,
       InThread, InCell, InUnresolved, CellOK, Awaited, Assigned, With

LEMMA TransferStepOK == TransferIInv /\ [TransferNext]_transferVars => TransferIInv'
<1> SUFFICES ASSUME TransferIInv, [TransferNext]_transferVars PROVE TransferIInv'
  OBVIOUS
<1>1. ASSUME NEW r \in Requests,
             \/ submit_fresh(r) \/ submit_reserved(r) \/ submit_quarantine(r)
             \/ prepare_poll(r) \/ poll_ready(r) \/ drop_future(r) \/ drop_guard(r)
      PROVE  TransferIInv'
  BY <1>1, SubmitFreshOK, SubmitReservedOK, SubmitQuarantineOK, PreparePollOK, PollReadyOK,
     DropFutureOK, DropGuardOK
<1>2. CASE ThreadStep
  BY <1>2, NextActionOK, ExecuteOK, PublishOK, ContainOK, FailOK, PanickedOK, BeginCompletionOK,
     DriveCompletionOK, NextCompletionStepOK, DropJobOK DEF ThreadStep
<1>3. CASE prepare_stop
  BY <1>3, PrepareStopOK
<1>4. CASE Joined
  BY <1>4, TransferStutterOK DEF Joined
<1>5. CASE UNCHANGED transferVars
  BY <1>5, TransferStutterOK DEF transferVars
<1> QED BY <1>1, <1>2, <1>3, <1>4, <1>5 DEF TransferNext

LEMMA TransferInvariant == TransferSpec => []TransferIInv
BY TransferStarts, TransferStepOK, PTL DEF TransferSpec

\* The holders that StageHolders collects are the places of the invariant.
LEMMA HoldersAre ==
  ASSUME TransferTypeOK, NEW r \in Requests
  PROVE  /\ StageHolders(r) \subseteq {"guard", "future", "slot", "thread", "cell", "unresolved"}
         /\ "guard" \in StageHolders(r) <=> InGuard(r)
         /\ "future" \in StageHolders(r) <=> InFuture(r)
         /\ "slot" \in StageHolders(r) <=> InSlot(r)
         /\ "thread" \in StageHolders(r) <=> InThread(r)
         /\ "cell" \in StageHolders(r) <=> InCell(r)
         /\ "unresolved" \in StageHolders(r) <=> InUnresolved(r)
BY JobFacts DEF StageHolders, InGuard, InFuture, InSlot, InThread, InCell, InUnresolved

LEMMA OneHolder ==
  ASSUME TransferIInv
  PROVE  StagesHaveOneHolder
<1>1. ASSUME NEW r \in Requests, fate[r] = "live" PROVE Cardinality(StageHolders(r)) = 1
  <2>1. TransferTypeOK /\ InOnePlace(r)
    BY DEF TransferIInv
  <2>2. CASE InGuard(r)
    <3>1. StageHolders(r) = {"guard"}
      BY <2>1, <2>2, HoldersAre DEF InOnePlace
    <3> QED BY <3>1, FS_Singleton
  <2>3. CASE InFuture(r)
    <3>1. StageHolders(r) = {"future"}
      BY <2>1, <2>3, HoldersAre DEF InOnePlace
    <3> QED BY <3>1, FS_Singleton
  <2>4. CASE InSlot(r)
    <3>1. StageHolders(r) = {"slot"}
      BY <2>1, <2>4, HoldersAre DEF InOnePlace
    <3> QED BY <3>1, FS_Singleton
  <2>5. CASE InThread(r)
    <3>1. StageHolders(r) = {"thread"}
      BY <2>1, <2>5, HoldersAre DEF InOnePlace
    <3> QED BY <3>1, FS_Singleton
  <2>6. CASE InCell(r)
    <3>1. StageHolders(r) = {"cell"}
      BY <2>1, <2>6, HoldersAre DEF InOnePlace
    <3> QED BY <3>1, FS_Singleton
  <2>7. CASE InUnresolved(r)
    <3>1. StageHolders(r) = {"unresolved"}
      BY <2>1, <2>7, HoldersAre DEF InOnePlace
    <3> QED BY <3>1, FS_Singleton
  <2> QED BY <1>1, <2>1, <2>2, <2>3, <2>4, <2>5, <2>6, <2>7 DEF InOnePlace
<1>2. ASSUME NEW r \in Requests, fate[r] # "live" PROVE Cardinality(StageHolders(r)) = 0
  <2>1. StageHolders(r) = {}
    BY <1>2, HoldersAre DEF TransferIInv, InOnePlace
  <2> QED BY <2>1, FS_EmptySet
<1>3. Cardinality({r \in Requests : fate[r] = "live"}) <= 1
  <2> DEFINE live == {r \in Requests : fate[r] = "live"}
  <2>1. CASE live = {}
    BY <2>1, FS_EmptySet
  <2>2. CASE live # {}
    <3>1. PICK r \in live : TRUE
      BY <2>2
    <3>2. live = {r}
      BY <3>1 DEF TransferIInv, OneLive
    <3>3. Cardinality(live) = 1
      BY <3>2, FS_Singleton
    <3> QED BY <3>3
  <2> QED BY <2>1, <2>2
<1> QED BY <1>1, <1>2, <1>3 DEF StagesHaveOneHolder

\* For any number of requests: whatever requests, the thread and a shutdown do, in
\* any order, a staged asset that is neither committed, told nor quarantined has
\* exactly one holder, the others have none, and there is at most one such asset,
\* so that contain_unresolved_stage never drops a second.
THEOREM StagesAreHeldOnce == TransferSpec => []StagesHaveOneHolder
BY TransferInvariant, OneHolder, PTL

-----------------------------------------------------------------------------
\* The file pipe.

\* b holds the bytes of the file in order, and the byte due next is <<s, k>>.
Upto(b, s, k) ==
    /\ b \in Seq(Nat \X Nat)
    /\ \A i \in 1..Len(b) :
         b[i][1] \in 0..LastChunk /\ b[i] = IF i = 1 THEN <<0, 0>> ELSE Follows(b[i - 1])
    /\ <<s, k>> = IF Len(b) = 0 THEN <<0, 0>> ELSE Follows(b[Len(b)])

\* b is in order, and all of the first n chunks is there.
Partly(b, n) == \E s \in n..Len(PipeChunks), k \in Nat : Upto(b, s, k)

\* A slot of the pipe, and the places of its two sides.
PipeSlot == -1..LastChunk
AgentAts ==
    {"offer", "offered", "finish", "receive", "install", "complete", "deliver", "done", "failed",
     "dropped"}
BlockingAts ==
    {"read", "wake", "empty", "retain", "wake-write", "ack", "publish-empty", "publish", "deliver",
     "recheck", "done", "failed", "dropped"}

PipeStates ==
    [retained : PipeSlot, inFlight : PipeSlot, terminal : {"Open", "PublishingEof", "Eof", "Aborted"},
     waker : BOOLEAN, updates : Nat]
AgentStates ==
    [at : AgentAts, seq : 0..Len(PipeChunks), woken : BOOLEAN,
     res : {"none", "chunk", "eof", "error", "pending"}]
BlockingStates == [at : BlockingAts, seq : 0..Len(PipeChunks), off : Nat, handed : BOOLEAN]

\* The pipe and its two sides are well formed.
PipeTypeOK ==
    /\ flow \in {"upload", "download"}
    /\ pipe \in PipeStates /\ agent \in AgentStates /\ blocking \in BlockingStates
    /\ context \in {"active", "ended"}
    /\ earlyPolls \in Nat

\* An upload: the reader reads what the sender has offered, and the sender moves
\* on when it has been read whole.
UploadOK ==
    /\ agent.at \in {"offer", "offered", "finish", "done", "failed", "dropped"}
    /\ blocking.at \in {"read", "wake", "done", "failed", "dropped"}
    /\ pipe.terminal # "PublishingEof"
    /\ agent.at \in {"offer", "offered"} => agent.seq < Len(PipeChunks)
    /\ agent.at \in {"finish", "done"} => agent.seq = Len(PipeChunks)
    /\ confirmed = agent.seq - 1
    /\ pipe.retained = NoSeq => pipe.inFlight = NoSeq
    /\ pipe.retained # NoSeq =>
         /\ pipe.terminal = "Open" /\ agent.at = "offered" /\ pipe.retained = agent.seq
         /\ blocking.off < ChunkLen(agent.seq) /\ Upto(got, agent.seq, blocking.off)
    /\ pipe.retained = NoSeq /\ pipe.terminal = "Open" =>
         /\ blocking.off = 0
         /\ agent.at \in {"offer", "offered", "finish"}
         /\ Upto(got, IF agent.at = "offered" THEN agent.seq + 1 ELSE agent.seq, 0)
    /\ (pipe.terminal = "Eof") <=> (agent.at = "done")
    /\ pipe.terminal = "Eof" => Upto(got, Len(PipeChunks), 0)
    /\ pipe.terminal = "Aborted" => Partly(got, agent.seq)
    /\ blocking.at = "done" => pipe.terminal = "Eof"
    /\ agent.at \in {"offer", "finish"} => agent.woken
    /\ blocking.handed => blocking.at = "wake"
    /\ agent.at = "offered" /\ ~agent.woken =>
         blocking.handed \/ (pipe.waker /\ pipe.terminal = "Open" /\ ~Empty)

\* The receiver holds a chunk it has not acknowledged.
HoldsChunk == agent.at = "deliver" \/ (agent.at = "complete" /\ agent.res = "chunk")

\* The writer has put a chunk into the pipe and waits for the acknowledgement.
Written == blocking.at \in {"wake-write", "ack"}

\* The receiver has registered a waker, or is about to say so.
Registered == agent.at = "receive" \/ (agent.at = "complete" /\ agent.res = "pending")

\* A download: the chunk is in the pipe, with the receiver or acknowledged, and
\* the end is published with no registration under way.
DownloadOK ==
    /\ agent.at \in {"receive", "install", "complete", "deliver", "done", "failed", "dropped"}
    /\ blocking.at \notin {"read", "wake"}
    /\ confirmed = blocking.seq - 1
    /\ blocking.at \in {"empty", "retain", "wake-write", "ack"} => blocking.seq < Len(PipeChunks)
    /\ blocking.at \in {"publish-empty", "publish", "deliver", "recheck", "done"} =>
         blocking.seq = Len(PipeChunks)
    /\ pipe.terminal = "Open" =>
         blocking.at \in {"empty", "retain", "wake-write", "ack", "publish-empty", "publish"}
    /\ pipe.terminal = "PublishingEof" => blocking.at \in {"deliver", "recheck"}
    /\ (pipe.terminal = "Eof") <=> (blocking.at = "done")
    /\ pipe.retained # NoSeq =>
         /\ pipe.retained = blocking.seq /\ pipe.inFlight = NoSeq
         /\ pipe.terminal = "Open" /\ Written /\ ~HoldsChunk
         /\ Upto(got, blocking.seq, 0)
    /\ pipe.inFlight # NoSeq =>
         pipe.inFlight = blocking.seq /\ pipe.terminal = "Open" /\ Written /\ HoldsChunk
    /\ HoldsChunk =>
         /\ agent.seq = blocking.seq /\ blocking.seq < Len(PipeChunks)
         /\ Upto(got, blocking.seq, 0)
         /\ pipe.terminal \in {"Aborted", "Open"}
         /\ pipe.terminal = "Open" => pipe.inFlight # NoSeq
    /\ Empty /\ ~HoldsChunk /\ pipe.terminal # "Aborted" =>
         Upto(got, IF Written THEN blocking.seq + 1 ELSE blocking.seq, 0)
    /\ pipe.terminal = "Aborted" => Partly(got, blocking.seq)
    /\ pipe.updates = IF agent.at \in {"install", "complete"} THEN 1 ELSE 0
    /\ agent.at = "complete" => agent.res \in {"chunk", "error", "pending"}
    /\ agent.at \in {"install", "complete"} => pipe.terminal # "Eof"
    /\ agent.at = "done" => pipe.terminal = "Eof"
    /\ blocking.handed => blocking.at \in {"wake-write", "deliver"}
    /\ Registered /\ ~agent.woken =>
         \/ blocking.handed
         \/ pipe.waker /\ pipe.retained = NoSeq /\ pipe.terminal \in {"Open", "PublishingEof"}

PipeIInv ==
    /\ PipeTypeOK
    /\ flow = "upload" => UploadOK
    /\ flow = "download" => DownloadOK

\* Chunks are numbered from 0 and none is empty.
LEMMA ChunkFacts ==
    /\ Len(PipeChunks) \in Nat /\ LastChunk = Len(PipeChunks) - 1
    /\ (PipeChunks = << >>) <=> (Len(PipeChunks) = 0)
    /\ \A s \in 0..LastChunk : ChunkLen(s) \in Nat \ {0}
BY PipeAssumption DEF LastChunk, ChunkLen

\* What a slot of the pipe holds: nothing, or the number of a chunk.
LEMMA PipeSlotFacts ==
    /\ NoSeq \in PipeSlot /\ NoSeq = -1
    /\ \A s \in 0..LastChunk : s \in PipeSlot /\ s # NoSeq /\ s \in Nat
    /\ \A s \in PipeSlot : s # NoSeq => s \in 0..LastChunk
BY ChunkFacts DEF NoSeq, PipeSlot

\* Before anything has come out, the first byte of the file is due.
LEMMA UptoEmpty == Upto(<< >>, 0, 0)
BY DEF Upto

\* The byte due next is given by two numbers.
LEMMA UptoType ==
    ASSUME NEW b, NEW s, NEW k, Upto(b, s, k)
    PROVE  s \in Nat /\ k \in Nat
<1>1. CASE Len(b) = 0
  BY <1>1 DEF Upto
<1>2. CASE Len(b) # 0
  <2> DEFINE c == b[Len(b)]
  <2>1. c \in Nat \X Nat /\ c[1] \in 0..LastChunk /\ <<s, k>> = Follows(c)
    <3>1. b \in Seq(Nat \X Nat) /\ Len(b) \in 1..Len(b)
      BY <1>2 DEF Upto
    <3>2. b[Len(b)] \in Nat \X Nat
      BY <3>1
    <3> QED BY <1>2, <3>1, <3>2 DEF Upto
  <2>2. c[1] \in Nat /\ c[2] \in Nat /\ ChunkLen(c[1]) \in Nat
    BY <2>1, ChunkFacts
  <2> HIDE DEF c
  <2> QED BY <2>1, <2>2 DEF Follows
<1> QED BY <1>1, <1>2

\* The next bytes of the chunk that is due come out.
LEMMA UptoMore ==
    ASSUME NEW b, NEW s \in 0..LastChunk, NEW k \in Nat, Upto(b, s, k),
           NEW m \in Nat \ {0}, k + m <= ChunkLen(s)
    PROVE  LET more == [i \in 1..m |-> <<s, k + i - 1>>] IN
           IF k + m = ChunkLen(s) THEN Upto(b \o more, s + 1, 0) ELSE Upto(b \o more, s, k + m)
<1> DEFINE more == [i \in 1..m |-> <<s, k + i - 1>>]
           c == b \o more
<1>0. s \in Nat /\ ChunkLen(s) \in Nat \ {0}
  BY ChunkFacts
<1>1. more \in Seq(Nat \X Nat) /\ Len(more) = m /\ \A i \in 1..m : more[i] = <<s, k + i - 1>>
  <2>1. \A i \in 1..m : <<s, k + i - 1>> \in Nat \X Nat
    BY <1>0
  <2> QED BY <2>1
<1>2. b \in Seq(Nat \X Nat) /\ Len(b) \in Nat
  BY DEF Upto
<1>3. c \in Seq(Nat \X Nat) /\ Len(c) = Len(b) + m
  BY <1>1, <1>2
<1>4. /\ \A i \in 1..Len(b) : c[i] = b[i]
      /\ \A i \in 1..m : c[Len(b) + i] = <<s, k + i - 1>>
  BY <1>1, <1>2, ConcatProperties
<1>5. ASSUME NEW i \in 1..m PROVE Follows(c[Len(b) + i]) = IF k + i < ChunkLen(s) THEN <<s, k + i>> ELSE <<s + 1, 0>>
  <2>1. Follows(<<s, k + i - 1>>) = IF (k + i - 1) + 1 < ChunkLen(s) THEN <<s, (k + i - 1) + 1>> ELSE <<s + 1, 0>>
    BY DEF Follows
  <2>2. (k + i - 1) + 1 = k + i
    OBVIOUS
  <2> QED BY <1>4, <2>1, <2>2
<1> HIDE DEF more, c
<1>6. ASSUME NEW i \in 1..Len(c)
      PROVE  c[i][1] \in 0..LastChunk /\ c[i] = IF i = 1 THEN <<0, 0>> ELSE Follows(c[i - 1])
  <2>1. CASE i \in 1..Len(b)
    <3>1. i # 1 => i - 1 \in 1..Len(b)
      BY <1>2, <2>1
    <3> QED BY <1>4, <2>1, <3>1 DEF Upto
  <2>2. CASE i = Len(b) + 1
    <3>1. c[i] = <<s, k>>
      <4>1. 1 \in 1..m /\ k + 1 - 1 = k
        OBVIOUS
      <4> QED BY <1>4, <2>2, <4>1
    <3>2. i # 1 => Len(b) # 0 /\ i - 1 = Len(b) /\ Len(b) \in 1..Len(b)
      BY <1>2, <2>2
    <3>3. i = 1 => Len(b) = 0
      BY <1>2, <2>2
    <3> QED BY <1>4, <3>1, <3>2, <3>3 DEF Upto
  <2>3. CASE i \in (Len(b) + 2)..(Len(b) + m)
    <3> DEFINE j == i - Len(b)
    <3>1. /\ j \in 2..m /\ j \in 1..m /\ j - 1 \in 1..m /\ i = Len(b) + j
          /\ i - 1 = Len(b) + (j - 1) /\ k + (j - 1) = k + j - 1 /\ k + (j - 1) < ChunkLen(s) /\ i # 1
      BY <1>0, <1>2, <2>3
    <3> HIDE DEF j
    <3>2. c[i] = <<s, k + j - 1>>
      BY <1>4, <3>1
    <3>3. Follows(c[i - 1]) = <<s, k + (j - 1)>>
      BY <1>5, <3>1
    <3> QED BY <3>1, <3>2, <3>3
  <2>4. i \in 1..Len(b) \/ i = Len(b) + 1 \/ i \in (Len(b) + 2)..(Len(b) + m)
    <3>1. i \in Nat /\ 1 <= i /\ i <= Len(b) + m
      BY <1>2, <1>3
    <3> QED BY <1>2, <3>1
  <2> QED BY <2>1, <2>2, <2>3, <2>4
<1>7. Len(c) # 0 /\ Len(c) = Len(b) + m /\ m \in 1..m
  BY <1>2, <1>3
<1>8. Follows(c[Len(c)]) = IF k + m < ChunkLen(s) THEN <<s, k + m>> ELSE <<s + 1, 0>>
  BY <1>5, <1>7
<1>9. CASE k + m = ChunkLen(s)
  <2>1. Upto(c, s + 1, 0)
    BY <1>3, <1>6, <1>7, <1>8, <1>9, <1>0 DEF Upto
  <2> QED BY <1>9, <2>1 DEF c, more
<1>10. CASE k + m # ChunkLen(s)
  <2>0. k + m < ChunkLen(s)
    BY <1>0, <1>10
  <2>1. Upto(c, s, k + m)
    BY <2>0, <1>3, <1>6, <1>7, <1>8, <1>10, <1>0 DEF Upto
  <2> QED BY <1>10, <2>1 DEF c, more
<1> QED BY <1>9, <1>10

\* What has come out up to some byte includes all chunks before it.
LEMMA UptoPartly ==
    ASSUME NEW b, NEW s, NEW k, Upto(b, s, k), NEW n \in Nat, n <= s, s <= Len(PipeChunks)
    PROVE  Partly(b, n)
<1>1. s \in n..Len(PipeChunks) /\ k \in Nat
  BY UptoType, ChunkFacts
<1> QED BY <1>1 DEF Partly

\* A beginning of the file that includes the confirmed chunks is in order.
LEMMA PartlyInOrder ==
    ASSUME NEW n \in Nat, confirmed = n - 1, Partly(got, n)
    PROVE  /\ \A i \in 1..Len(got) : got[i][1] \in 0..LastChunk /\ got[i] = Due(i - 1)
           /\ confirmed < Due(Len(got))[1]
<1>1. PICK s \in n..Len(PipeChunks), k \in Nat : Upto(got, s, k)
  BY DEF Partly
<1>2. got \in Seq(Nat \X Nat) /\ Len(got) \in Nat
  BY <1>1 DEF Upto
<1>3. Due(Len(got)) = <<s, k>>
  BY <1>1, <1>2 DEF Upto, Due
<1>4. confirmed < s
  BY ChunkFacts
<1>5. ASSUME NEW i \in 1..Len(got) PROVE got[i] = Due(i - 1)
  <2>1. (i - 1 = 0) <=> (i = 1)
    OBVIOUS
  <2> QED BY <1>1, <2>1 DEF Upto, Due
<1>6. \A i \in 1..Len(got) : got[i][1] \in 0..LastChunk
  BY <1>1 DEF Upto
<1>7. Due(Len(got))[1] = s
  BY <1>3
<1> QED BY <1>4, <1>5, <1>6, <1>7

\* The pipe starts in the invariant, an empty transfer at its end.
LEMMA PipeStarts == PipeInit => PipeIInv
<1> SUFFICES ASSUME PipeInit PROVE PipeIInv
  OBVIOUS
<1>1. PipeTypeOK
  BY ChunkFacts, PipeSlotFacts
  DEF PipeInit, PipeTypeOK, Begins, AgentAts, BlockingAts, PipeStates, AgentStates, BlockingStates
<1>2. flow = "upload" => UploadOK
  BY ChunkFacts, UptoEmpty DEF PipeInit, UploadOK, Begins, NoSeq, Empty
<1>3. flow = "download" => DownloadOK
  BY ChunkFacts, UptoEmpty DEF PipeInit, DownloadOK, Begins, NoSeq, Empty, HoldsChunk, Written, Registered
<1> QED BY <1>1, <1>2, <1>3 DEF PipeIInv

\* The sender offers a chunk into the empty pipe.
LEMMA BeginOfferOK ==
    ASSUME PipeIInv, begin_offer
    PROVE  PipeIInv'
<1>1. /\ flow = "upload" /\ UploadOK /\ PipeTypeOK
      /\ agent.at = "offer" /\ pipe.terminal = "Open" /\ pipe.retained = NoSeq
      /\ agent.seq \in 0..LastChunk /\ Upto(got, agent.seq, 0) /\ ChunkLen(agent.seq) \in Nat \ {0}
  BY ChunkFacts DEF PipeIInv, PipeTypeOK, AgentStates, UploadOK, begin_offer, Empty, NoSeq
<1>2. PipeTypeOK'
  BY <1>1, PipeSlotFacts DEF PipeTypeOK, begin_offer, Parks, AgentAts, PipeStates, AgentStates
<1>3. UploadOK'
  BY <1>1, PipeSlotFacts DEF PipeTypeOK, PipeStates, AgentStates, begin_offer, Parks, UploadOK, Empty
<1> QED BY <1>1, <1>2, <1>3 DEF PipeIInv, begin_offer

\* The sender looks whether its chunk has been read whole.
LEMMA FinishOfferOK ==
    ASSUME PipeIInv, finish_offer_poll
    PROVE  PipeIInv'
<1>1. /\ flow = "upload" /\ UploadOK /\ PipeTypeOK
      /\ agent.at = "offered" /\ pipe.terminal = "Open"
      /\ agent.seq \in 0..LastChunk
  BY ChunkFacts DEF PipeIInv, PipeTypeOK, AgentStates, UploadOK, finish_offer_poll, NoSeq
<1>2. CASE Empty
  <2>0. /\ agent' \in AgentStates /\ agent'.seq = agent.seq + 1 /\ agent'.woken
        /\ agent'.at = IF agent.seq = LastChunk THEN "finish" ELSE "offer"
    <3>1. agent.seq + 1 \in 0..Len(PipeChunks)
      BY <1>1, ChunkFacts
    <3> QED BY <1>1, <1>2, <3>1 DEF PipeTypeOK, finish_offer_poll, AgentAts, AgentStates
  <2>1. PipeTypeOK'
    BY <1>1, <1>2, <2>0 DEF PipeTypeOK, finish_offer_poll
  <2>2. UploadOK'
    <3>1. UNCHANGED <<pipe, blocking, got>> /\ confirmed' = agent.seq
      BY <1>2 DEF finish_offer_poll
    <3>2. Upto(got, agent.seq + 1, 0) /\ blocking.off = 0 /\ pipe.retained = NoSeq
      BY <1>1, <1>2 DEF UploadOK, Empty
    <3>3. agent.seq + 1 < Len(PipeChunks) \/ (agent.seq = LastChunk /\ agent.seq + 1 = Len(PipeChunks))
      BY <1>1, ChunkFacts
    <3> QED BY <1>1, <1>2, <2>0, <3>1, <3>2, <3>3, ChunkFacts DEF UploadOK, Empty
  <2> QED BY <1>1, <2>1, <2>2 DEF PipeIInv, finish_offer_poll
<1>3. CASE ~Empty
  <2>1. PipeTypeOK'
    BY <1>1, <1>3 DEF PipeTypeOK, finish_offer_poll, Parks, AgentAts, PipeStates, AgentStates
  <2>2. UploadOK'
    BY <1>1, <1>3 DEF PipeTypeOK, PipeStates, AgentStates, finish_offer_poll, Parks, UploadOK, Empty
  <2> QED BY <1>1, <2>1, <2>2 DEF PipeIInv, finish_offer_poll
<1> QED BY <1>2, <1>3

\* The sender publishes the end of the file.
LEMMA FinishUploadOK ==
    ASSUME PipeIInv, poll_finish_state
    PROVE  PipeIInv'
<1>1. /\ flow = "upload" /\ UploadOK /\ PipeTypeOK
      /\ agent.at = "finish" /\ pipe.terminal = "Open" /\ pipe.retained = NoSeq
      /\ Upto(got, Len(PipeChunks), 0)
  BY ChunkFacts DEF PipeIInv, PipeTypeOK, UploadOK, poll_finish_state, NoSeq
<1>2. PipeTypeOK'
  BY <1>1 DEF PipeTypeOK, poll_finish_state, Parks, AgentAts, PipeStates, AgentStates
<1>3. UploadOK'
  BY <1>1 DEF PipeTypeOK, PipeStates, AgentStates, poll_finish_state, Parks, UploadOK, Empty
<1> QED BY <1>1, <1>2, <1>3 DEF PipeIInv, poll_finish_state

\* The reader takes some bytes, or the rest of the chunk.
LEMMA ReadStepOK ==
    ASSUME PipeIInv, read_step
    PROVE  PipeIInv'
<1>1. /\ flow = "upload" /\ UploadOK /\ PipeTypeOK
      /\ agent.at = "offered" /\ pipe.terminal = "Open" /\ pipe.retained = agent.seq
      /\ pipe.retained # NoSeq /\ agent.seq < Len(PipeChunks)
      /\ blocking.at = "read" /\ blocking.off < ChunkLen(agent.seq)
      /\ Upto(got, agent.seq, blocking.off)
      /\ ~blocking.handed
  BY DEF PipeIInv, PipeTypeOK, UploadOK, DownloadOK, read_step
<1>0. /\ blocking.off \in Nat /\ pipe.waker \in BOOLEAN
      /\ agent.seq \in 0..LastChunk /\ agent.seq \in Nat /\ ChunkLen(agent.seq) \in Nat \ {0}
  BY <1>1, ChunkFacts DEF PipeTypeOK, AgentStates, BlockingStates, PipeStates
<1>2. PICK n \in 1..(ChunkLen(pipe.retained) - blocking.off) :
       LET s == pipe.retained
           read == [pipe EXCEPT !.inFlight = s]
           whole == blocking.off + n = ChunkLen(s)
       IN /\ got' = got \o [i \in 1..n |-> <<s, blocking.off + i - 1>>]
          /\ pipe' = IF whole THEN ReadWhole(read) ELSE read
          /\ blocking' = [blocking EXCEPT !.off = IF whole THEN 0 ELSE @ + n,
                                          !.at = IF whole THEN "wake" ELSE "read",
                                          !.handed = pipe.waker /\ ~pipe'.waker]
  BY DEF read_step
<1>3. n \in Nat \ {0} /\ blocking.off + n <= ChunkLen(agent.seq)
  BY <1>0, <1>1
<1>4. UNCHANGED <<flow, agent, context, earlyPolls, confirmed>>
  BY DEF read_step
<1>5. CASE blocking.off + n = ChunkLen(agent.seq)
  <2>1. Upto(got', agent.seq + 1, 0)
    BY <1>0, <1>1, <1>2, <1>3, <1>5, UptoMore
  <2>2. /\ pipe' \in PipeStates /\ pipe'.retained = NoSeq /\ pipe'.inFlight = NoSeq
        /\ pipe'.waker = FALSE /\ pipe'.terminal = "Open"
    BY <1>0, <1>1, <1>2, <1>5, PipeSlotFacts DEF ReadWhole, PipeTypeOK, PipeStates
  <2>3. /\ blocking'.off = 0 /\ blocking'.at = "wake" /\ blocking'.handed = pipe.waker
        /\ blocking' \in BlockingStates
    <3>1. blocking' = [blocking EXCEPT !.off = 0, !.at = "wake", !.handed = pipe.waker /\ ~pipe'.waker]
      BY <1>1, <1>2, <1>5
    <3>2. (pipe.waker /\ ~pipe'.waker) = pipe.waker
      BY <1>0, <2>2
    <3>3. blocking' = [blocking EXCEPT !.off = 0, !.at = "wake", !.handed = pipe.waker]
      BY <3>1, <3>2
    <3> QED BY <1>0, <1>1, <3>3 DEF PipeTypeOK, BlockingStates, BlockingAts
  <2>4. PipeTypeOK'
    BY <1>1, <1>4, <2>2, <2>3 DEF PipeTypeOK
  <2>5. UploadOK'
    BY <1>1, <1>4, <2>1, <2>2, <2>3 DEF UploadOK, Empty
  <2> QED BY <1>1, <1>4, <2>4, <2>5 DEF PipeIInv
<1>6. CASE blocking.off + n # ChunkLen(agent.seq)
  <2>0. blocking.off + n < ChunkLen(agent.seq) /\ blocking.off + n \in Nat
    BY <1>0, <1>3, <1>6
  <2>1. Upto(got', agent.seq, blocking.off + n)
    BY <1>0, <1>1, <1>2, <1>3, <1>6, UptoMore
  <2>2. /\ pipe' \in PipeStates /\ pipe'.retained = agent.seq
        /\ pipe'.waker = pipe.waker /\ pipe'.terminal = "Open"
    BY <1>0, <1>1, <1>2, <1>6, PipeSlotFacts DEF PipeTypeOK, PipeStates
  <2>3. /\ blocking'.off = blocking.off + n /\ blocking'.at = "read" /\ blocking'.handed = FALSE
        /\ blocking' \in BlockingStates
    <3>1. blocking' = [blocking EXCEPT !.off = blocking.off + n, !.at = "read",
                                       !.handed = pipe.waker /\ ~pipe'.waker]
      BY <1>1, <1>2, <1>6
    <3>2. (pipe.waker /\ ~pipe'.waker) = FALSE
      BY <1>0, <2>2
    <3>3. blocking' = [blocking EXCEPT !.off = blocking.off + n, !.at = "read", !.handed = FALSE]
      BY <3>1, <3>2
    <3> QED BY <1>0, <1>1, <2>0, <3>3 DEF PipeTypeOK, BlockingStates, BlockingAts
  <2>4. PipeTypeOK'
    BY <1>1, <1>4, <2>2, <2>3 DEF PipeTypeOK
  <2>5. UploadOK'
    BY <1>1, <1>4, <2>0, <2>1, <2>2, <2>3 DEF UploadOK, Empty
  <2> QED BY <1>1, <1>4, <2>4, <2>5 DEF PipeIInv
<1> QED BY <1>5, <1>6

\* What an abort leaves in the pipe: nothing, unless the end had been published.
LEMMA AbortedFacts ==
    ASSUME PipeTypeOK
    PROVE  /\ aborted(pipe) \in PipeStates /\ aborted(pipe).updates = pipe.updates
           /\ pipe.terminal = "Eof" => aborted(pipe) = pipe
           /\ pipe.terminal # "Eof" =>
                /\ aborted(pipe).terminal = "Aborted" /\ ~aborted(pipe).waker
                /\ aborted(pipe).retained = NoSeq /\ aborted(pipe).inFlight = NoSeq
BY PipeSlotFacts DEF PipeTypeOK, PipeStates, aborted

\* Whatever state the pipe is in, what has come out is a beginning of the file.
LEMMA UploadPartly ==
    ASSUME PipeTypeOK, UploadOK
    PROVE  pipe.terminal # "Eof" => Partly(got, agent.seq)
<1>0. agent.seq \in Nat /\ agent.seq <= Len(PipeChunks) /\ Len(PipeChunks) \in Nat
  BY ChunkFacts DEF PipeTypeOK, AgentStates
<1>1. CASE pipe.retained # NoSeq
  <2>1. Upto(got, agent.seq, blocking.off)
    BY <1>1 DEF UploadOK
  <2> QED BY <1>0, <2>1, UptoPartly
<1>2. CASE pipe.retained = NoSeq /\ pipe.terminal = "Open"
  <2>1. CASE agent.at = "offered"
    <3>1. Upto(got, agent.seq + 1, 0) /\ agent.seq < Len(PipeChunks)
      BY <1>2, <2>1 DEF UploadOK
    <3>2. agent.seq <= agent.seq + 1 /\ agent.seq + 1 <= Len(PipeChunks)
      BY <1>0, <3>1
    <3> QED BY <1>0, <3>1, <3>2, UptoPartly
  <2>2. CASE agent.at # "offered"
    <3>1. Upto(got, agent.seq, 0)
      BY <1>2, <2>2 DEF UploadOK
    <3> QED BY <1>0, <3>1, UptoPartly
  <2> QED BY <2>1, <2>2
<1>3. CASE pipe.terminal = "Aborted"
  BY <1>3 DEF UploadOK
<1>4. pipe.terminal \in {"Open", "PublishingEof", "Eof", "Aborted"} /\ pipe.terminal # "PublishingEof"
  BY DEF PipeTypeOK, PipeStates, UploadOK
<1> QED BY <1>1, <1>2, <1>3, <1>4

\* The same for a download.
LEMMA DownloadPartly ==
    ASSUME PipeTypeOK, DownloadOK
    PROVE  pipe.terminal # "Eof" => Partly(got, blocking.seq)
<1>0. blocking.seq \in Nat /\ blocking.seq <= Len(PipeChunks) /\ Len(PipeChunks) \in Nat
  BY ChunkFacts DEF PipeTypeOK, BlockingStates
<1>1. CASE pipe.terminal = "Aborted"
  BY <1>1 DEF DownloadOK
<1>2. CASE HoldsChunk \/ pipe.retained # NoSeq
  <2>1. Upto(got, blocking.seq, 0)
    BY <1>2 DEF DownloadOK
  <2> QED BY <1>0, <2>1, UptoPartly
<1>3. CASE Empty /\ ~HoldsChunk /\ pipe.terminal # "Aborted"
  <2>1. CASE Written
    <3>1. Upto(got, blocking.seq + 1, 0) /\ blocking.seq < Len(PipeChunks)
      BY <1>3, <2>1 DEF DownloadOK, Written
    <3>2. blocking.seq <= blocking.seq + 1 /\ blocking.seq + 1 <= Len(PipeChunks)
      BY <1>0, <3>1
    <3> QED BY <1>0, <3>1, <3>2, UptoPartly
  <2>2. CASE ~Written
    <3>1. Upto(got, blocking.seq, 0)
      BY <1>3, <2>2 DEF DownloadOK
    <3> QED BY <1>0, <3>1, UptoPartly
  <2> QED BY <2>1, <2>2
<1>4. pipe.inFlight # NoSeq => HoldsChunk
  BY DEF DownloadOK
<1> QED BY <1>1, <1>2, <1>3, <1>4 DEF Empty

\* The task fails or is dropped, and aborts the pipe.
LEMMA TaskEndsOK ==
    ASSUME PipeIInv, NEW how \in {"failed", "dropped"}, TaskEnds(how),
           ~AgentEnded, agent.at \notin {"install", "complete"},
           UNCHANGED <<flow, blocking, got, confirmed>>, (context \in {"active", "ended"})',
           earlyPolls' \in Nat
    PROVE  PipeIInv'
<1>0. PipeTypeOK
  BY DEF PipeIInv
<1>1. pipe' = aborted(pipe)
  BY DEF TaskEnds
<1>2. agent' \in AgentStates /\ agent'.at = how /\ agent'.seq = agent.seq /\ ~agent'.woken
  BY <1>0 DEF TaskEnds, PipeTypeOK, AgentStates, AgentAts
<1>3. PipeTypeOK'
  BY <1>0, <1>1, <1>2, AbortedFacts DEF PipeTypeOK
<1>4. ASSUME flow = "upload" PROVE UploadOK'
  <2>1. UploadOK /\ pipe.terminal # "Eof"
    BY <1>4 DEF PipeIInv, UploadOK, AgentEnded
  <2>2. Partly(got, agent.seq)
    BY <1>0, <2>1, UploadPartly
  <2> QED BY <1>0, <1>1, <1>2, <2>1, <2>2, AbortedFacts DEF UploadOK, Empty
<1>5. ASSUME flow = "download" PROVE DownloadOK'
  <2>1. DownloadOK /\ pipe.updates = 0
    BY <1>5 DEF PipeIInv, DownloadOK
  <2>2. CASE pipe.terminal = "Eof"
    BY <1>0, <1>1, <1>2, <2>1, <2>2, AbortedFacts
    DEF DownloadOK, Empty, HoldsChunk, Written, Registered, AgentEnded
  <2>3. CASE pipe.terminal # "Eof"
    <3>1. Partly(got, blocking.seq)
      BY <1>0, <2>1, <2>3, DownloadPartly
    <3> QED
      BY <1>0, <1>1, <1>2, <2>1, <2>3, <3>1, AbortedFacts
      DEF DownloadOK, Empty, HoldsChunk, Written, Registered
  <2> QED BY <2>2, <2>3
<1> QED BY <1>3, <1>4, <1>5 DEF PipeIInv

\* The worker fails or drops its side, and wakes the task.
LEMMA GivesUpOK ==
    ASSUME PipeIInv, NEW how \in {"failed", "dropped"}, WorkerGivesUp(how),
           blocking.at \in {"read", "empty", "ack", "publish-empty", "recheck"},
           UNCHANGED <<flow, context, got, earlyPolls, confirmed>>
    PROVE  PipeIInv'
<1>0. PipeTypeOK /\ pipe.waker \in BOOLEAN /\ agent.woken \in BOOLEAN
  BY DEF PipeIInv, PipeTypeOK, PipeStates, AgentStates
<1>1. pipe' = aborted(pipe)
  BY DEF WorkerGivesUp, AbortFromOutside
<1>2. /\ agent' \in AgentStates /\ agent'.at = agent.at /\ agent'.seq = agent.seq
      /\ agent'.res = agent.res
      /\ agent'.woken = (agent.woken \/ (pipe.terminal # "Eof" /\ pipe.waker))
  <2>1. (agent.woken \/ (pipe.terminal # "Eof" /\ pipe.waker)) \in BOOLEAN
    BY <1>0
  <2>2. agent' = [agent EXCEPT !.woken = (agent.woken \/ (pipe.terminal # "Eof" /\ pipe.waker))]
    BY DEF WorkerGivesUp, AbortFromOutside, Wakes
  <2> DEFINE w == (agent.woken \/ (pipe.terminal # "Eof" /\ pipe.waker))
  <2> HIDE DEF w
  <2> QED BY <1>0, <2>1, <2>2 DEF PipeTypeOK, AgentStates, w
<1>3. /\ blocking' \in BlockingStates /\ blocking'.at = how /\ ~blocking'.handed
      /\ blocking'.seq = blocking.seq
  BY <1>0 DEF WorkerGivesUp, PipeTypeOK, BlockingStates, BlockingAts
<1>4. PipeTypeOK'
  BY <1>0, <1>1, <1>2, <1>3, AbortedFacts DEF PipeTypeOK
<1>5. ASSUME flow = "upload" PROVE UploadOK'
  <2>1. UploadOK /\ ~blocking.handed
    BY <1>5 DEF PipeIInv, UploadOK
  <2>2. CASE pipe.terminal = "Eof"
    BY <1>1, <1>2, <1>3, <2>1, <2>2, <1>0, AbortedFacts DEF UploadOK, Empty
  <2>3. CASE pipe.terminal # "Eof"
    <3>1. Partly(got, agent.seq)
      BY <1>0, <2>1, <2>3, UploadPartly
    <3> QED BY <1>0, <1>1, <1>2, <1>3, <2>1, <2>3, <3>1, AbortedFacts DEF UploadOK, Empty
  <2> QED BY <2>2, <2>3
<1>6. ASSUME flow = "download" PROVE DownloadOK'
  <2>1. DownloadOK /\ ~blocking.handed /\ pipe.terminal # "Eof"
    BY <1>6 DEF PipeIInv, DownloadOK
  <2>2. Partly(got, blocking.seq)
    BY <1>0, <2>1, DownloadPartly
  <2> QED
    BY <1>0, <1>1, <1>2, <1>3, <2>1, <2>2, AbortedFacts
    DEF DownloadOK, Empty, HoldsChunk, Written, Registered
<1>7. flow' = flow
  OBVIOUS
<1> QED BY <1>4, <1>5, <1>6, <1>7 DEF PipeIInv

\* The task is woken by something else.
LEMMA EarlyPollOK ==
    ASSUME PipeIInv, EarlyPoll
    PROVE  PipeIInv'
<1>0. PipeTypeOK
  BY DEF PipeIInv
<1>1. /\ agent' \in AgentStates /\ agent'.at = agent.at /\ agent'.seq = agent.seq
      /\ agent'.res = agent.res /\ agent'.woken
  BY <1>0 DEF EarlyPoll, PipeTypeOK, AgentStates
<1>2. earlyPolls' \in Nat
  BY <1>0 DEF EarlyPoll, PipeTypeOK
<1>3. UNCHANGED <<flow, pipe, blocking, context, got, confirmed>>
  BY DEF EarlyPoll
<1>4. PipeTypeOK'
  BY <1>0, <1>1, <1>2, <1>3 DEF PipeTypeOK
<1>5. UploadOK => UploadOK'
  BY <1>1, <1>3 DEF UploadOK, Empty
<1>6. DownloadOK => DownloadOK'
  BY <1>1, <1>3 DEF DownloadOK, Empty, HoldsChunk, Written, Registered
<1> QED BY <1>3, <1>4, <1>5, <1>6 DEF PipeIInv

\* Steps that change neither the pipe nor a side.
LEMMA ContextEndsOK ==
    ASSUME PipeIInv, UNCHANGED <<flow, pipe, agent, blocking, got, confirmed>>,
           (context \in {"active", "ended"})', earlyPolls' \in Nat
    PROVE  PipeIInv'
BY DEF PipeIInv, PipeTypeOK, UploadOK, DownloadOK, Empty, HoldsChunk, Written, Registered

\* The task finds the pipe aborted.
LEMMA PollOfAbortedOK ==
    ASSUME PipeIInv, PollOfAborted
    PROVE  PipeIInv'
<1>0. PipeTypeOK
  BY DEF PipeIInv
<1>1. /\ agent' \in AgentStates /\ agent'.at = "failed" /\ agent'.seq = agent.seq
      /\ ~agent'.woken
  BY <1>0 DEF PollOfAborted, Parks, PipeTypeOK, AgentStates, AgentAts
<1>2. UNCHANGED <<flow, pipe, blocking, context, got, earlyPolls, confirmed>>
  BY DEF PollOfAborted
<1>3. pipe.terminal = "Aborted" /\ agent.at \in {"offer", "offered", "finish", "receive"}
  BY DEF PollOfAborted
<1>4. PipeTypeOK'
  BY <1>0, <1>1, <1>2 DEF PipeTypeOK
<1>5. UploadOK => UploadOK'
  BY <1>1, <1>2, <1>3 DEF UploadOK, Empty
<1>6. DownloadOK => DownloadOK'
  BY <1>1, <1>2, <1>3 DEF DownloadOK, Empty, HoldsChunk, Written, Registered
<1> QED BY <1>2, <1>4, <1>5, <1>6 DEF PipeIInv

\* The reader finds the end of the file, or the abort.
LEMMA EmptyReadOK ==
    ASSUME PipeIInv, empty_read_step
    PROVE  PipeIInv'
<1>0. PipeTypeOK
  BY DEF PipeIInv
<1>1. /\ blocking.at = "read" /\ pipe.terminal # "Open"
      /\ UNCHANGED <<flow, pipe, agent, context, got, earlyPolls, confirmed>>
  BY DEF empty_read_step
<1>2. /\ blocking' \in BlockingStates /\ blocking'.off = blocking.off
      /\ blocking'.handed = blocking.handed
      /\ blocking'.at = IF pipe.terminal = "Eof" THEN "done" ELSE "failed"
  BY <1>0 DEF empty_read_step, PipeTypeOK, BlockingStates, BlockingAts
<1>3. flow = "upload" /\ UploadOK
  BY <1>0, <1>1 DEF PipeIInv, PipeTypeOK, DownloadOK
<1>4. PipeTypeOK'
  BY <1>0, <1>1, <1>2 DEF PipeTypeOK
<1>5. UploadOK'
  BY <1>1, <1>2, <1>3 DEF UploadOK, Empty
<1> QED BY <1>1, <1>3, <1>4, <1>5 DEF PipeIInv

\* The worker uses the waker it holds.
LEMMA WriterWakeOK ==
    ASSUME PipeIInv, wake_or_abort
    PROVE  PipeIInv'
<1>0. PipeTypeOK /\ agent.woken \in BOOLEAN /\ blocking.handed \in BOOLEAN
  BY DEF PipeIInv, PipeTypeOK, AgentStates, BlockingStates
<1>1. /\ blocking.at \in {"wake", "wake-write", "deliver"}
      /\ UNCHANGED <<flow, pipe, context, got, earlyPolls, confirmed>>
  BY DEF wake_or_abort
<1>2. /\ blocking' \in BlockingStates /\ blocking'.off = blocking.off
      /\ ~blocking'.handed /\ blocking'.seq = blocking.seq
      /\ blocking.at = "wake" => blocking'.at = "read"
      /\ blocking.at = "wake-write" => blocking'.at = "ack"
      /\ blocking.at = "deliver" => blocking'.at = "recheck"
  BY <1>0, <1>1 DEF wake_or_abort, PipeTypeOK, BlockingStates, BlockingAts
<1>3. /\ agent' \in AgentStates /\ agent'.at = agent.at /\ agent'.seq = agent.seq
      /\ agent'.res = agent.res
      /\ agent'.woken = (agent.woken \/ (blocking.handed /\ ~AgentEnded))
  <2> DEFINE w == (agent.woken \/ (blocking.handed /\ ~AgentEnded))
  <2>1. w \in BOOLEAN
    BY <1>0 DEF AgentEnded
  <2>2. agent' = [agent EXCEPT !.woken = w]
    BY DEF wake_or_abort
  <2> HIDE DEF w
  <2>3. agent' \in AgentStates /\ agent'.at = agent.at /\ agent'.seq = agent.seq
      /\ agent'.res = agent.res /\ agent'.woken = w
    BY <1>0, <2>1, <2>2 DEF PipeTypeOK, AgentStates
  <2> QED BY <2>3 DEF w
<1>4. PipeTypeOK'
  BY <1>0, <1>1, <1>2, <1>3 DEF PipeTypeOK
<1>5. ASSUME flow = "upload", UploadOK PROVE UploadOK'
  BY <1>1, <1>2, <1>3, <1>5 DEF UploadOK, Empty, AgentEnded
<1>6. ASSUME flow = "download", DownloadOK PROVE DownloadOK'
  BY <1>1, <1>2, <1>3, <1>6 DEF DownloadOK, Empty, HoldsChunk, Written, Registered, AgentEnded
<1> QED BY <1>1, <1>4, <1>5, <1>6 DEF PipeIInv

\* The writer finds the pipe empty, or aborted.
LEMMA WaitEmptyOK ==
    ASSUME PipeIInv, wait_until_empty
    PROVE  PipeIInv'
<1>0. PipeTypeOK /\ flow = "download" /\ DownloadOK
  BY DEF PipeIInv, PipeTypeOK, wait_until_empty, UploadOK
<1>1. /\ blocking.at \in {"empty", "publish-empty"}
      /\ UNCHANGED <<flow, pipe, agent, context, got, earlyPolls, confirmed>>
  BY DEF wait_until_empty
<1>2. /\ blocking' \in BlockingStates /\ blocking'.seq = blocking.seq
      /\ blocking'.handed = blocking.handed
      /\ \/ pipe.terminal = "Aborted" /\ blocking'.at = "failed"
         \/ /\ pipe.terminal = "Open" /\ Empty
            /\ blocking'.at = IF blocking.at = "empty" THEN "retain" ELSE "publish"
  BY <1>0, <1>1 DEF wait_until_empty, WriterGoes, PipeTypeOK, BlockingStates, BlockingAts
<1>3. PipeTypeOK'
  BY <1>0, <1>1, <1>2 DEF PipeTypeOK
<1>4. DownloadOK'
  BY <1>0, <1>1, <1>2 DEF DownloadOK, Empty, HoldsChunk, Written, Registered
<1> QED BY <1>0, <1>1, <1>3, <1>4 DEF PipeIInv

\* The writer puts its chunk into the pipe.
LEMMA RetainOK ==
    ASSUME PipeIInv, retain_blocking_chunk
    PROVE  PipeIInv'
<1>0. PipeTypeOK /\ flow = "download" /\ DownloadOK /\ blocking.at = "retain"
  BY DEF PipeIInv, PipeTypeOK, retain_blocking_chunk, UploadOK
<1>1. UNCHANGED <<flow, agent, context, got, earlyPolls, confirmed>>
  BY DEF retain_blocking_chunk
<1>2. CASE pipe.terminal # "Open"
  <2>1. /\ blocking' \in BlockingStates /\ blocking'.seq = blocking.seq
        /\ blocking'.handed = blocking.handed /\ blocking'.at = "failed" /\ pipe' = pipe
    BY <1>0, <1>2 DEF retain_blocking_chunk, WriterGoes, PipeTypeOK, BlockingStates, BlockingAts
  <2>2. pipe.terminal = "Aborted"
    BY <1>0, <1>2 DEF DownloadOK, PipeTypeOK, PipeStates
  <2>3. PipeTypeOK'
    BY <1>0, <1>1, <2>1 DEF PipeTypeOK
  <2>4. DownloadOK'
    BY <1>0, <1>1, <2>1, <2>2 DEF DownloadOK, Empty, HoldsChunk, Written, Registered
  <2> QED BY <1>0, <1>1, <2>3, <2>4 DEF PipeIInv
<1>3. CASE pipe.terminal = "Open"
  <2>0. blocking.seq \in 0..LastChunk /\ pipe.waker \in BOOLEAN
    BY <1>0, ChunkFacts DEF DownloadOK, PipeTypeOK, BlockingStates, PipeStates
  <2>1. /\ blocking' \in BlockingStates /\ blocking'.seq = blocking.seq
        /\ blocking'.handed = pipe.waker /\ blocking'.at = "wake-write"
    BY <1>0, <1>3, <2>0 DEF retain_blocking_chunk, PipeTypeOK, BlockingStates, BlockingAts
  <2>2. /\ pipe' \in PipeStates /\ pipe'.retained = blocking.seq /\ pipe'.inFlight = pipe.inFlight
        /\ pipe'.terminal = "Open" /\ ~pipe'.waker /\ pipe'.updates = pipe.updates
    BY <1>0, <1>3, <2>0, PipeSlotFacts DEF retain_blocking_chunk, PipeTypeOK, PipeStates
  <2>3. Empty /\ ~HoldsChunk /\ Upto(got, blocking.seq, 0)
    BY <1>0, <1>3 DEF DownloadOK, Empty, Written
  <2>4. PipeTypeOK'
    BY <1>0, <1>1, <2>1, <2>2 DEF PipeTypeOK
  <2>5. DownloadOK'
    <3>1. blocking.seq # NoSeq /\ ~blocking.handed
      BY <1>0, <2>0, PipeSlotFacts DEF DownloadOK
    <3> QED
      BY <1>0, <1>1, <1>3, <2>1, <2>2, <2>3, <3>1 DEF DownloadOK, Empty, HoldsChunk, Written, Registered
  <2> QED BY <1>0, <1>1, <2>4, <2>5 DEF PipeIInv
<1> QED BY <1>2, <1>3

\* The writer sees its chunk acknowledged.
LEMMA WaitAckOK ==
    ASSUME PipeIInv, wait_for_acknowledgement
    PROVE  PipeIInv'
<1>0. PipeTypeOK /\ flow = "download" /\ DownloadOK /\ blocking.at = "ack"
  BY DEF PipeIInv, PipeTypeOK, wait_for_acknowledgement, UploadOK
<1>1. UNCHANGED <<flow, pipe, agent, context, got, earlyPolls>>
  BY DEF wait_for_acknowledgement
<1>2. CASE pipe.terminal = "Aborted"
  <2>1. /\ blocking' \in BlockingStates /\ blocking'.seq = blocking.seq
        /\ blocking'.handed = blocking.handed /\ blocking'.at = "failed" /\ confirmed' = confirmed
    BY <1>0, <1>2
    DEF wait_for_acknowledgement, Acknowledged, WriterGoes, PipeTypeOK, BlockingStates, BlockingAts
  <2>3. PipeTypeOK'
    BY <1>0, <1>1, <2>1 DEF PipeTypeOK
  <2>4. DownloadOK'
    BY <1>0, <1>1, <1>2, <2>1 DEF DownloadOK, Empty, HoldsChunk, Written, Registered
  <2> QED BY <1>0, <1>1, <2>3, <2>4 DEF PipeIInv
<1>3. CASE pipe.terminal # "Aborted"
  <2>0. /\ Empty /\ blocking.seq \in 0..LastChunk /\ blocking.seq + 1 \in 0..Len(PipeChunks)
        /\ blocking.seq = LastChunk => blocking.seq + 1 = Len(PipeChunks)
        /\ blocking.seq # LastChunk => blocking.seq + 1 < Len(PipeChunks)
        /\ blocking.seq = (blocking.seq + 1) - 1
    BY <1>0, <1>3, ChunkFacts
    DEF wait_for_acknowledgement, Acknowledged, DownloadOK, PipeTypeOK, BlockingStates
  <2>1. /\ blocking' \in BlockingStates /\ blocking'.seq = blocking.seq + 1
        /\ blocking'.handed = blocking.handed /\ confirmed' = blocking.seq
        /\ blocking'.at = IF blocking.seq = LastChunk THEN "publish-empty" ELSE "empty"
    BY <1>0, <1>3, <2>0
    DEF wait_for_acknowledgement, Acknowledged, WriterGoes, PipeTypeOK, BlockingStates, BlockingAts
  <2>2. ~HoldsChunk /\ Upto(got, blocking.seq + 1, 0) /\ pipe.terminal = "Open"
    BY <1>0, <1>3, <2>0 DEF DownloadOK, Empty, Written, PipeTypeOK, PipeStates
  <2>3. PipeTypeOK'
    BY <1>0, <1>1, <2>1 DEF PipeTypeOK
  <2>4. DownloadOK'
    BY <1>0, <1>1, <2>0, <2>1, <2>2 DEF DownloadOK, Empty, HoldsChunk, Written, Registered
  <2> QED BY <1>0, <1>1, <2>3, <2>4 DEF PipeIInv
<1> QED BY <1>2, <1>3

\* One look at the registrations while the end is being published.
LEMMA PublishEofOK ==
    ASSUME PipeIInv, NEW p \in PipeStates, blocking.at \in {"publish", "recheck"},
           pipe.terminal \in {"Open", "PublishingEof"},
           p.terminal = "PublishingEof", p.retained = pipe.retained, p.inFlight = pipe.inFlight,
           p.waker = pipe.waker, p.updates = pipe.updates,
           publishing_finish_step(p), UNCHANGED <<flow, agent, context, got, earlyPolls, confirmed>>
    PROVE  PipeIInv'
<1>0. PipeTypeOK /\ flow = "download" /\ DownloadOK /\ pipe.waker \in BOOLEAN /\ pipe.updates \in Nat
  BY DEF PipeIInv, PipeTypeOK, PipeStates, UploadOK
<1>1. Empty /\ ~HoldsChunk /\ Upto(got, blocking.seq, 0) /\ ~blocking.handed
  BY <1>0 DEF DownloadOK, Empty, Written
<1>2. CASE pipe.updates # 0
  <2>1. /\ pipe' = p /\ blocking' \in BlockingStates /\ blocking'.at = "recheck"
        /\ blocking'.seq = blocking.seq /\ blocking'.handed = blocking.handed
    BY <1>0, <1>2 DEF publishing_finish_step, PipeTypeOK, BlockingStates, BlockingAts
  <2>2. PipeTypeOK'
    BY <1>0, <2>1 DEF PipeTypeOK
  <2>3. DownloadOK'
    BY <1>0, <1>1, <2>1 DEF DownloadOK, Empty, HoldsChunk, Written, Registered
  <2> QED BY <1>0, <2>2, <2>3 DEF PipeIInv
<1>3. CASE pipe.updates = 0 /\ pipe.waker
  <2>1. /\ blocking' \in BlockingStates /\ blocking'.at = "deliver" /\ blocking'.handed
        /\ blocking'.seq = blocking.seq
    BY <1>0, <1>3 DEF publishing_finish_step, PipeTypeOK, BlockingStates, BlockingAts
  <2>2. /\ pipe' \in PipeStates /\ pipe'.terminal = "PublishingEof" /\ pipe'.retained = pipe.retained
        /\ pipe'.inFlight = pipe.inFlight /\ pipe'.updates = pipe.updates
    BY <1>0, <1>3 DEF publishing_finish_step, PipeStates
  <2>3. PipeTypeOK'
    BY <1>0, <2>1, <2>2 DEF PipeTypeOK
  <2>4. DownloadOK'
    BY <1>0, <1>1, <2>1, <2>2 DEF DownloadOK, Empty, HoldsChunk, Written, Registered
  <2> QED BY <1>0, <2>3, <2>4 DEF PipeIInv
<1>4. CASE pipe.updates = 0 /\ ~pipe.waker
  <2>1. /\ blocking' \in BlockingStates /\ blocking'.at = "done"
        /\ blocking'.handed = blocking.handed /\ blocking'.seq = blocking.seq
    BY <1>0, <1>4 DEF publishing_finish_step, PipeTypeOK, BlockingStates, BlockingAts
  <2>2. /\ pipe' \in PipeStates /\ pipe'.terminal = "Eof" /\ pipe'.retained = pipe.retained
        /\ pipe'.inFlight = pipe.inFlight /\ pipe'.updates = pipe.updates
    BY <1>0, <1>4 DEF publishing_finish_step, PipeStates
  <2>3. PipeTypeOK'
    BY <1>0, <2>1, <2>2 DEF PipeTypeOK
  <2>4. Registered => agent.woken
    BY <1>0, <1>1, <1>4 DEF DownloadOK
  <2>5. agent.at \notin {"install", "complete"}
    BY <1>0, <1>4 DEF DownloadOK
  <2>6. DownloadOK'
    BY <1>0, <1>1, <2>1, <2>2, <2>4, <2>5 DEF DownloadOK, Empty, HoldsChunk, Written, Registered
  <2> QED BY <1>0, <2>3, <2>6 DEF PipeIInv
<1> QED BY <1>2, <1>3, <1>4

\* The writer publishes the end of the file.
LEMMA FinishDownloadOK ==
    ASSUME PipeIInv, finish
    PROVE  PipeIInv'
<1>0. PipeTypeOK /\ UNCHANGED <<flow, agent, context, got, earlyPolls, confirmed>>
  BY DEF PipeIInv, finish
<1>1. CASE blocking.at = "publish" /\ pipe.terminal = "Open"
           /\ publishing_finish_step([pipe EXCEPT !.terminal = "PublishingEof"])
  <2> DEFINE p == [pipe EXCEPT !.terminal = "PublishingEof"]
  <2>1. /\ p \in PipeStates /\ p.terminal = "PublishingEof" /\ p.retained = pipe.retained
        /\ p.inFlight = pipe.inFlight /\ p.waker = pipe.waker /\ p.updates = pipe.updates
    BY <1>0 DEF PipeTypeOK, PipeStates
  <2>2. publishing_finish_step(p)
    BY <1>1
  <2> HIDE DEF p
  <2> QED BY <1>0, <1>1, <2>1, <2>2, PublishEofOK
<1>2. CASE blocking.at = "recheck" /\ pipe.terminal = "PublishingEof" /\ publishing_finish_step(pipe)
  BY <1>0, <1>2, PublishEofOK DEF PipeTypeOK
<1>3. CASE blocking.at \in {"publish", "recheck"} /\ pipe.terminal = "Aborted"
           /\ WriterGoes("failed") /\ UNCHANGED pipe
  <2>1. /\ blocking' \in BlockingStates /\ blocking'.seq = blocking.seq
        /\ blocking'.handed = blocking.handed /\ blocking'.at = "failed"
    BY <1>0, <1>3 DEF WriterGoes, PipeTypeOK, BlockingStates, BlockingAts
  <2>2. flow = "download" /\ DownloadOK
    BY <1>0, <1>3 DEF PipeIInv, PipeTypeOK, UploadOK
  <2>3. PipeTypeOK'
    BY <1>0, <1>3, <2>1 DEF PipeTypeOK
  <2>4. DownloadOK'
    BY <1>0, <1>3, <2>1, <2>2 DEF DownloadOK, Empty, HoldsChunk, Written, Registered
  <2> QED BY <1>0, <2>2, <2>3, <2>4 DEF PipeIInv
<1> QED BY <1>1, <1>2, <1>3 DEF finish, FinishStep

\* The receiver takes the chunk out of the pipe.
LEMMA TakesOK ==
    ASSUME PipeIInv, flow = "download", pipe.retained # NoSeq,
           NEW then \in {"deliver", "complete"}, Takes(pipe.retained, then),
           then = "deliver" => agent.at = "receive", then = "complete" => agent.at = "install",
           UNCHANGED <<flow, blocking, context, got, earlyPolls, confirmed>>
    PROVE  PipeIInv'
<1>0. PipeTypeOK /\ DownloadOK
  BY DEF PipeIInv
<1>1. /\ pipe.retained = blocking.seq /\ pipe.retained \in 0..LastChunk
      /\ pipe.retained \in 0..Len(PipeChunks)
  <2>1. pipe.retained \in PipeSlot /\ pipe.retained = blocking.seq
    BY <1>0 DEF DownloadOK, PipeTypeOK, PipeStates
  <2>2. pipe.retained \in 0..LastChunk
    BY <2>1, PipeSlotFacts
  <2> QED BY <2>1, <2>2, ChunkFacts
<1>2. /\ pipe' \in PipeStates /\ pipe'.retained = NoSeq /\ pipe'.inFlight = blocking.seq
      /\ pipe'.terminal = pipe.terminal /\ pipe'.updates = pipe.updates
  BY <1>0, <1>1, PipeSlotFacts DEF Takes, PipeTypeOK, PipeStates
<1>3. agent' \in AgentStates /\ agent'.at = then /\ agent'.seq = blocking.seq /\ agent'.res = "chunk"
  BY <1>0, <1>1 DEF Takes, PipeTypeOK, AgentStates, AgentAts
<1>4. PipeTypeOK'
  BY <1>0, <1>2, <1>3 DEF PipeTypeOK
<1>5. DownloadOK'
  BY <1>0, <1>1, <1>2, <1>3, PipeSlotFacts DEF DownloadOK, Empty, HoldsChunk, Written, Registered
<1> QED BY <1>4, <1>5 DEF PipeIInv

\* The receiver polls the pipe.
LEMMA ReceiveStepOK ==
    ASSUME PipeIInv, receive_poll_step
    PROVE  PipeIInv'
<1>0. /\ PipeTypeOK /\ flow = "download" /\ DownloadOK /\ agent.at = "receive"
      /\ UNCHANGED <<flow, blocking, context, got, earlyPolls, confirmed>>
  BY DEF PipeIInv, receive_poll_step
<1>1. CASE pipe.retained # NoSeq
  <2>1. Takes(pipe.retained, "deliver")
    BY <1>0, <1>1 DEF receive_poll_step, DownloadOK
  <2> QED BY <1>0, <1>1, <2>1, TakesOK
<1>2. CASE pipe.retained = NoSeq /\ pipe.terminal = "Eof"
  <2>1. Sees("eof", "done")
    BY <1>0, <1>2 DEF receive_poll_step
  <2>2. agent' \in AgentStates /\ agent'.at = "done" /\ agent'.res = "eof" /\ pipe' = pipe
    BY <1>0, <2>1 DEF Sees, PipeTypeOK, AgentStates, AgentAts
  <2>3. PipeTypeOK'
    BY <1>0, <2>2 DEF PipeTypeOK
  <2>4. DownloadOK'
    BY <1>0, <1>2, <2>2 DEF DownloadOK, Empty, HoldsChunk, Written, Registered
  <2> QED BY <1>0, <2>3, <2>4 DEF PipeIInv
<1>3. CASE pipe.retained = NoSeq /\ pipe.terminal \in {"Open", "PublishingEof"}
  <2>1. /\ pipe' = [pipe EXCEPT !.updates = @ + 1]
        /\ agent' = [agent EXCEPT !.at = "install", !.woken = FALSE]
    BY <1>0, <1>3 DEF receive_poll_step
  <2>2. /\ pipe' \in PipeStates /\ pipe'.retained = NoSeq /\ pipe'.inFlight = pipe.inFlight
        /\ pipe'.terminal = pipe.terminal /\ pipe'.updates = 1
    BY <1>0, <1>3, <2>1 DEF PipeTypeOK, PipeStates, DownloadOK
  <2>3. agent' \in AgentStates /\ agent'.at = "install"
    BY <1>0, <2>1 DEF PipeTypeOK, AgentStates, AgentAts
  <2>4. PipeTypeOK'
    BY <1>0, <2>2, <2>3 DEF PipeTypeOK
  <2>5. DownloadOK'
    BY <1>0, <1>3, <2>2, <2>3 DEF DownloadOK, Empty, HoldsChunk, Written, Registered
  <2> QED BY <1>0, <2>4, <2>5 DEF PipeIInv
<1>4. CASE pipe.retained = NoSeq /\ pipe.terminal = "Aborted"
  BY <1>0, <1>4 DEF receive_poll_step
<1> QED BY <1>0, <1>1, <1>2, <1>3, <1>4 DEF PipeTypeOK, PipeStates

\* The receiver registers its waker, and looks again.
LEMMA InstallOK ==
    ASSUME PipeIInv, install_receiver_waker
    PROVE  PipeIInv'
<1>0. /\ PipeTypeOK /\ flow = "download" /\ DownloadOK /\ agent.at = "install"
      /\ UNCHANGED <<flow, blocking, context, got, earlyPolls, confirmed>>
  BY DEF PipeIInv, PipeTypeOK, UploadOK, install_receiver_waker
<1>1. CASE pipe.retained # NoSeq
  <2>1. Takes(pipe.retained, "complete")
    BY <1>0, <1>1 DEF install_receiver_waker
  <2> QED BY <1>0, <1>1, <2>1, TakesOK
<1>2. CASE pipe.retained = NoSeq /\ pipe.terminal = "Aborted"
  <2>1. Sees("error", "complete")
    BY <1>0, <1>2 DEF install_receiver_waker
  <2>2. agent' \in AgentStates /\ agent'.at = "complete" /\ agent'.res = "error" /\ pipe' = pipe
    BY <1>0, <2>1 DEF Sees, PipeTypeOK, AgentStates, AgentAts
  <2>3. PipeTypeOK'
    BY <1>0, <2>2 DEF PipeTypeOK
  <2>4. DownloadOK'
    BY <1>0, <1>2, <2>2 DEF DownloadOK, Empty, HoldsChunk, Written, Registered
  <2> QED BY <1>0, <2>3, <2>4 DEF PipeIInv
<1>3. CASE pipe.retained = NoSeq /\ pipe.terminal # "Aborted"
  <2>1. /\ pipe' = [pipe EXCEPT !.waker = TRUE]
        /\ agent' = [agent EXCEPT !.at = "complete", !.res = "pending"]
    BY <1>0, <1>3 DEF install_receiver_waker
  <2>2. /\ pipe' \in PipeStates /\ pipe'.retained = NoSeq /\ pipe'.inFlight = pipe.inFlight
        /\ pipe'.terminal = pipe.terminal /\ pipe'.updates = pipe.updates /\ pipe'.waker
    BY <1>0, <1>3, <2>1 DEF PipeTypeOK, PipeStates
  <2>3. agent' \in AgentStates /\ agent'.at = "complete" /\ agent'.res = "pending"
    BY <1>0, <2>1 DEF PipeTypeOK, AgentStates, AgentAts
  <2>4. PipeTypeOK'
    BY <1>0, <2>2, <2>3 DEF PipeTypeOK
  <2>5. pipe.terminal \in {"Open", "PublishingEof"}
    BY <1>0, <1>3 DEF PipeTypeOK, PipeStates, DownloadOK
  <2>6. DownloadOK'
    BY <1>0, <1>3, <2>2, <2>3, <2>5 DEF DownloadOK, Empty, HoldsChunk, Written, Registered
  <2> QED BY <1>0, <2>4, <2>6 DEF PipeIInv
<1> QED BY <1>1, <1>2, <1>3

\* The registration ends.
LEMMA CompleteWakerOK ==
    ASSUME PipeIInv, complete_receiver_waker_update
    PROVE  PipeIInv'
<1>0. /\ PipeTypeOK /\ flow = "download" /\ DownloadOK /\ agent.at = "complete"
      /\ UNCHANGED <<flow, blocking, context, got, earlyPolls, confirmed>>
  BY DEF PipeIInv, PipeTypeOK, UploadOK, complete_receiver_waker_update
<1>1. agent.res \in {"chunk", "error", "pending"} /\ pipe.updates = 1 /\ agent.woken \in BOOLEAN
  BY <1>0 DEF DownloadOK, PipeTypeOK, AgentStates
<1>2. /\ pipe' \in PipeStates /\ pipe'.retained = pipe.retained /\ pipe'.inFlight = pipe.inFlight
      /\ pipe'.terminal = pipe.terminal /\ pipe'.updates = 0 /\ pipe'.waker = pipe.waker
  BY <1>0, <1>1 DEF complete_receiver_waker_update, PipeTypeOK, PipeStates
<1>3. /\ agent' \in AgentStates /\ agent'.seq = agent.seq
      /\ agent.res = "chunk" => agent'.at = "deliver"
      /\ agent.res = "error" => agent'.at = "failed"
      /\ agent.res = "pending" => agent'.at = "receive" /\ agent'.woken = agent.woken
  <2> DEFINE w == agent.res = "chunk" \/ (agent.woken /\ agent.res # "error")
             at == CASE agent.res = "chunk" -> "deliver"
                     [] agent.res = "error" -> "failed"
                     [] agent.res = "pending" -> "receive"
  <2>1. w \in BOOLEAN /\ (agent.res = "pending" => w = agent.woken)
    BY <1>1
  <2>2. /\ at \in AgentAts
        /\ agent.res = "chunk" => at = "deliver"
        /\ agent.res = "error" => at = "failed"
        /\ agent.res = "pending" => at = "receive"
    BY <1>1 DEF AgentAts
  <2>3. agent' = [agent EXCEPT !.at = at, !.woken = w]
    BY DEF complete_receiver_waker_update
  <2> HIDE DEF w, at
  <2> QED BY <1>0, <1>1, <2>1, <2>2, <2>3 DEF PipeTypeOK, AgentStates
<1>4. PipeTypeOK'
  BY <1>0, <1>2, <1>3 DEF PipeTypeOK
<1>5. DownloadOK'
  BY <1>0, <1>1, <1>2, <1>3 DEF DownloadOK, Empty, HoldsChunk, Written, Registered
<1> QED BY <1>0, <1>4, <1>5 DEF PipeIInv

\* The sink has the chunk and the receiver acknowledges it.
LEMMA AcknowledgeOK ==
    ASSUME PipeIInv, acknowledge
    PROVE  PipeIInv'
<1>0. /\ PipeTypeOK /\ flow = "download" /\ DownloadOK /\ agent.at = "deliver" /\ HoldsChunk
      /\ UNCHANGED <<flow, blocking, context, earlyPolls, confirmed>>
  BY DEF PipeIInv, PipeTypeOK, UploadOK, acknowledge, HoldsChunk
<1>1. /\ agent.seq = blocking.seq /\ blocking.seq \in 0..LastChunk /\ Upto(got, blocking.seq, 0)
      /\ blocking.seq \in Nat /\ blocking.seq + 1 <= Len(PipeChunks)
      /\ ChunkLen(blocking.seq) \in Nat \ {0} /\ pipe.retained = NoSeq
  BY <1>0, ChunkFacts DEF DownloadOK, PipeTypeOK, BlockingStates
<1>2. Upto(got', blocking.seq + 1, 0)
  <2> DEFINE m == ChunkLen(blocking.seq)
  <2>1. [i \in 1..m |-> <<blocking.seq, i - 1>>] = [i \in 1..m |-> <<blocking.seq, 0 + i - 1>>]
    <3>1. \A i \in 1..m : i - 1 = 0 + i - 1
      BY <1>1
    <3> QED BY <3>1
  <2>2. Upto(got \o [i \in 1..m |-> <<blocking.seq, 0 + i - 1>>], blocking.seq + 1, 0)
    <3>1. m \in Nat \ {0} /\ 0 + m = m /\ 0 + m <= m /\ 0 \in Nat
      BY <1>1
    <3> QED BY <1>1, <3>1, UptoMore
  <2> QED BY <1>1, <2>1, <2>2 DEF acknowledge
<1>3. CASE pipe.terminal = "Open"
  <2>1. pipe.inFlight = agent.seq /\ pipe.retained = NoSeq /\ Written
    BY <1>0, <1>1, <1>3 DEF DownloadOK
  <2>2. /\ pipe' = [pipe EXCEPT !.inFlight = NoSeq, !.waker = FALSE]
        /\ agent' = [agent EXCEPT !.at = "receive", !.woken = TRUE]
    BY <2>1 DEF acknowledge
  <2>3. /\ pipe' \in PipeStates /\ pipe'.retained = NoSeq /\ pipe'.inFlight = NoSeq
        /\ pipe'.terminal = "Open" /\ pipe'.updates = pipe.updates
    BY <1>0, <1>3, <2>1, <2>2, PipeSlotFacts DEF PipeTypeOK, PipeStates
  <2>4. agent' \in AgentStates /\ agent'.at = "receive" /\ agent'.woken
    BY <1>0, <2>2 DEF PipeTypeOK, AgentStates, AgentAts
  <2>5. PipeTypeOK'
    BY <1>0, <2>3, <2>4 DEF PipeTypeOK
  <2>6. DownloadOK'
    BY <1>0, <1>2, <1>3, <2>1, <2>3, <2>4 DEF DownloadOK, Empty, HoldsChunk, Written, Registered
  <2> QED BY <1>0, <2>5, <2>6 DEF PipeIInv
<1>4. CASE pipe.terminal = "Aborted"
  <2>1. pipe.inFlight = NoSeq
    BY <1>0, <1>4 DEF DownloadOK
  <2>2. agent.seq # NoSeq
    BY <1>1, PipeSlotFacts
  <2>3. TaskEnds("failed")
    BY <2>1, <2>2 DEF acknowledge
  <2>4. agent' \in AgentStates /\ agent'.at = "failed"
    BY <1>0, <2>3 DEF TaskEnds, PipeTypeOK, AgentStates, AgentAts
  <2>5. /\ pipe' \in PipeStates /\ pipe'.retained = NoSeq /\ pipe'.inFlight = NoSeq
        /\ pipe'.terminal = "Aborted" /\ pipe'.updates = pipe.updates
    BY <1>0, <1>4, <2>3, AbortedFacts DEF TaskEnds
  <2>6. Partly(got', blocking.seq)
    <3>1. blocking.seq <= blocking.seq + 1
      BY <1>1
    <3> QED BY <1>1, <1>2, <3>1, UptoPartly
  <2>7. PipeTypeOK'
    BY <1>0, <2>4, <2>5 DEF PipeTypeOK
  <2>8. DownloadOK'
    BY <1>0, <1>4, <2>4, <2>5, <2>6 DEF DownloadOK, Empty, HoldsChunk, Written, Registered
  <2> QED BY <1>0, <2>7, <2>8 DEF PipeIInv
<1> QED BY <1>0, <1>3, <1>4 DEF DownloadOK

\* Every step of the pipe preserves the invariant.
LEMMA PipeStepOK == PipeIInv /\ [PipeNext]_pipeVars => PipeIInv'
<1> SUFFICES ASSUME PipeIInv, [PipeNext]_pipeVars PROVE PipeIInv'
  OBVIOUS
<1>0. context \in {"active", "ended"} /\ earlyPolls \in Nat
  BY DEF PipeIInv, PipeTypeOK
<1>1. CASE PollInEndedContext
  BY <1>0, <1>1, TaskEndsOK DEF PollInEndedContext
<1>2. CASE DropAgent
  BY <1>0, <1>2, TaskEndsOK DEF DropAgent
<1>3. CASE LoopInEndedContext
  BY <1>3, GivesUpOK DEF LoopInEndedContext
<1>4. CASE DropBlocking
  BY <1>4, GivesUpOK DEF DropBlocking
<1>5. CASE ContextEnds
  BY <1>0, <1>5, ContextEndsOK DEF ContextEnds
<1>6. CASE UNCHANGED pipeVars
  BY <1>0, <1>6, ContextEndsOK DEF pipeVars
<1>7. CASE AgentStep
  BY <1>7, <1>1, BeginOfferOK, FinishOfferOK, FinishUploadOK, ReceiveStepOK, InstallOK,
     CompleteWakerOK, AcknowledgeOK, PollOfAbortedOK DEF AgentStep
<1>8. CASE BlockingStep
  BY <1>8, <1>3, ReadStepOK, EmptyReadOK, WriterWakeOK, WaitEmptyOK, RetainOK, WaitAckOK, FinishDownloadOK
  DEF BlockingStep
<1> QED BY <1>2, <1>4, <1>5, <1>6, <1>7, <1>8, EarlyPollOK DEF PipeNext

\* The invariant holds in every reachable state of the pipe.
LEMMA PipeInvariant == PipeSpec => []PipeIInv
<1> QED BY PipeStarts, PipeStepOK, PTL DEF PipeSpec

\* The invariant says that the pipe delivers and loses no wake-up.
LEMMA PipeIsFaithful == PipeIInv => PipeDelivers
<1> SUFFICES ASSUME PipeIInv PROVE PipeDelivers
  OBVIOUS
<1>0. PipeTypeOK /\ agent.seq \in Nat /\ blocking.seq \in Nat
  BY ChunkFacts DEF PipeIInv, PipeTypeOK, AgentStates, BlockingStates
<1>1. ASSUME NEW n \in Nat, n <= Len(PipeChunks), Upto(got, n, 0)
      PROVE  Due(Len(got)) = <<n, 0>>
  BY <1>1 DEF Upto, Due
<1>2. Len(PipeChunks) \in Nat /\ Len(PipeChunks) <= Len(PipeChunks)
  BY ChunkFacts
<1>3. CASE flow = "upload"
  <2>1. UploadOK
    BY <1>3 DEF PipeIInv
  <2>2. Partly(got, agent.seq)
    <3>1. pipe.terminal = "Eof" => Upto(got, Len(PipeChunks), 0) /\ agent.seq <= Len(PipeChunks)
      BY <1>0, <1>2, <2>1 DEF UploadOK
    <3> QED BY <1>0, <1>2, <2>1, <3>1, UploadPartly, UptoPartly
  <2>3. blocking.at = "done" => Due(Len(got)) = <<Len(PipeChunks), 0>>
    BY <1>1, <1>2, <2>1 DEF UploadOK
  <2>4. confirmed = agent.seq - 1
    BY <2>1 DEF UploadOK
  <2>5. PipeDeliversInOrder
    BY <1>0, <1>3, <2>2, <2>3, <2>4, PartlyInOrder DEF PipeDeliversInOrder
  <2>6. PipeNoLostWakeup
    BY <2>1 DEF UploadOK, PipeNoLostWakeup, TaskHasWork
  <2> QED BY <2>5, <2>6 DEF PipeDelivers
<1>4. CASE flow = "download"
  <2>1. DownloadOK
    BY <1>4 DEF PipeIInv
  <2>0. pipe.terminal = "Eof" => Upto(got, Len(PipeChunks), 0) /\ blocking.seq = Len(PipeChunks)
    BY <2>1 DEF DownloadOK, Empty, Written
  <2>2. Partly(got, blocking.seq)
    BY <1>0, <1>2, <2>0, <2>1, DownloadPartly, UptoPartly
  <2>3. agent.at = "done" => Due(Len(got)) = <<Len(PipeChunks), 0>>
    BY <1>1, <1>2, <2>0, <2>1 DEF DownloadOK
  <2>4. confirmed = blocking.seq - 1
    BY <2>1 DEF DownloadOK
  <2>5. PipeDeliversInOrder
    BY <1>0, <1>4, <2>2, <2>3, <2>4, PartlyInOrder DEF PipeDeliversInOrder
  <2>6. PipeNoLostWakeup
    BY <2>1 DEF DownloadOK, PipeNoLostWakeup, TaskHasWork, Registered
  <2> QED BY <2>5, <2>6 DEF PipeDelivers
<1> QED BY <1>0, <1>3, <1>4 DEF PipeTypeOK

\* For chunks of any number and any lengths: the bytes come out of the pipe in
\* order, each once, a chunk that offer or write has confirmed has come out whole,
\* a side that sees the end of the file has all of it, and no task sleeps while
\* the pipe has something for it, however polls, drops, aborts and the end of the
\* request fall among the steps of the two sides.
THEOREM PipeDeliversAll == PipeSpec => []PipeDelivers
<1> QED BY PipeInvariant, PipeIsFaithful, PTL
-----------------------------------------------------------------------------
(* StreamDelivery: the relay budget of the stream dispatcher.              *)

Stages == {"idle", "permit", "called", "started", "body", "refused", "gone"}
RelayPlaces == {"none", "loop", "wait", "publish", "exited"}
Managers == [unhealthy : BOOLEAN, shutdown : BOOLEAN, active : Int, handles : SUBSET Streams]

\* The dispatches that have a permit and no relay yet.
Waiting == {s \in Streams : stage[s] \in {"permit", "called"}}

\* The fields the admission of relays depends on.
RelayTypeOK ==
  /\ stage \in [Streams -> Stages]
  /\ DOMAIN relay = Streams /\ relay = [s \in Streams |-> relay[s]]
  /\ \A s \in Streams : /\ relay[s] = [at |-> relay[s].at, event |-> relay[s].event,
                                       exit |-> relay[s].exit]
                        /\ relay[s].at \in RelayPlaces
  /\ manager \in Managers

\* A relay is registered from its start until it is reaped, never before.
RelaysAreRegistered ==
  /\ \A s \in Streams : Relaying(s) => s \in manager.handles
  /\ \A s \in manager.handles : relay[s].at # "none"
  /\ \A s \in Streams : stage[s] \in {"idle", "permit", "called"} => relay[s].at = "none"

\* The counter of the manager is the number of permits in use.
PermitsAreCounted ==
  /\ IsFiniteSet(Waiting) /\ IsFiniteSet(manager.handles)
  /\ manager.active = Cardinality(Waiting) + Cardinality(manager.handles)
  /\ manager.active <= MaxActiveRelays

RelayInv == RelayTypeOK /\ RelaysAreRegistered /\ PermitsAreCounted

\* What reaping leaves: the relays whose thread has not ended.
LEMMA Reaping ==
  ASSUME RelayInv
  PROVE  /\ reap_finished \in Managers
         /\ reap_finished.handles = {s \in Streams : Relaying(s)}
         /\ IsFiniteSet(reap_finished.handles)
         /\ reap_finished.active = Cardinality(Waiting) + Cardinality(reap_finished.handles)
         /\ reap_finished.active <= MaxActiveRelays
         /\ reap_finished.active \in Nat
<1> DEFINE finished == {h \in manager.handles : relay[h].at = "exited"}
           bad == \E h \in finished : relay[h].exit = "Unhealthy"
           m == [manager EXCEPT !.handles = @ \ finished, !.active = @ - Cardinality(finished),
                                !.unhealthy = @ \/ bad, !.shutdown = @ \/ bad]
<1>1. reap_finished = m
  BY DEF reap_finished
<1> HIDE DEF bad
<1>2. IsFiniteSet(finished) /\ Cardinality(finished) \in Nat
  BY FS_Subset, FS_CardinalityType DEF RelayInv, PermitsAreCounted
<1>3. /\ m.handles = manager.handles \ finished
      /\ m.active = manager.active - Cardinality(finished)
      /\ m \in Managers
  <2>1. (manager.unhealthy \/ bad) \in BOOLEAN /\ (manager.shutdown \/ bad) \in BOOLEAN
    OBVIOUS
  <2>2. Cardinality(finished) \in Int
    BY <1>2
  <2> HIDE DEF finished
  <2>3. manager \in Managers
    BY DEF RelayInv, RelayTypeOK
  <2> DEFINE u == manager.unhealthy \/ bad
             d == manager.shutdown \/ bad
             hs == manager.handles \ finished
             n == manager.active - Cardinality(finished)
  <2>4. m = [manager EXCEPT !.handles = hs, !.active = n, !.unhealthy = u, !.shutdown = d]
    OBVIOUS
  <2>5. u \in BOOLEAN /\ d \in BOOLEAN /\ hs \in SUBSET Streams /\ n \in Int
    BY <2>1, <2>2, <2>3 DEF Managers
  <2> HIDE DEF u, d, hs, n, m
  <2>6. /\ m \in Managers
        /\ m.handles = hs /\ m.active = n
    BY <2>3, <2>4, <2>5 DEF Managers
  <2> QED BY <2>6 DEF hs, n
<1>4. Cardinality(manager.handles \ finished) = Cardinality(manager.handles) - Cardinality(finished)
      /\ IsFiniteSet(manager.handles \ finished)
      /\ Cardinality(manager.handles \ finished) \in Nat
  <2>1. manager.handles \cap finished = finished
    OBVIOUS
  <2>2. IsFiniteSet(manager.handles)
    BY DEF RelayInv, PermitsAreCounted
  <2> HIDE DEF finished
  <2>3. QED BY <2>1, <2>2, <1>2, FS_Difference, FS_CardinalityType
<1>5. manager.handles \ finished = {s \in Streams : Relaying(s)}
  BY DEF RelayInv, RelayTypeOK, Managers, RelaysAreRegistered, Relaying, RelayPlaces
<1>6. Cardinality(Waiting) \in Nat /\ Cardinality(manager.handles) \in Nat
  BY FS_CardinalityType DEF RelayInv, PermitsAreCounted
<1>7. manager.active = Cardinality(Waiting) + Cardinality(manager.handles)
      /\ manager.active <= MaxActiveRelays
  BY DEF RelayInv, PermitsAreCounted
<1> HIDE DEF finished, m
<1> QED BY <1>1, <1>2, <1>3, <1>4, <1>5, <1>6, <1>7, StreamAssumption DEF StreamAssumption

\* The holders of a permit, once the finished relays are reaped.
LEMMA HoldersAreCounted ==
  ASSUME RelayInv
  PROVE  Cardinality(Admitted) = reap_finished.active
<1>1. Admitted = Waiting \cup reap_finished.handles
  BY Reaping DEF Admitted, Waiting
<1>2. Waiting \cap reap_finished.handles = {}
  BY Reaping DEF Waiting, RelayInv, RelaysAreRegistered, Relaying
<1>3. IsFiniteSet(Waiting) /\ IsFiniteSet(reap_finished.handles)
  BY Reaping DEF RelayInv, PermitsAreCounted
<1>4. Cardinality(Waiting \cup reap_finished.handles)
        = Cardinality(Waiting) + Cardinality(reap_finished.handles)
  <2>1. Cardinality(Waiting \cup reap_finished.handles)
          = Cardinality(Waiting) + Cardinality(reap_finished.handles) - Cardinality({})
    BY <1>2, <1>3, FS_Union
  <2>2. Cardinality(Waiting) \in Nat /\ Cardinality(reap_finished.handles) \in Nat
    BY <1>3, FS_CardinalityType
  <2> QED BY <2>1, <2>2, FS_EmptySet
<1> QED BY <1>1, <1>4, Reaping

-----------------------------------------------------------------------------
(* Steps of a dispatch *)

\* What a dispatch may go on from: the manager, before or after the reaping.
Sound(m) ==
  /\ m \in Managers
  /\ IsFiniteSet(m.handles) /\ Cardinality(m.handles) \in Nat
  /\ IsFiniteSet(Waiting) /\ Cardinality(Waiting) \in Nat
  /\ \A s \in Streams : Relaying(s) => s \in m.handles
  /\ \A s \in m.handles : relay[s].at # "none"
  /\ m.active = Cardinality(Waiting) + Cardinality(m.handles)
  /\ m.active <= MaxActiveRelays

LEMMA ManagersAreSound ==
  ASSUME RelayInv
  PROVE  Sound(manager) /\ Sound(reap_finished)
<1>1. Sound(manager)
  BY FS_CardinalityType
  DEF Sound, RelayInv, RelayTypeOK, RelaysAreRegistered, PermitsAreCounted, Managers
<1>2. Sound(reap_finished)
  BY <1>1, Reaping, FS_CardinalityType DEF Sound, Managers, Relaying
<1> QED BY <1>1, <1>2

\* A permit is taken.
LEMMA Acquires ==
  ASSUME RelayInv, NEW m, Sound(m), m.active < MaxActiveRelays,
         NEW s \in Streams, stage[s] = "idle", stage' = [stage EXCEPT ![s] = "permit"],
         manager' = [m EXCEPT !.active = @ + 1], UNCHANGED relay
  PROVE  RelayInv'
<1>1. stage' \in [Streams -> Stages]
  BY DEF RelayInv, RelayTypeOK, Stages
<1>2. manager' \in Managers /\ manager'.handles = m.handles /\ manager'.active = m.active + 1
  BY DEF Sound, Managers
<1>3. RelayTypeOK'
  BY <1>1, <1>2 DEF RelayInv, RelayTypeOK, Managers
<1>4. Waiting' = Waiting \cup {s} /\ s \notin Waiting
  BY DEF Waiting, RelayInv, RelayTypeOK
<1>5. RelaysAreRegistered'
  BY <1>2 DEF Sound, RelayInv, RelaysAreRegistered, RelayTypeOK, Relaying
<1>6. IsFiniteSet(Waiting') /\ Cardinality(Waiting') = Cardinality(Waiting) + 1
  BY <1>4, FS_AddElement DEF Sound
<1>7. PermitsAreCounted'
  BY <1>2, <1>6, StreamAssumption DEF Sound, PermitsAreCounted, StreamAssumption, Managers
<1> QED BY <1>3, <1>5, <1>7 DEF RelayInv

\* A request without a permit is refused, or one with a permit goes on.
LEMMA Passes ==
  ASSUME RelayInv, NEW m, Sound(m), NEW s \in Streams, NEW x,
         \/ stage[s] = "idle" /\ x = "refused"
         \/ stage[s] = "permit" /\ x = "called",
         stage' = [stage EXCEPT ![s] = x], manager' = m, UNCHANGED relay
  PROVE  RelayInv'
<1>1. stage' \in [Streams -> Stages]
  BY DEF RelayInv, RelayTypeOK, Stages
<1>3. RelayTypeOK'
  BY <1>1 DEF RelayInv, RelayTypeOK, Managers, Sound
<1>4. Waiting' = Waiting
  BY DEF Waiting, RelayInv, RelayTypeOK
<1>5. RelaysAreRegistered'
  BY DEF Sound, RelayInv, RelaysAreRegistered, RelayTypeOK, Relaying
<1>7. PermitsAreCounted'
  BY <1>4 DEF Sound, PermitsAreCounted
<1> QED BY <1>3, <1>5, <1>7 DEF RelayInv

LEMMA WaitingShrinks ==
  ASSUME NEW S, IsFiniteSet(S), NEW s \in S
  PROVE  IsFiniteSet(S \ {s}) /\ Cardinality(S \ {s}) = Cardinality(S) - 1
BY FS_RemoveElement

\* A permit is given back.
LEMMA GivesUp ==
  ASSUME RelayInv, NEW m, Sound(m), NEW s \in Streams, NEW x \in {"refused", "gone"},
         stage[s] \in {"permit", "called"},
         stage' = [stage EXCEPT ![s] = x], manager' = Release(m), UNCHANGED relay
  PROVE  RelayInv'
<1>1. stage' \in [Streams -> Stages]
  BY DEF RelayInv, RelayTypeOK, Stages
<1>2. manager' \in Managers /\ manager'.handles = m.handles /\ manager'.active = m.active - 1
  BY DEF Sound, Managers, Release
<1>3. RelayTypeOK'
  BY <1>1, <1>2 DEF RelayInv, RelayTypeOK, Managers
<1>4. Waiting' = Waiting \ {s} /\ s \in Waiting
  BY DEF Waiting, RelayInv, RelayTypeOK
<1>5. RelaysAreRegistered'
  BY <1>2 DEF Sound, RelayInv, RelaysAreRegistered, RelayTypeOK, Relaying
<1>6. IsFiniteSet(Waiting') /\ Cardinality(Waiting') = Cardinality(Waiting) - 1
  BY <1>4, WaitingShrinks DEF Sound
<1>7. PermitsAreCounted'
  BY <1>2, <1>6, StreamAssumption DEF Sound, PermitsAreCounted, StreamAssumption, Managers
<1> QED BY <1>3, <1>5, <1>7 DEF RelayInv

\* The permit of a dispatch becomes its relay's.
LEMMA Registers ==
  ASSUME RelayInv, NEW m, Sound(m), NEW s \in Streams, stage[s] = "called",
         stage' = [stage EXCEPT ![s] = "started"], relay' = [relay EXCEPT ![s].at = "loop"],
         manager' = [m EXCEPT !.handles = @ \cup {s}]
  PROVE  RelayInv'
<1>1. stage' \in [Streams -> Stages]
  BY DEF RelayInv, RelayTypeOK, Stages
<1>2. manager' \in Managers /\ manager'.handles = m.handles \cup {s} /\ manager'.active = m.active
  BY DEF Sound, Managers
<1>3. /\ \A t \in Streams \ {s} : relay'[t] = relay[t]
      /\ relay'[s] = [at |-> "loop", event |-> relay[s].event, exit |-> relay[s].exit]
      /\ DOMAIN relay' = Streams /\ relay' = [t \in Streams |-> relay'[t]]
  BY DEF RelayInv, RelayTypeOK
<1>4. RelayTypeOK'
  BY <1>1, <1>2, <1>3 DEF RelayInv, RelayTypeOK, Managers, RelayPlaces
<1>5. Waiting' = Waiting \ {s} /\ s \in Waiting
  BY DEF Waiting, RelayInv, RelayTypeOK
<1>6. RelaysAreRegistered'
  <2>1. \A t \in Streams \ {s} : relay'[t].at = relay[t].at /\ stage'[t] = stage[t]
    BY <1>3 DEF RelayInv, RelayTypeOK
  <2>2. relay'[s].at = "loop" /\ stage'[s] = "started"
    BY <1>3 DEF RelayInv, RelayTypeOK
  <2>3. \A t \in Streams : Relaying(t)' => t \in manager'.handles
    BY <2>1, <1>2 DEF Sound, Relaying
  <2>4. \A t \in manager'.handles : relay'[t].at # "none"
    <3>1. m.handles \subseteq Streams
      BY DEF Sound, Managers
    <3> QED BY <3>1, <2>1, <2>2, <1>2 DEF Sound
  <2>5. \A t \in Streams : stage'[t] \in {"idle", "permit", "called"} => relay'[t].at = "none"
    BY <2>1, <2>2 DEF RelayInv, RelaysAreRegistered
  <2> QED BY <2>3, <2>4, <2>5 DEF RelaysAreRegistered
<1>7. IsFiniteSet(Waiting') /\ Cardinality(Waiting') = Cardinality(Waiting) - 1
  BY <1>5, WaitingShrinks DEF Sound
<1>8. s \notin m.handles
  BY DEF Sound, RelayInv, RelaysAreRegistered
<1>9. IsFiniteSet(manager'.handles) /\ Cardinality(manager'.handles) = Cardinality(m.handles) + 1
  BY <1>2, <1>8, FS_AddElement DEF Sound
<1>10. PermitsAreCounted'
  BY <1>2, <1>7, <1>9 DEF Sound, PermitsAreCounted, Managers
<1> QED BY <1>4, <1>6, <1>10 DEF RelayInv

-----------------------------------------------------------------------------
(* Every other step *)

\* A step that neither takes nor gives back a permit.
LEMMA KeepsHolders ==
  ASSUME RelayInv, RelayTypeOK',
         manager'.handles = manager.handles, manager'.active = manager.active,
         \A s \in Streams : /\ stage'[s] = stage[s]
                               \/ {stage[s], stage'[s]} \cap {"idle", "permit", "called"} = {}
                            /\ \/ relay'[s].at = relay[s].at
                               \/ (Relaying(s) /\ relay'[s].at # "none")
  PROVE  RelayInv'
<1>1. Waiting' = Waiting
  BY DEF Waiting
<1>2. PermitsAreCounted'
  BY <1>1 DEF RelayInv, PermitsAreCounted
<1>3. RelaysAreRegistered'
  BY DEF RelayInv, RelayTypeOK, Managers, RelaysAreRegistered, Relaying
<1> QED BY <1>2, <1>3 DEF RelayInv

\* A relay goes from one place to another.
LEMMA RelayMoves ==
  ASSUME RelayInv, NEW s \in Streams, NEW r, NEW a \in RelayPlaces \ {"none"}, Relaying(s),
         NEW e, NEW x, r = [at |-> a, event |-> e, exit |-> x],
         relay' = [relay EXCEPT ![s] = r], UNCHANGED stage,
         manager' \in Managers, manager'.handles = manager.handles, manager'.active = manager.active
  PROVE  RelayInv'
<1>1. /\ \A t \in Streams \ {s} : relay'[t] = relay[t]
      /\ relay'[s] = r
      /\ DOMAIN relay' = Streams /\ relay' = [t \in Streams |-> relay'[t]]
  BY DEF RelayInv, RelayTypeOK
<1>2. r.at = a /\ r = [at |-> r.at, event |-> r.event, exit |-> r.exit]
  OBVIOUS
<1>3. RelayTypeOK'
  BY <1>1, <1>2 DEF RelayInv, RelayTypeOK, Managers
<1>4. \A t \in Streams : /\ stage'[t] = stage[t]
                         /\ \/ relay'[t].at = relay[t].at
                            \/ (Relaying(t) /\ relay'[t].at # "none")
  BY <1>1, <1>2
<1> QED BY <1>3, <1>4, KeepsHolders

\* Nothing the admission of relays depends on has changed.
LEMMA RelayStutters ==
  ASSUME RelayInv, UNCHANGED <<stage, relay, manager>>
  PROVE  RelayInv'
BY DEF RelayInv, RelayTypeOK, RelaysAreRegistered, PermitsAreCounted, Waiting, Relaying

LEMMA ExitMoves ==
  ASSUME RelayInv, NEW s \in Streams, Relaying(s), NEW x, NEW halted, Exit(s, x, halted),
         UNCHANGED <<stage, manager>>
  PROVE  RelayInv'
<1>1. manager' \in Managers
  BY DEF RelayInv, RelayTypeOK, Managers
<1>2. relay' = [relay EXCEPT ![s] = [at |-> "exited", event |-> NoEvent, exit |-> x]]
  BY DEF Exit
<1> QED BY <1>1, <1>2, RelayMoves DEF RelayPlaces

\* A relay goes back to its loop, or on to its wait.
LEMMA RelayTurns ==
  ASSUME RelayInv, NEW s \in Streams, Relaying(s), UNCHANGED <<stage, manager>>,
         \/ relay' = [relay EXCEPT ![s].at = "loop"]
         \/ relay' = [relay EXCEPT ![s].at = "wait"]
         \/ relay' = [relay EXCEPT ![s].at = "loop", ![s].event = NoEvent]
  PROVE  RelayInv'
<1>1. manager' \in Managers
  BY DEF RelayInv, RelayTypeOK, Managers
<1> DEFINE r == relay[s]
<1>2. r = [at |-> r.at, event |-> r.event, exit |-> r.exit]
  BY DEF RelayInv, RelayTypeOK
<1>3. ASSUME NEW a PROVE [r EXCEPT !.at = a] = [at |-> a, event |-> r.event, exit |-> r.exit]
  BY <1>2
<1>4. CASE relay' = [relay EXCEPT ![s].at = "loop"]
  <2>1. relay' = [relay EXCEPT ![s] = [at |-> "loop", event |-> r.event, exit |-> r.exit]]
    BY <1>3, <1>4
  <2> HIDE DEF r
  <2> QED BY <1>1, <2>1, RelayMoves DEF RelayPlaces
<1>5. CASE relay' = [relay EXCEPT ![s].at = "wait"]
  <2>1. relay' = [relay EXCEPT ![s] = [at |-> "wait", event |-> r.event, exit |-> r.exit]]
    BY <1>3, <1>5
  <2> HIDE DEF r
  <2> QED BY <1>1, <2>1, RelayMoves DEF RelayPlaces
<1>6. CASE relay' = [relay EXCEPT ![s].at = "loop", ![s].event = NoEvent]
  <2> DEFINE q == [at |-> "loop", event |-> r.event, exit |-> r.exit]
  <2>1. [r EXCEPT !.at = "loop"] = q
    BY <1>3
  <2>2. [q EXCEPT !.event = NoEvent] = [at |-> "loop", event |-> NoEvent, exit |-> r.exit]
    OBVIOUS
  <2>3. relay' = [relay EXCEPT ![s] = [[r EXCEPT !.at = "loop"] EXCEPT !.event = NoEvent]]
    BY <1>6
  <2>4. relay' = [relay EXCEPT ![s] = [at |-> "loop", event |-> NoEvent, exit |-> r.exit]]
    BY <2>1, <2>2, <2>3
  <2> HIDE DEF r
  <2> QED BY <1>1, <2>4, RelayMoves DEF RelayPlaces
<1> QED BY <1>4, <1>5, <1>6

LEMMA StageMoves ==
  ASSUME RelayInv, NEW s \in Streams, NEW x \in {"body", "refused", "gone"},
         stage[s] \in {"started", "body"}, stage' = [stage EXCEPT ![s] = x],
         UNCHANGED <<relay, manager>>
  PROVE  RelayInv'
<1>1. RelayTypeOK'
  BY DEF RelayInv, RelayTypeOK, Stages
<1>2. \A t \in Streams : stage'[t] = stage[t]
                         \/ {stage[t], stage'[t]} \cap {"idle", "permit", "called"} = {}
  BY DEF RelayInv, RelayTypeOK
<1> QED BY <1>1, <1>2, KeepsHolders

LEMMA AcquireKeeps ==
  ASSUME RelayInv, NEW s \in Streams, try_acquire(s)
  PROVE  RelayInv'
<1>1. CASE ~Inactive(s) /\ Healthy(reap_finished) /\ reap_finished.active < MaxActiveRelays
  BY <1>1, ManagersAreSound, Acquires DEF try_acquire
<1>2. CASE ~(~Inactive(s) /\ Healthy(reap_finished) /\ reap_finished.active < MaxActiveRelays)
  BY <1>2, ManagersAreSound, Passes DEF try_acquire, Refuse
<1> QED BY <1>1, <1>2

LEMMA CallKeeps ==
  ASSUME RelayInv, NEW s \in Streams, call(s)
  PROVE  RelayInv'
<1>1. CASE stage' = [stage EXCEPT ![s] = "called"] /\ manager' = reap_finished
  BY <1>1, ManagersAreSound, Passes DEF call
<1>2. CASE Refuse(s) /\ manager' = Release(reap_finished)
  BY <1>2, ManagersAreSound, GivesUp DEF call, Refuse
<1> QED BY <1>1, <1>2 DEF call

LEMMA StartKeeps ==
  ASSUME RelayInv, NEW s \in Streams, start(s)
  PROVE  RelayInv'
<1>1. CASE /\ stage' = [stage EXCEPT ![s] = "started"] /\ relay' = [relay EXCEPT ![s].at = "loop"]
           /\ manager' = [reap_finished EXCEPT !.handles = @ \cup {s}]
  BY <1>1, ManagersAreSound, Registers DEF start
<1>2. CASE /\ Refuse(s) /\ UNCHANGED relay
           /\ manager' = Release(IF AttemptInactive(s) THEN manager ELSE reap_finished)
  <2>1. CASE AttemptInactive(s)
    BY <1>2, <2>1, ManagersAreSound, GivesUp DEF start, Refuse
  <2>2. CASE ~AttemptInactive(s)
    BY <1>2, <2>2, ManagersAreSound, GivesUp DEF start, Refuse
  <2> QED BY <2>1, <2>2
<1> QED BY <1>1, <1>2 DEF start

LEMMA RelayStepKeeps ==
  ASSUME RelayInv, NEW s \in Streams, RelayStep(s)
  PROVE  RelayInv'
<1>t. manager \in Managers
  BY DEF RelayInv, RelayTypeOK, Managers
<1>1. CASE relay_loop(s)
  <2>0. Relaying(s) /\ UNCHANGED <<stage, manager>>
    BY <1>1 DEF relay_loop, Relaying
  <2>1. CASE relay' = [relay EXCEPT ![s].at = "wait"]
    BY <2>0, <2>1, RelayTurns
  <2>2. CASE Exit(s, "Healthy", TRUE)
    BY <2>0, <2>2, ExitMoves
  <2> QED BY <1>1, <2>1, <2>2 DEF relay_loop
<1>2. CASE relay_receive(s)
  <2>0. Relaying(s) /\ UNCHANGED stage
    BY <1>2 DEF relay_receive, Relaying
  <2>1. ASSUME NEW u \in BOOLEAN, manager' = [manager EXCEPT !.unhealthy = u]
        PROVE  manager' \in Managers /\ manager'.handles = manager.handles
               /\ manager'.active = manager.active
    BY <1>t, <2>1 DEF Managers
  <2>2. CASE /\ relay' = [relay EXCEPT ![s] = [at |-> "publish", exit |-> "Unhealthy",
                                          event |-> Event(provider[s].next, "failed")]]
             /\ manager' = [manager EXCEPT !.unhealthy = TRUE]
    BY <2>0, <2>1, <2>2, RelayMoves DEF RelayPlaces
  <2>3. CASE \E p : /\ relay' = [relay EXCEPT ![s] = [at |-> "publish", event |-> p.event, exit |-> p.exit]]
                    /\ manager' = [manager EXCEPT !.unhealthy = @ \/ p.exit = "Unhealthy"]
    <3>1. PICK p : /\ relay' = [relay EXCEPT ![s] = [at |-> "publish", event |-> p.event, exit |-> p.exit]]
                   /\ manager' = [manager EXCEPT !.unhealthy = @ \/ p.exit = "Unhealthy"]
      BY <2>3
    <3> DEFINE u == manager.unhealthy \/ p.exit = "Unhealthy"
    <3>2. u \in BOOLEAN /\ manager' = [manager EXCEPT !.unhealthy = u]
      BY <3>1
    <3> HIDE DEF u
    <3>3. manager' \in Managers /\ manager'.handles = manager.handles /\ manager'.active = manager.active
      BY <2>1, <3>2
    <3> QED BY <2>0, <3>1, <3>3, RelayMoves DEF RelayPlaces
  <2>4. CASE relay' = [relay EXCEPT ![s].at = "loop"] /\ UNCHANGED manager
    BY <2>0, <2>4, RelayTurns
  <2> QED BY <1>2, <2>2, <2>3, <2>4 DEF relay_receive
<1>3. CASE publish_once(s)
  <2>0. Relaying(s) /\ UNCHANGED <<stage, manager>>
    BY <1>3 DEF publish_once, Relaying
  <2>1. CASE \E halted : Exit(s, relay[s].exit, halted)
    BY <2>0, <2>1, ExitMoves
  <2>2. CASE relay' = [relay EXCEPT ![s].at = "loop", ![s].event = NoEvent]
    BY <2>0, <2>2, RelayTurns
  <2> QED BY <1>3, <2>1, <2>2 DEF publish_once
<1> QED BY <1>1, <1>2, <1>3 DEF RelayStep

LEMMA RelayInvHolds == StreamSpec => []RelayInv
<1>1. StreamInit => RelayInv
  <2> SUFFICES ASSUME StreamInit PROVE RelayInv
    OBVIOUS
  <2>1. RelayTypeOK
    BY DEF StreamInit, RelayTypeOK, Managers, Stages, RelayPlaces
  <2>2. RelaysAreRegistered
    BY DEF StreamInit, RelaysAreRegistered, Relaying
  <2>3. Waiting = {} /\ manager.handles = {} /\ manager.active = 0
    BY DEF StreamInit, Waiting
  <2>4. PermitsAreCounted
    BY <2>3, FS_EmptySet, StreamAssumption DEF PermitsAreCounted, StreamAssumption
  <2> QED BY <2>1, <2>2, <2>4 DEF RelayInv
<1>2. RelayInv /\ [StreamNext]_streamVars => RelayInv'
  <2> SUFFICES ASSUME RelayInv, [StreamNext]_streamVars PROVE RelayInv'
    OBVIOUS
  <2>1. CASE UNCHANGED streamVars
    BY <2>1, RelayStutters DEF streamVars
  <2>2. ASSUME NEW s \in Streams, try_acquire(s) PROVE RelayInv'
    BY <2>2, AcquireKeeps
  <2>3. ASSUME NEW s \in Streams, call(s) PROVE RelayInv'
    BY <2>3, CallKeeps
  <2>4. ASSUME NEW s \in Streams, start(s) PROVE RelayInv'
    BY <2>4, StartKeeps
  <2>5. ASSUME NEW s \in Streams, open_body(s) PROVE RelayInv'
    BY <2>5, StageMoves DEF open_body, Refuse
  <2>6. ASSUME NEW s \in Streams, drop_call(s) PROVE RelayInv'
    BY <2>6, ManagersAreSound, GivesUp DEF drop_call
  <2>7. ASSUME NEW s \in Streams, RelayStep(s) PROVE RelayInv'
    BY <2>7, RelayStepKeeps
  <2>8. ASSUME NEW s \in Streams, drop_body(s) PROVE RelayInv'
    BY <2>8, StageMoves DEF drop_body
  <2>9. CASE drop_manager
    <3>1. RelayTypeOK' /\ manager'.handles = manager.handles /\ manager'.active = manager.active
      BY <2>9 DEF drop_manager, RelayInv, RelayTypeOK, Managers
    <3> QED BY <2>9, <3>1, KeepsHolders DEF drop_manager
  <2>10. ASSUME NEW s \in Streams, ProviderStep(s) \/ provider_panics(s) \/ TaskStep(s) \/ poll_next(s)
                                    \/ deadline_passes(s)
         PROVE RelayInv'
    BY <2>10, RelayStutters
    DEF ProviderStep, publish_next, publish_terminal_failure, provider_panics, TaskStep,
        receive_check, receive_wait, poll_next, deadline_passes
  <2>11. CASE http_shutdown
    BY <2>11, RelayStutters DEF http_shutdown
  <2> QED BY <2>1, <2>2, <2>3, <2>4, <2>5, <2>6, <2>7, <2>8, <2>9, <2>10, <2>11
      DEF StreamNext, HandlerStep
<1> QED BY <1>1, <1>2, PTL DEF StreamSpec

\* The relay budget is exact, for any number of streams and any MAX_ACTIVE_RELAYS:
\* never more holders than permits, no relay that the manager does not know, and no
\* request refused for want of a permit while a permit is free.
THEOREM RelayBudgetIsExact == StreamSpec => RelayAdmissionIsExact
<1> DEFINE Exact ==
      /\ Cardinality(Admitted') <= MaxActiveRelays
      /\ \A s \in Streams : Relaying(s)' => s \in manager'.handles
      /\ manager'.active = Cardinality({s \in Streams : stage'[s] \in {"permit", "called"}})
                             + Cardinality(manager'.handles)
      /\ \A s \in Streams :
           stage[s] = "idle" /\ stage'[s] = "refused" /\ ~Inactive(s) /\ Healthy(manager')
             => Cardinality(Admitted) >= MaxActiveRelays
           Fit == Cardinality(Admitted) <= MaxActiveRelays
<1>1. RelayInv => Fit
  BY HoldersAreCounted, Reaping
<1>2. RelayInv /\ RelayInv' /\ Fit' /\ [StreamNext]_streamVars => [Exact]_<<stage, relay, manager>>
  <2> SUFFICES ASSUME RelayInv, RelayInv', Fit', [StreamNext]_streamVars
               PROVE  Exact
    OBVIOUS
  <2>1. Cardinality(Admitted') <= MaxActiveRelays
    OBVIOUS
  <2>2. \A s \in Streams : Relaying(s)' => s \in manager'.handles
    BY DEF RelayInv, RelaysAreRegistered
  <2>3. manager'.active = Cardinality({s \in Streams : stage'[s] \in {"permit", "called"}})
                             + Cardinality(manager'.handles)
    BY DEF RelayInv, PermitsAreCounted, Waiting
  <2>4. ASSUME NEW s \in Streams, stage[s] = "idle", stage'[s] = "refused", ~Inactive(s),
               Healthy(manager')
        PROVE  Cardinality(Admitted) >= MaxActiveRelays
    <3>1. try_acquire(s)
      <4>1. ASSUME NEW t \in Streams, call(t) \/ start(t) \/ open_body(t) \/ drop_call(t) \/ drop_body(t)
            PROVE  FALSE
        <5>1. t # s
          BY <2>4, <4>1 DEF call, start, open_body, drop_call, drop_body
        <5>2. \E x : stage' = [stage EXCEPT ![t] = x]
          BY <4>1 DEF call, start, open_body, drop_call, drop_body, Refuse
        <5> QED BY <2>4, <5>1, <5>2 DEF RelayInv, RelayTypeOK
      <4>2. ASSUME NEW t \in Streams, t # s, try_acquire(t)
            PROVE  FALSE
        <5>1. \E x : stage' = [stage EXCEPT ![t] = x]
          BY <4>2 DEF try_acquire, Refuse
        <5> QED BY <2>4, <4>2, <5>1 DEF RelayInv, RelayTypeOK
      <4>3. ASSUME \/ UNCHANGED streamVars
                   \/ drop_manager \/ http_shutdown
                   \/ \E t \in Streams :
                        ProviderStep(t) \/ provider_panics(t) \/ RelayStep(t) \/ TaskStep(t)
                          \/ poll_next(t) \/ deadline_passes(t)
            PROVE  FALSE
        <5>1. UNCHANGED stage
          BY <4>3 DEF streamVars, drop_manager, http_shutdown, RelayStep, relay_loop,
            relay_receive, publish_once, ProviderStep, publish_next, publish_terminal_failure,
            provider_panics, TaskStep, receive_check, receive_wait, poll_next, deadline_passes
        <5> QED BY <2>4, <5>1
      <4> QED BY <4>1, <4>2, <4>3 DEF StreamNext, HandlerStep
    <3>2. stage' # [stage EXCEPT ![s] = "permit"]
      BY <2>4 DEF RelayInv, RelayTypeOK
    <3>3. manager' = reap_finished /\ ~(reap_finished.active < MaxActiveRelays)
      BY <3>1, <3>2, <2>4 DEF try_acquire
    <3> QED BY <3>3, HoldersAreCounted, Reaping, StreamAssumption DEF StreamAssumption
  <2> QED BY <2>1, <2>2, <2>3, <2>4
<1> HIDE DEF Exact, Fit
<1>3. StreamSpec => [][Exact]_<<stage, relay, manager>>
  BY <1>1, <1>2, RelayInvHolds, PTL DEF StreamSpec
<1> QED BY <1>3, PTL DEF RelayAdmissionIsExact, Exact

-----------------------------------------------------------------------------
\* Streamed answers.  The invariant follows every event from the provider to the
\* client: the positions of what the body has sent, what its task holds, what
\* waits in the service channel, what the relay holds and what waits in the
\* provider's channel are consecutive (ChainOK), while somebody still wants them.

\* What goes through the channels, what a receive task brings, and what is sent.
StreamEvents == [seq : Nat \ {0}, kind : {"started", "wrong", "delta"} \cup Terminals]
Signals == [seq : {0}, kind : {"none", "stopped", "closed", "heartbeat"}]
FrameKinds == {"created", "in_progress", "item_added", "part_added", "start", "delta", "choice_done",
               "text_done", "part_done", "item_done", "finish", "error", "end", "abort"}
FrameSet == [seq : Nat, kind : FrameKinds]
Formats == {"chat", "responses", "audio", "bridge", "unread", "unserved", "absent"}
ProviderSet == [at : {"none", "publish", "failing", "over"}, next : Nat,
                last : {"none", "delta"} \cup Terminals, faulty : BOOLEAN]
RelaySet == [at : RelayPlaces, event : StreamEvents \cup {NoEvent}, exit : {"Healthy", "Unhealthy"}]
BodySet == [state : {"AwaitingStart", "Open", "Terminal", "Closed"}, queue : Seq(FrameSet),
            task : {"none", "check", "wait", "done"}, outcome : StreamEvents \cup Signals,
            detached : BOOLEAN, subscribed : BOOLEAN]
TokenSet == [request : SUBSET Streams, attempt : SUBSET Streams, output : SUBSET Streams]

StreamTypeOK ==
  /\ format \in [Streams -> Formats]
  /\ stage \in [Streams -> Stages]
  /\ provider \in [Streams -> ProviderSet]
  /\ source \in [Streams -> Seq(StreamEvents)]
  /\ relay \in [Streams -> RelaySet]
  /\ target \in [Streams -> Seq(StreamEvents)]
  /\ body \in [Streams -> BodySet]
  /\ sent \in [Streams -> Seq(FrameSet)]
  /\ withdrawn \in TokenSet
  /\ late \in SUBSET Streams

AllIn(f, d, snt) ==
  {i \in DOMAIN snt : snt[i].kind = "delta"} = Len(StartFrames(f)) + 1 .. Len(StartFrames(f)) + d
Ended(snt) == snt # <<>> /\ snt[Len(snt)].kind \in Closers
Told(f, snt) == f # "audio" /\ \E i \in 1..Len(snt) : snt[i].kind \in {"finish", "error"}
Complete(p) == p.last \in {"completed", "filtered"}

FaithfulTo(f, d, p, snt) ==
  \A i \in 1..Len(snt) :
    /\ snt[i].kind = "delta" =>
         /\ IsPrefix(StartFrames(f), snt) /\ i > Len(StartFrames(f))
         /\ snt[i].seq = i - Len(StartFrames(f)) + 1 /\ snt[i].seq < p.next
    /\ snt[i].kind \in Closers => i = Len(snt)
    /\ snt[i].kind = "finish" => Complete(p) /\ AllIn(f, d, snt)

\* An open body has sent, or queued, the frames of the start, and then deltas.
OpenOK(f, b, snt) ==
  LET heads == StartFrames(f) IN
  /\ Len(snt) + Len(b.queue) >= Len(heads)
  /\ b.queue # <<>> => Len(snt) + Len(b.queue) = Len(heads)
  /\ \A i \in 1..Len(snt) : IF i <= Len(heads) THEN snt[i] = heads[i] ELSE snt[i].kind = "delta"
  /\ \A i \in 1..Len(b.queue) : b.queue[i] = heads[Len(snt) + i]

TerminalOK(f, d, p, b, snt) ==
  /\ f # "audio"
  /\ b.queue = <<>> => Told(f, snt)
  /\ b.queue # <<>> => b.queue[Len(b.queue)].kind = "finish" /\ Complete(p) /\ AllIn(f, d, snt)
  /\ \A i \in 1..Len(b.queue) : b.queue[i].kind \notin {"delta"} \cup Closers

ShapeOK(f, d, g, p, b, snt) ==
  /\ FaithfulTo(f, d, p, snt)
  /\ b.state = "AwaitingStart" => snt = <<>> /\ b.queue = <<>>
  /\ b.state = "Open" => OpenOK(f, b, snt)
  /\ b.state = "Terminal" => TerminalOK(f, d, p, b, snt)
  /\ Ended(snt) => b.state = "Closed"
  /\ b.state = "Closed" /\ g = "body" => Ended(snt) \/ Told(f, snt)

Live(b) == b.state \in {"AwaitingStart", "Open"}

\* A receive task belongs to a body that wants events, or to nobody.
TaskOK(b) ==
  /\ b.task # "none" => Live(b) \/ (b.detached /\ b.task # "done")
  /\ b.detached => b.state = "Closed"
  /\ b.task # "done" => b.outcome = NoEvent

\* Before there is a body.
BegunOK(f, g, p, r, tgt, b) ==
  /\ g # "gone" => f # "absent"
  /\ g \notin {"body", "gone"} => b.state = "AwaitingStart" /\ b.task = "none"
  /\ g \in {"idle", "permit"} => p.at = "none"
  /\ g \in {"idle", "permit", "called"} => tgt = <<>> /\ r.at = "none"
  /\ g \in {"called", "started", "body"} => f \in {"chat", "responses", "audio", "bridge", "unread"}

ProviderOK(d, p) ==
  /\ p.at = "none" => p.next = 1 /\ p.last = "none"
  /\ p.at # "none" => 2 <= p.next
  /\ p.at = "publish" => p.next <= d + 2 /\ p.last \in {"none", "delta"}
  /\ p.at = "failing" => p.last \in {"failed", "cancelled"}

\* What an event says is so.
TrueEvent(d, p, e) ==
  /\ e.kind = "delta" => e.seq < p.next
  /\ e.kind \in {"completed", "filtered"} => p.last = e.kind /\ e.seq = d + 2
  /\ e.kind = "cancelled" => p.last = "cancelled"

TruthOK(d, p, src, r, tgt, b) ==
  /\ \A i \in 1..Len(src) : TrueEvent(d, p, src[i])
  /\ \A i \in 1..Len(tgt) : TrueEvent(d, p, tgt[i])
  /\ TrueEvent(d, p, r.event) /\ TrueEvent(d, p, b.outcome)
  /\ r.at = "publish" => r.event \in StreamEvents

\* How many events the body has used, and how many it has.
Used(f, b, snt) ==
  IF b.state = "AwaitingStart" THEN 0 ELSE Len(snt) + Len(b.queue) - Len(StartFrames(f)) + 1
Has(f, b, snt) == Used(f, b, snt) + IF b.outcome.seq > 0 THEN 1 ELSE 0

Continues(p, src, n) ==
  /\ \A i \in 1..Len(src) : src[i].seq = n + i
  /\ p.next = n + Len(src) + 1

\* No event is lost, doubled or overtaken on its way.
ChainOK(p, src, r, tgt, e, n) ==
  /\ e.seq > 0 => e.seq = n
  /\ \A i \in 1..Len(tgt) : tgt[i].seq = n + i
  /\ r.at \in {"none", "loop", "wait"} => Continues(p, src, n + Len(tgt))
  /\ r.at = "publish" =>
       /\ r.event.seq = n + Len(tgt) + 1
       /\ \/ Continues(p, src, n + Len(tgt) + 1)
          \/ src = <<>> /\ p.at \notin {"publish", "failing"} /\ r.event.kind = "failed"

LineOK(f, d, g, p, src, r, tgt, b, snt) ==
  /\ ShapeOK(f, d, g, p, b, snt)
  /\ TaskOK(b)
  /\ BegunOK(f, g, p, r, tgt, b)
  /\ ProviderOK(d, p)
  /\ TruthOK(d, p, src, r, tgt, b)
  /\ g \notin {"refused", "gone"} /\ Live(b) => ChainOK(p, src, r, tgt, b.outcome, Has(f, b, snt))

Line(s) ==
  LineOK(format[s], DeltasOf(s), stage[s], provider[s], source[s], relay[s], target[s], body[s], sent[s])

CalledOff(s) == Inactive(s) \/ manager.shutdown

\* Why a stream was stopped.
TokensOK(s) ==
  /\ s \in withdrawn.attempt => s \in withdrawn.request \/ relay[s].at = "exited"
  /\ s \in withdrawn.output /\ Live(body[s]) => CalledOff(s)
  /\ body[s].outcome.kind = "stopped" => CalledOff(s)
  /\ body[s].state = "Closed" /\ body[s].queue # <<>> => s \in withdrawn.request /\ format[s] = "responses"

FaithInv == \A s \in Streams : Line(s) /\ TokensOK(s)

\* A step of one stream: its new place in the handler, provider, channels, relay,
\* body and output.
Sets(s, g, p, src, r, tgt, b, snt) ==
  /\ format' = format
  /\ stage' = [stage EXCEPT ![s] = g]
  /\ provider' = [provider EXCEPT ![s] = p]
  /\ source' = [source EXCEPT ![s] = src]
  /\ relay' = [relay EXCEPT ![s] = r]
  /\ target' = [target EXCEPT ![s] = tgt]
  /\ body' = [body EXCEPT ![s] = b]
  /\ sent' = [sent EXCEPT ![s] = snt]

\* The tokens and the deadlines of other streams are left alone.
SparesOthers(s) ==
  /\ withdrawn' \in TokenSet /\ late' \in SUBSET Streams
  /\ \A t \in Streams \ {s} :
       /\ t \in withdrawn'.request <=> t \in withdrawn.request
       /\ t \in withdrawn'.attempt <=> t \in withdrawn.attempt
       /\ t \in withdrawn'.output <=> t \in withdrawn.output
       /\ t \in late => t \in late'
  /\ manager.shutdown => manager'.shutdown

Kept(x, s) == x = [x EXCEPT ![s] = x[s]]

LEMMA AllKept ==
  ASSUME StreamTypeOK, NEW s \in Streams
  PROVE  /\ Kept(stage, s) /\ Kept(provider, s) /\ Kept(source, s) /\ Kept(relay, s)
         /\ Kept(target, s) /\ Kept(body, s) /\ Kept(sent, s)
<1>1. ASSUME NEW S, NEW x \in [Streams -> S] PROVE Kept(x, s)
  BY DEF Kept
<1> QED BY <1>1, Zenon DEF StreamTypeOK

LEMMA SetsTypes ==
  ASSUME StreamTypeOK, NEW s \in Streams, NEW g \in Stages, NEW p \in ProviderSet,
         NEW src \in Seq(StreamEvents), NEW r \in RelaySet, NEW tgt \in Seq(StreamEvents),
         NEW b \in BodySet, NEW snt \in Seq(FrameSet),
         Sets(s, g, p, src, r, tgt, b, snt), SparesOthers(s)
  PROVE  StreamTypeOK'
<1>1. ASSUME NEW S, NEW x \in [Streams -> S], NEW y \in S PROVE [x EXCEPT ![s] = y] \in [Streams -> S]
  OBVIOUS
<1>2. /\ stage' \in [Streams -> Stages] /\ provider' \in [Streams -> ProviderSet]
      /\ source' \in [Streams -> Seq(StreamEvents)] /\ relay' \in [Streams -> RelaySet]
      /\ target' \in [Streams -> Seq(StreamEvents)] /\ body' \in [Streams -> BodySet]
      /\ sent' \in [Streams -> Seq(FrameSet)]
  BY <1>1, Zenon DEF StreamTypeOK, Sets
<1>3. format' \in [Streams -> Formats] /\ withdrawn' \in TokenSet /\ late' \in SUBSET Streams
  BY DEF StreamTypeOK, Sets, SparesOthers
<1> QED BY <1>2, <1>3 DEF StreamTypeOK

LEMMA SetsValues ==
  ASSUME StreamTypeOK, NEW s \in Streams, NEW g, NEW p, NEW src, NEW r, NEW tgt, NEW b, NEW snt,
         Sets(s, g, p, src, r, tgt, b, snt)
  PROVE  /\ format'[s] = format[s] /\ DeltasOf(s)' = DeltasOf(s)
         /\ stage'[s] = g /\ provider'[s] = p /\ source'[s] = src /\ relay'[s] = r /\ target'[s] = tgt
         /\ body'[s] = b /\ sent'[s] = snt
         /\ \A t \in Streams \ {s} :
              /\ format'[t] = format[t] /\ DeltasOf(t)' = DeltasOf(t)
              /\ stage'[t] = stage[t] /\ provider'[t] = provider[t] /\ source'[t] = source[t]
              /\ relay'[t] = relay[t] /\ target'[t] = target[t]
              /\ body'[t] = body[t] /\ sent'[t] = sent[t]
BY DEF StreamTypeOK, Sets, DeltasOf

LEMMA StreamMoves ==
  ASSUME StreamTypeOK, FaithInv, NEW s \in Streams, NEW g \in Stages, NEW p \in ProviderSet,
         NEW src \in Seq(StreamEvents), NEW r \in RelaySet, NEW tgt \in Seq(StreamEvents),
         NEW b \in BodySet, NEW snt \in Seq(FrameSet),
         Sets(s, g, p, src, r, tgt, b, snt), SparesOthers(s),
         LineOK(format[s], DeltasOf(s), g, p, src, r, tgt, b, snt), TokensOK(s)'
  PROVE  StreamTypeOK' /\ FaithInv'
<1>1. StreamTypeOK'
  BY SetsTypes
<1>2. Line(s)'
  BY SetsValues DEF Line
<1>3. ASSUME NEW t \in Streams \ {s} PROVE Line(t)' /\ TokensOK(t)'
  <2>1. Line(t)'
    BY SetsValues DEF FaithInv, Line
  <2>2. TokensOK(t)'
    BY SetsValues DEF FaithInv, TokensOK, SparesOthers, CalledOff, Inactive
  <2> QED BY <2>1, <2>2
<1> QED BY <1>1, <1>2, <1>3 DEF FaithInv

LEMMA CancelMarks ==
  ASSUME StreamTypeOK, NEW s \in Streams, NEW tokens, Cancel(s, tokens)
  PROVE  /\ withdrawn' \in TokenSet
         /\ s \in withdrawn'.request <=> s \in withdrawn.request \/ "request" \in tokens
         /\ s \in withdrawn'.attempt <=>
              s \in withdrawn.attempt \/ "request" \in tokens \/ "attempt" \in tokens
         /\ s \in withdrawn'.output <=> s \in withdrawn.output \/ "output" \in tokens
         /\ \A t \in Streams \ {s} :
              /\ t \in withdrawn'.request <=> t \in withdrawn.request
              /\ t \in withdrawn'.attempt <=> t \in withdrawn.attempt
              /\ t \in withdrawn'.output <=> t \in withdrawn.output
BY DEF StreamTypeOK, TokenSet, Cancel

LEMMA Spares ==
  ASSUME StreamTypeOK, NEW s \in Streams, manager.shutdown => manager'.shutdown,
         UNCHANGED late,
         UNCHANGED withdrawn \/ \E tokens : Cancel(s, tokens)
  PROVE  SparesOthers(s)
BY CancelMarks DEF SparesOthers, StreamTypeOK

\* The state of a stream, read off the variables.
LEMMA HereTypes ==
  ASSUME StreamTypeOK, NEW s \in Streams
  PROVE  /\ format[s] \in Formats /\ stage[s] \in Stages /\ provider[s] \in ProviderSet
         /\ source[s] \in Seq(StreamEvents) /\ relay[s] \in RelaySet
         /\ target[s] \in Seq(StreamEvents) /\ body[s] \in BodySet /\ sent[s] \in Seq(FrameSet)
         /\ DeltasOf(s) \in Nat
BY StreamAssumption DEF StreamTypeOK, DeltasOf, StreamAssumption

LEMMA ShutdownStays ==
  ASSUME manager \in Managers
  PROVE  /\ reap_finished \in [unhealthy : BOOLEAN, shutdown : BOOLEAN, active : Int \cup {reap_finished.active},
                               handles : SUBSET Streams]
         /\ manager.shutdown => reap_finished.shutdown
         /\ \A h, a : /\ [reap_finished EXCEPT !.active = a].shutdown = reap_finished.shutdown
                      /\ [reap_finished EXCEPT !.handles = h].shutdown = reap_finished.shutdown
                      /\ [manager EXCEPT !.active = a].shutdown = manager.shutdown
<1> DEFINE finished == {h \in manager.handles : relay[h].at = "exited"}
           bad == \E h \in finished : relay[h].exit = "Unhealthy"
           hs == manager.handles \ finished
           ac == manager.active - Cardinality(finished)
           un == manager.unhealthy \/ bad
           sh == manager.shutdown \/ bad
<1>1. manager = [unhealthy |-> manager.unhealthy, shutdown |-> manager.shutdown,
                 active |-> manager.active, handles |-> manager.handles]
      /\ manager.handles \subseteq Streams
  BY DEF Managers
<1>2. reap_finished = [manager EXCEPT !.handles = hs, !.active = ac, !.unhealthy = un, !.shutdown = sh]
  BY DEF reap_finished
<1>3. un \in BOOLEAN /\ sh \in BOOLEAN /\ (manager.shutdown => sh) /\ hs \in SUBSET Streams
  BY <1>1
<1> HIDE DEF hs, ac, un, sh
<1>4. reap_finished = [unhealthy |-> un, shutdown |-> sh, active |-> ac, handles |-> hs]
  BY <1>1, <1>2
<1> QED BY <1>1, <1>3, <1>4

\* What a stream was before its handler's next step.
LEMMA HandlerLine ==
  ASSUME NEW f, NEW d, NEW g, NEW p, NEW src, NEW r, NEW tgt, NEW b, NEW snt,
         LineOK(f, d, g, p, src, r, tgt, b, snt)
  PROVE  /\ g = "idle" => LineOK(f, d, "permit", p, src, r, tgt, b, snt)
         /\ g \in {"idle", "permit", "called", "started"} =>
              LineOK(f, d, "refused", p, src, r, tgt, b, snt)
         /\ g \in {"permit", "body"} => LineOK(f, d, "gone", p, src, r, tgt, b, snt)
         /\ g = "started" => LineOK(f, d, "body", p, src, r, tgt, b, snt)
BY DEF LineOK, ShapeOK, BegunOK, Live

LEMMA TryAcquireFaith ==
  ASSUME StreamTypeOK, FaithInv, manager \in Managers, NEW s \in Streams, try_acquire(s)
  PROVE  StreamTypeOK' /\ FaithInv'
<1>0. /\ LineOK(format[s], DeltasOf(s), stage[s], provider[s], source[s], relay[s], target[s],
                body[s], sent[s])
      /\ TokensOK(s)
  BY DEF FaithInv, Line
<1>1. manager.shutdown => manager'.shutdown
  BY ShutdownStays DEF try_acquire
<1>2. SparesOthers(s)
  BY <1>1, Spares DEF try_acquire
<1>3. CASE stage' = [stage EXCEPT ![s] = "permit"] /\ UNCHANGED withdrawn
  <2>1. Sets(s, "permit", provider[s], source[s], relay[s], target[s], body[s], sent[s])
    BY <1>3, AllKept DEF try_acquire, Sets, Kept
  <2>2. LineOK(format[s], DeltasOf(s), "permit", provider[s], source[s], relay[s], target[s],
               body[s], sent[s])
    BY <1>0, HandlerLine DEF try_acquire
  <2>3. TokensOK(s)'
    BY <1>0, <1>1, <1>3, <2>1, SetsValues DEF try_acquire, TokensOK, CalledOff, Inactive
  <2> QED BY <1>2, <2>1, <2>2, <2>3, HereTypes, StreamMoves DEF Stages
<1>4. CASE Refuse(s) /\ Cancel(s, {"request"})
  <2>1. Sets(s, "refused", provider[s], source[s], relay[s], target[s], body[s], sent[s])
    BY <1>4, AllKept DEF try_acquire, Sets, Kept, Refuse
  <2>2. LineOK(format[s], DeltasOf(s), "refused", provider[s], source[s], relay[s], target[s],
               body[s], sent[s])
    BY <1>0, HandlerLine DEF try_acquire
  <2>3. TokensOK(s)'
    BY <1>0, <1>1, <1>4, <2>1, SetsValues, CancelMarks DEF try_acquire, TokensOK, CalledOff, Inactive
  <2> QED BY <1>2, <2>1, <2>2, <2>3, HereTypes, StreamMoves DEF Stages
<1> QED BY <1>3, <1>4 DEF try_acquire

\* What an event says stays so while the provider goes on.
LEMMA TruthStays ==
  ASSUME NEW d, NEW p \in ProviderSet, NEW q \in ProviderSet, NEW e \in StreamEvents \cup Signals,
         p.next <= q.next, q.last = p.last \/ p.last \in {"none", "delta", "failed"},
         TrueEvent(d, p, e)
  PROVE  TrueEvent(d, q, e)
BY DEF TrueEvent, ProviderSet, StreamEvents, Signals

\* The provider's first event.
LEMMA CallLine ==
  ASSUME NEW f \in Formats \ {"unserved"}, NEW d \in Nat, NEW p \in ProviderSet,
         NEW r \in RelaySet, NEW tgt \in Seq(StreamEvents), NEW b \in BodySet, NEW src,
         NEW snt \in Seq(FrameSet), NEW k \in {"started", "wrong"},
         LineOK(f, d, "permit", p, src, r, tgt, b, snt),
         NEW q \in ProviderSet, q.at = "publish", q.next = 2, q.last = p.last
  PROVE  LineOK(f, d, "called", q, <<Event(1, k)>>, r, tgt, b, snt)
<1>1. /\ ShapeOK(f, d, "permit", p, b, snt) /\ TaskOK(b) /\ BegunOK(f, "permit", p, r, tgt, b)
      /\ ProviderOK(d, p) /\ TruthOK(d, p, src, r, tgt, b)
  BY DEF LineOK
<1>2. /\ b.state = "AwaitingStart" /\ b.task = "none" /\ b.outcome = NoEvent
      /\ tgt = <<>> /\ r.at = "none" /\ p.next = 1 /\ p.last = "none"
      /\ snt = <<>> /\ b.queue = <<>>
  BY <1>1 DEF BegunOK, ProviderOK, TaskOK, ShapeOK
<1>3. ShapeOK(f, d, "called", q, b, snt)
  BY <1>1, <1>2 DEF ShapeOK, FaithfulTo
<1>4. BegunOK(f, "called", q, r, tgt, b) /\ ProviderOK(d, q)
  BY <1>1, <1>2 DEF BegunOK, ProviderOK, Formats
<1>5. TruthOK(d, q, <<Event(1, k)>>, r, tgt, b)
  <2>1. r.event \in StreamEvents \cup Signals /\ b.outcome \in StreamEvents \cup Signals
    BY DEF RelaySet, BodySet, NoEvent, Event, Signals
  <2>2. TrueEvent(d, q, r.event) /\ TrueEvent(d, q, b.outcome)
    BY <1>1, <1>2, <2>1, TruthStays DEF TruthOK
  <2>3. TrueEvent(d, q, Event(1, k))
    BY DEF TrueEvent, Event
  <2> QED BY <1>2, <2>2, <2>3 DEF TruthOK
<1>6. ChainOK(q, <<Event(1, k)>>, r, tgt, b.outcome, Has(f, b, snt))
  BY <1>2 DEF ChainOK, Has, Used, Continues, Event, NoEvent
<1> QED BY <1>1, <1>3, <1>4, <1>5, <1>6 DEF LineOK

LEMMA HereLine ==
  ASSUME FaithInv, NEW s \in Streams
  PROVE  /\ LineOK(format[s], DeltasOf(s), stage[s], provider[s], source[s], relay[s], target[s],
                   body[s], sent[s])
         /\ TokensOK(s)
BY DEF FaithInv, Line

LEMMA CallFaith ==
  ASSUME StreamTypeOK, FaithInv, manager \in Managers, NEW s \in Streams, call(s)
  PROVE  StreamTypeOK' /\ FaithInv'
<1>1. manager.shutdown => manager'.shutdown
  BY ShutdownStays DEF call, Release
<1>2. SparesOthers(s)
  BY <1>1, Spares DEF call
<1>3. ASSUME NEW k \in {"started", "wrong"}, format[s] # "unserved",
             source' = [source EXCEPT ![s] = <<Event(1, k)>>],
             provider' = [provider EXCEPT ![s] = [@ EXCEPT !.at = "publish", !.next = 2,
                                                           !.faulty = k = "wrong"]],
             stage' = [stage EXCEPT ![s] = "called"], UNCHANGED withdrawn
      PROVE  StreamTypeOK' /\ FaithInv'
  <2> DEFINE fault == k = "wrong"
             q == [provider[s] EXCEPT !.at = "publish", !.next = 2, !.faulty = fault]
  <2>0. fault \in BOOLEAN
    OBVIOUS
  <2>1. Sets(s, "called", q, <<Event(1, k)>>, relay[s], target[s], body[s], sent[s])
    BY <1>3, AllKept DEF call, Sets, Kept
  <2> HIDE DEF fault
  <2>2. q \in ProviderSet /\ q.at = "publish" /\ q.next = 2 /\ q.last = provider[s].last
    BY <2>0, HereTypes DEF ProviderSet
  <2>3. <<Event(1, k)>> \in Seq(StreamEvents)
    BY DEF Event, StreamEvents
  <2> HIDE DEF q
  <2>4. LineOK(format[s], DeltasOf(s), "called", q, <<Event(1, k)>>, relay[s], target[s],
               body[s], sent[s])
    BY <1>3, <2>2, HereLine, HereTypes, CallLine DEF call
  <2>5. TokensOK(s)'
    BY <1>1, <1>3, <2>1, SetsValues, HereLine DEF call, TokensOK, CalledOff, Inactive
  <2> QED BY <1>2, <2>1, <2>2, <2>3, <2>4, <2>5, HereTypes, StreamMoves DEF Stages
<1>4. CASE Refuse(s) /\ Cancel(s, {"request"}) /\ UNCHANGED <<provider, source>>
  <2>1. Sets(s, "refused", provider[s], source[s], relay[s], target[s], body[s], sent[s])
    BY <1>4, AllKept DEF call, Sets, Kept, Refuse
  <2>2. LineOK(format[s], DeltasOf(s), "refused", provider[s], source[s], relay[s], target[s],
               body[s], sent[s])
    BY HereLine, HandlerLine DEF call
  <2>3. TokensOK(s)'
    BY <1>1, <1>4, <2>1, SetsValues, CancelMarks, HereLine DEF call, TokensOK, CalledOff, Inactive
  <2> QED BY <1>2, <2>1, <2>2, <2>3, HereTypes, StreamMoves DEF Stages
<1> QED BY <1>3, <1>4 DEF call

LEMMA DropCallFaith ==
  ASSUME StreamTypeOK, FaithInv, manager \in Managers, NEW s \in Streams, drop_call(s)
  PROVE  StreamTypeOK' /\ FaithInv'
<1>1. manager.shutdown => manager'.shutdown
  BY ShutdownStays DEF drop_call, Release
<1>2. SparesOthers(s)
  BY <1>1, Spares DEF drop_call
<1>3. Sets(s, "gone", provider[s], source[s], relay[s], target[s], body[s], sent[s])
  BY AllKept DEF drop_call, Sets, Kept
<1>4. LineOK(format[s], DeltasOf(s), "gone", provider[s], source[s], relay[s], target[s],
             body[s], sent[s])
  BY HereLine, HandlerLine DEF drop_call
<1>5. TokensOK(s)'
  BY <1>1, <1>3, SetsValues, CancelMarks, HereLine DEF drop_call, TokensOK, CalledOff, Inactive
<1> QED BY <1>2, <1>3, <1>4, <1>5, HereTypes, StreamMoves DEF Stages

\* A relay begins with what the provider has published so far.
LEMMA StartLine ==
  ASSUME NEW f, NEW d, NEW p, NEW src, NEW r \in RelaySet, NEW tgt, NEW b, NEW snt,
         LineOK(f, d, "called", p, src, r, tgt, b, snt)
  PROVE  /\ LineOK(f, d, "started", p, src, [r EXCEPT !.at = "loop"], tgt, b, snt)
         /\ LineOK(f, d, "refused", p, <<>>, r, tgt, b, snt)
<1>1. /\ [r EXCEPT !.at = "loop"].at = "loop" /\ [r EXCEPT !.at = "loop"].event = r.event
      /\ r.at = "none"
  BY DEF RelaySet, LineOK, BegunOK
<1>2. ShapeOK(f, d, "started", p, b, snt) /\ ShapeOK(f, d, "refused", p, b, snt) /\ TaskOK(b)
  BY DEF LineOK, ShapeOK
<1>3. /\ BegunOK(f, "started", p, [r EXCEPT !.at = "loop"], tgt, b)
      /\ BegunOK(f, "refused", p, r, tgt, b) /\ ProviderOK(d, p)
  BY DEF LineOK, BegunOK
<1>4. TruthOK(d, p, src, [r EXCEPT !.at = "loop"], tgt, b) /\ TruthOK(d, p, <<>>, r, tgt, b)
  BY <1>1 DEF LineOK, TruthOK
<1>5. Live(b) => ChainOK(p, src, [r EXCEPT !.at = "loop"], tgt, b.outcome, Has(f, b, snt))
  BY <1>1 DEF LineOK, ChainOK
<1> QED BY <1>2, <1>3, <1>4, <1>5 DEF LineOK

LEMMA StartFaith ==
  ASSUME StreamTypeOK, FaithInv, manager \in Managers, NEW s \in Streams, start(s)
  PROVE  StreamTypeOK' /\ FaithInv'
<1>1. manager.shutdown => manager'.shutdown
  BY ShutdownStays DEF start, Release
<1>2. SparesOthers(s)
  BY <1>1, Spares DEF start
<1>3. CASE /\ stage' = [stage EXCEPT ![s] = "started"] /\ relay' = [relay EXCEPT ![s].at = "loop"]
           /\ UNCHANGED <<source, withdrawn>>
  <2> DEFINE r == [relay[s] EXCEPT !.at = "loop"]
  <2>1. Sets(s, "started", provider[s], source[s], r, target[s], body[s], sent[s])
    BY <1>3, AllKept DEF start, Sets, Kept
  <2>2. r \in RelaySet
    BY HereTypes DEF RelaySet, RelayPlaces
  <2>3. LineOK(format[s], DeltasOf(s), "started", provider[s], source[s], r, target[s],
               body[s], sent[s])
    BY HereLine, HereTypes, StartLine DEF start
  <2>4. relay[s].at = "none"
    BY HereLine DEF LineOK, BegunOK, start
  <2> HIDE DEF r
  <2>5. TokensOK(s)'
    BY <1>1, <1>3, <2>1, <2>4, SetsValues, HereLine DEF start, TokensOK, CalledOff, Inactive
  <2> QED BY <1>2, <2>1, <2>2, <2>3, <2>5, HereTypes, StreamMoves DEF Stages
<1>4. CASE /\ Refuse(s) /\ Cancel(s, {"request", "attempt"})
           /\ source' = [source EXCEPT ![s] = <<>>] /\ UNCHANGED relay
  <2>1. Sets(s, "refused", provider[s], <<>>, relay[s], target[s], body[s], sent[s])
    BY <1>4, AllKept DEF start, Sets, Kept, Refuse
  <2>2. LineOK(format[s], DeltasOf(s), "refused", provider[s], <<>>, relay[s], target[s],
               body[s], sent[s])
    BY HereLine, HereTypes, StartLine DEF start
  <2>3. TokensOK(s)'
    BY <1>1, <1>4, <2>1, SetsValues, CancelMarks, HereLine DEF start, TokensOK, CalledOff, Inactive
  <2>4. <<>> \in Seq(StreamEvents)
    OBVIOUS
  <2> QED BY <1>2, <2>1, <2>2, <2>3, <2>4, HereTypes, StreamMoves DEF Stages
<1> QED BY <1>3, <1>4 DEF start

LEMMA OpenBodyFaith ==
  ASSUME StreamTypeOK, FaithInv, manager \in Managers, NEW s \in Streams, open_body(s)
  PROVE  StreamTypeOK' /\ FaithInv'
<1>1. SparesOthers(s)
  BY Spares DEF open_body
<1>2. CASE /\ Inactive(s) /\ Refuse(s) /\ Cancel(s, {"request", "output"})
           /\ body' = [body EXCEPT ![s].subscribed = FALSE]
  <2> DEFINE b == [body[s] EXCEPT !.subscribed = FALSE]
  <2>1. Sets(s, "refused", provider[s], source[s], relay[s], target[s], b, sent[s])
    BY <1>2, AllKept DEF open_body, Sets, Kept, Refuse
  <2>2. /\ b \in BodySet /\ b.state = body[s].state /\ b.queue = body[s].queue
        /\ b.task = body[s].task /\ b.outcome = body[s].outcome /\ b.detached = body[s].detached
    BY HereTypes DEF BodySet
  <2> HIDE DEF b
  <2>3. LineOK(format[s], DeltasOf(s), "refused", provider[s], source[s], relay[s], target[s],
               body[s], sent[s])
    BY HereLine, HandlerLine DEF open_body
  <2>4. LineOK(format[s], DeltasOf(s), "refused", provider[s], source[s], relay[s], target[s],
               b, sent[s])
    BY <2>2, <2>3 DEF LineOK, ShapeOK, OpenOK, TerminalOK, TaskOK, Live, BegunOK, TruthOK
  <2>5. TokensOK(s)'
    BY <1>2, <2>1, <2>2, SetsValues, CancelMarks, HereLine
       DEF open_body, TokensOK, CalledOff, Inactive, Live
  <2> QED BY <1>1, <2>1, <2>2, <2>4, <2>5, HereTypes, StreamMoves DEF Stages
<1>3. CASE stage' = [stage EXCEPT ![s] = "body"] /\ UNCHANGED <<withdrawn, body>>
  <2>1. Sets(s, "body", provider[s], source[s], relay[s], target[s], body[s], sent[s])
    BY <1>3, AllKept DEF open_body, Sets, Kept
  <2>2. LineOK(format[s], DeltasOf(s), "body", provider[s], source[s], relay[s], target[s],
               body[s], sent[s])
    BY HereLine, HandlerLine DEF open_body
  <2>3. TokensOK(s)'
    BY <1>3, <2>1, SetsValues, HereLine DEF open_body, TokensOK, CalledOff, Inactive
  <2> QED BY <1>1, <2>1, <2>2, <2>3, HereTypes, StreamMoves DEF Stages
<1> QED BY <1>2, <1>3 DEF open_body

\* Everything but the tokens, the deadlines and the manager is as it was.
LEMMA TokensMove ==
  ASSUME StreamTypeOK, FaithInv,
         UNCHANGED <<format, stage, provider, source, relay, target, body, sent>>,
         withdrawn' \in TokenSet, late' \in SUBSET Streams, late \subseteq late',
         withdrawn'.output = withdrawn.output, withdrawn.request \subseteq withdrawn'.request,
         withdrawn'.attempt \subseteq withdrawn.attempt \cup withdrawn'.request,
         manager.shutdown => manager'.shutdown
  PROVE  StreamTypeOK' /\ FaithInv'
<1>1. StreamTypeOK'
  BY DEF StreamTypeOK
<1>2. ASSUME NEW s \in Streams PROVE Line(s)' /\ TokensOK(s)'
  <2>1. Line(s)'
    BY DEF FaithInv, Line, DeltasOf
  <2>2. TokensOK(s)'
    BY DEF FaithInv, TokensOK, CalledOff, Inactive, StreamTypeOK, TokenSet
  <2> QED BY <2>1, <2>2
<1> QED BY <1>1, <1>2 DEF FaithInv

LEMMA EnvironmentFaith ==
  ASSUME StreamTypeOK, FaithInv, manager \in Managers,
         \/ drop_manager \/ http_shutdown \/ UNCHANGED streamVars
         \/ \E s \in Streams : deadline_passes(s)
  PROVE  StreamTypeOK' /\ FaithInv'
<1>1. CASE drop_manager
  BY <1>1, TokensMove DEF drop_manager, Managers, StreamTypeOK, TokenSet
<1>2. CASE http_shutdown
  BY <1>2, TokensMove DEF http_shutdown, StreamTypeOK, TokenSet
<1>3. CASE UNCHANGED streamVars
  BY <1>3, TokensMove DEF streamVars, StreamTypeOK, TokenSet
<1>4. ASSUME NEW s \in Streams, deadline_passes(s) PROVE StreamTypeOK' /\ FaithInv'
  BY <1>4, TokensMove DEF deadline_passes, StreamTypeOK, TokenSet
<1> QED BY <1>1, <1>2, <1>3, <1>4

-----------------------------------------------------------------------------
\* The provider's thread.

\* A provider goes on, and says nothing that it has not said before.
LEMMA ProviderLine ==
  ASSUME NEW f, NEW d \in Nat, NEW g, NEW p \in ProviderSet, NEW src \in Seq(StreamEvents),
         NEW r \in RelaySet, NEW tgt \in Seq(StreamEvents), NEW b \in BodySet, NEW snt,
         LineOK(f, d, g, p, src, r, tgt, b, snt),
         NEW q \in ProviderSet, p.at \in {"publish", "failing"}, q.at # "none", p.next <= q.next,
         q.last = p.last \/ p.at = "publish", ProviderOK(d, q)
  PROVE  /\ ShapeOK(f, d, g, q, b, snt) /\ BegunOK(f, g, q, r, tgt, b)
         /\ TruthOK(d, q, src, r, tgt, b)
<1>1. q.last = p.last \/ p.last \in {"none", "delta", "failed"}
  BY DEF LineOK, ProviderOK
<1>2. Complete(p) => Complete(q)
  BY <1>1 DEF Complete
<1>3. ShapeOK(f, d, g, q, b, snt)
  <2>1. FaithfulTo(f, d, p, snt) => FaithfulTo(f, d, q, snt)
    <3> SUFFICES ASSUME FaithfulTo(f, d, p, snt), NEW i \in 1..Len(snt)
                 PROVE  /\ snt[i].kind = "delta" =>
                             /\ IsPrefix(StartFrames(f), snt) /\ i > Len(StartFrames(f))
                             /\ snt[i].seq = i - Len(StartFrames(f)) + 1 /\ snt[i].seq < q.next
                        /\ snt[i].kind \in Closers => i = Len(snt)
                        /\ snt[i].kind = "finish" => Complete(q) /\ AllIn(f, d, snt)
      BY DEF FaithfulTo
    <3>0. Len(StartFrames(f)) \in Nat
      BY DEF StartFrames, Frames
    <3> QED BY <1>2, <3>0 DEF FaithfulTo, ProviderSet
  <2>2. TerminalOK(f, d, p, b, snt) => TerminalOK(f, d, q, b, snt)
    BY <1>2 DEF TerminalOK
  <2> QED BY <2>1, <2>2 DEF LineOK, ShapeOK
<1>4. BegunOK(f, g, q, r, tgt, b)
  BY DEF LineOK, BegunOK
<1>5. TruthOK(d, q, src, r, tgt, b)
  <2>1. r.event \in StreamEvents \cup Signals /\ b.outcome \in StreamEvents \cup Signals
    BY DEF RelaySet, BodySet, NoEvent, Event, Signals
  <2>2. \A e \in StreamEvents \cup Signals : TrueEvent(d, p, e) => TrueEvent(d, q, e)
    BY <1>1, TruthStays
  <2>3. /\ \A i \in 1..Len(src) : src[i] \in StreamEvents
        /\ \A i \in 1..Len(tgt) : tgt[i] \in StreamEvents
    OBVIOUS
  <2> QED BY <2>1, <2>2, <2>3 DEF LineOK, TruthOK
<1> QED BY <1>3, <1>4, <1>5

\* The provider stays silent: it begins to fail, or is over.
LEMMA SilentLine ==
  ASSUME NEW f, NEW d \in Nat, NEW g, NEW p \in ProviderSet, NEW src \in Seq(StreamEvents),
         NEW r \in RelaySet, NEW tgt \in Seq(StreamEvents), NEW b \in BodySet, NEW snt,
         LineOK(f, d, g, p, src, r, tgt, b, snt),
         NEW q \in ProviderSet, p.at \in {"publish", "failing"}, q.at # "none", p.next = q.next,
         q.last = p.last \/ p.at = "publish", ProviderOK(d, q)
  PROVE  LineOK(f, d, g, q, src, r, tgt, b, snt)
<1>1. /\ ShapeOK(f, d, g, q, b, snt) /\ BegunOK(f, g, q, r, tgt, b)
      /\ TruthOK(d, q, src, r, tgt, b)
  <2>1. p.next <= q.next
    BY DEF ProviderSet
  <2> QED BY <2>1, ProviderLine
<1>2. \A e, n : ChainOK(p, src, r, tgt, e, n) => ChainOK(q, src, r, tgt, e, n)
  BY DEF ChainOK, Continues
<1> QED BY <1>1, <1>2 DEF LineOK

\* The provider publishes an event.
LEMMA PublishLine ==
  ASSUME NEW f \in Formats, NEW d \in Nat, NEW g, NEW p \in ProviderSet,
         NEW src \in Seq(StreamEvents),
         NEW r \in RelaySet, NEW tgt \in Seq(StreamEvents), NEW b \in BodySet,
         NEW snt \in Seq(FrameSet),
         LineOK(f, d, g, p, src, r, tgt, b, snt),
         NEW q \in ProviderSet, p.at \in {"publish", "failing"}, q.at # "none", q.next = p.next + 1,
         q.last = p.last \/ p.at = "publish", ProviderOK(d, q),
         NEW e \in StreamEvents, e.seq = p.next, TrueEvent(d, q, e)
  PROVE  LineOK(f, d, g, q, Append(src, e), r, tgt, b, snt)
<1> DEFINE more == Append(src, e)
<1>1. /\ ShapeOK(f, d, g, q, b, snt) /\ BegunOK(f, g, q, r, tgt, b)
      /\ TruthOK(d, q, src, r, tgt, b)
  <2>1. p.next <= q.next
    BY DEF ProviderSet
  <2> QED BY <2>1, ProviderLine
<1>2. /\ more \in Seq(StreamEvents) /\ Len(more) = Len(src) + 1
      /\ \A i \in 1..Len(src) : more[i] = src[i]
      /\ more[Len(src) + 1] = e
  BY AppendProperties
<1> HIDE DEF more
<1>3. TruthOK(d, q, more, r, tgt, b)
  <2>1. ASSUME NEW i \in 1..Len(more) PROVE TrueEvent(d, q, more[i])
    <3>1. CASE i = Len(src) + 1
      BY <1>2, <3>1
    <3>2. CASE i # Len(src) + 1
      <4>1. i \in 1..Len(src)
        BY <1>2, <3>2
      <4> QED BY <1>1, <1>2, <4>1 DEF TruthOK
    <3> QED BY <3>1, <3>2
  <2> QED BY <1>1, <2>1 DEF TruthOK
<1>4. ASSUME NEW n \in Int, Continues(p, src, n) PROVE Continues(q, more, n)
  <2>1. p.next \in Nat /\ Len(src) \in Nat
    BY DEF ProviderSet
  <2>2. ASSUME NEW i \in 1..Len(more) PROVE more[i].seq = n + i
    <3>1. CASE i = Len(src) + 1
      BY <1>2, <1>4, <2>1, <3>1 DEF Continues
    <3>2. CASE i # Len(src) + 1
      BY <1>2, <1>4, <2>1, <3>2 DEF Continues
    <3> QED BY <3>1, <3>2
  <2> QED BY <1>2, <1>4, <2>1, <2>2 DEF Continues
<1>5. ASSUME NEW x, NEW n \in Int, ChainOK(p, src, r, tgt, x, n)
      PROVE  ChainOK(q, more, r, tgt, x, n)
  <2>1. n + Len(tgt) \in Int /\ n + Len(tgt) + 1 \in Int
    OBVIOUS
  <2> QED BY <1>4, <1>5, <2>1 DEF ChainOK
<1>6. Has(f, b, snt) \in Int
  <2>0. Len(StartFrames(f)) \in Nat
    BY DEF StartFrames, Frames
  <2> QED BY <2>0 DEF Has, Used, BodySet
<1> QED BY <1>1, <1>3, <1>5, <1>6 DEF LineOK, more

LEMMA PublishesFaith ==
  ASSUME StreamTypeOK, FaithInv, NEW s \in Streams, NEW q \in ProviderSet,
         NEW e \in StreamEvents, e.seq = provider[s].next, TrueEvent(DeltasOf(s), q, e),
         provider[s].at \in {"publish", "failing"},
         source' = [source EXCEPT ![s] = Append(source[s], e)],
         provider' = [provider EXCEPT ![s] = q],
         q.at # "none", q.next = provider[s].next + 1,
         q.last = provider[s].last \/ provider[s].at = "publish",
         ProviderOK(DeltasOf(s), q),
         UNCHANGED <<format, stage, relay, target, body, sent, withdrawn, late, manager>>
  PROVE  StreamTypeOK' /\ FaithInv'
<1>1. Sets(s, stage[s], q, Append(source[s], e), relay[s], target[s], body[s], sent[s])
  BY AllKept DEF Sets, Kept
<1>2. LineOK(format[s], DeltasOf(s), stage[s], q, Append(source[s], e), relay[s], target[s],
             body[s], sent[s])
  BY HereLine, HereTypes, PublishLine
<1>3. Append(source[s], e) \in Seq(StreamEvents)
  BY HereTypes
<1>4. SparesOthers(s)
  BY Spares
<1>5. TokensOK(s)'
  BY <1>1, SetsValues, HereLine DEF TokensOK, CalledOff, Inactive
<1> QED BY <1>1, <1>2, <1>3, <1>4, <1>5, HereTypes, StreamMoves

LEMMA SilentFaith ==
  ASSUME StreamTypeOK, FaithInv, NEW s \in Streams, NEW q \in ProviderSet,
         provider[s].at \in {"publish", "failing"},
         provider' = [provider EXCEPT ![s] = q],
         q.at # "none", q.next = provider[s].next,
         q.last = provider[s].last \/ provider[s].at = "publish",
         ProviderOK(DeltasOf(s), q),
         UNCHANGED withdrawn \/ (s \in withdrawn.attempt /\ Cancel(s, {"attempt"})),
         UNCHANGED <<format, stage, source, relay, target, body, sent, late, manager>>
  PROVE  StreamTypeOK' /\ FaithInv'
<1>1. Sets(s, stage[s], q, source[s], relay[s], target[s], body[s], sent[s])
  BY AllKept DEF Sets, Kept
<1>2. LineOK(format[s], DeltasOf(s), stage[s], q, source[s], relay[s], target[s],
             body[s], sent[s])
  BY HereLine, HereTypes, SilentLine
<1>3. SparesOthers(s)
  BY Spares
<1>4. TokensOK(s)'
  BY <1>1, SetsValues, CancelMarks, HereLine DEF TokensOK, CalledOff, Inactive
<1> QED BY <1>1, <1>2, <1>3, <1>4, HereTypes, StreamMoves

LEMMA ProviderFaith ==
  ASSUME StreamTypeOK, FaithInv, NEW s \in Streams, ProviderStep(s) \/ provider_panics(s)
  PROVE  StreamTypeOK' /\ FaithInv'
<1> DEFINE p == provider[s]
           d == DeltasOf(s)
<1>0. p \in ProviderSet /\ d \in Nat /\ ProviderOK(d, p)
  BY HereTypes, HereLine DEF LineOK
<1>1. CASE publish_next(s)
  <2>0. p.at = "publish" /\ UNCHANGED <<format, stage, relay, target, body, sent, withdrawn, late, manager>>
    BY <1>1 DEF publish_next
  <2>1. ASSUME NEW k \in IF p.next <= d + 1 THEN {"delta"} ELSE {"completed", "filtered"},
               Publishes(s, k),
               provider' = [provider EXCEPT ![s].at = IF k = "delta" THEN "publish" ELSE "over",
                                            ![s].next = @ + 1, ![s].last = k]
        PROVE  StreamTypeOK' /\ FaithInv'
    <3> DEFINE a == IF k = "delta" THEN "publish" ELSE "over"
               n == p.next + 1
               q == [p EXCEPT !.at = a, !.next = n, !.last = k]
    <3>1. a \in {"publish", "over"} /\ (a = "publish" <=> k = "delta") /\ k \in {"delta"} \cup Terminals
          /\ k \in {"delta", "completed", "filtered"}
      BY DEF Terminals
    <3>n. n \in Nat
      BY <1>0 DEF ProviderSet
    <3>2. provider' = [provider EXCEPT ![s] = q]
      BY <1>0, <2>1 DEF StreamTypeOK
    <3> HIDE DEF a, n
    <3>3. /\ q \in ProviderSet /\ q.at = a /\ q.next = n /\ q.last = k
      BY <1>0, <3>1, <3>n DEF ProviderSet
    <3> HIDE DEF q
    <3>4. p.next \in Nat /\ p.next <= d + 2 /\ 2 <= p.next
      BY <1>0, <2>0 DEF ProviderOK, ProviderSet
    <3>5. (k = "delta" /\ p.next <= d + 1) \/ (k # "delta" /\ p.next = d + 2)
      BY <1>0, <2>1, <3>4
    <3>6. ProviderOK(d, q)
      BY <1>0, <3>1, <3>3, <3>4, <3>5 DEF ProviderOK, n
    <3>7. TrueEvent(d, q, Event(p.next, k))
      BY <3>1, <3>3, <3>4, <3>5 DEF TrueEvent, Event, n
    <3>8. q.at # "none" /\ p.at \in {"publish", "failing"} /\ q.next = p.next + 1
      BY <2>0, <3>1, <3>3 DEF n
    <3>9. PICK e : e = Event(p.next, k)
      OBVIOUS
    <3>10. e \in StreamEvents /\ e.seq = p.next /\ TrueEvent(d, q, e)
      BY <3>1, <3>4, <3>7, <3>9 DEF Event, StreamEvents
    <3>11. source' = [source EXCEPT ![s] = Append(source[s], e)]
      BY <2>1, <3>9 DEF Publishes
    <3> QED BY <2>0, <3>2, <3>3, <3>6, <3>8, <3>10, <3>11, PublishesFaith
  <2>2. ASSUME NEW class \in {"failed", "cancelled"}, UNCHANGED source,
               provider' = [provider EXCEPT ![s].at = "failing", ![s].last = class]
        PROVE  StreamTypeOK' /\ FaithInv'
    <3> DEFINE q == [p EXCEPT !.at = "failing", !.last = class]
    <3>1. provider' = [provider EXCEPT ![s] = q]
      BY <2>2, <1>0 DEF StreamTypeOK
    <3>2. q \in ProviderSet /\ q.at = "failing" /\ q.next = p.next /\ q.last = class
      BY <1>0 DEF ProviderSet, Terminals
    <3> HIDE DEF q
    <3>3. ProviderOK(d, q)
      BY <1>0, <2>0, <3>2 DEF ProviderOK
    <3> QED BY <2>0, <2>2, <3>1, <3>2, <3>3, SilentFaith
  <2> QED BY <1>1, <2>1, <2>2 DEF publish_next
<1>2. CASE publish_terminal_failure(s)
  <2>0. /\ p.at = "failing" /\ p.last \in {"failed", "cancelled"}
        /\ UNCHANGED <<format, stage, relay, target, body, sent, late, manager>>
    BY <1>0, <1>2 DEF publish_terminal_failure, ProviderOK
  <2>1. CASE /\ s \in withdrawn.attempt /\ Cancel(s, {"attempt"}) /\ UNCHANGED source
             /\ provider' = [provider EXCEPT ![s].at = "over"]
    <3> DEFINE q == [p EXCEPT !.at = "over"]
    <3>1. provider' = [provider EXCEPT ![s] = q]
      BY <2>1
    <3>2. q \in ProviderSet /\ q.at = "over" /\ q.next = p.next /\ q.last = p.last
      BY <1>0 DEF ProviderSet
    <3> HIDE DEF q
    <3>3. ProviderOK(d, q)
      BY <1>0, <2>0, <3>2 DEF ProviderOK
    <3> QED BY <2>0, <2>1, <3>1, <3>2, <3>3, SilentFaith
  <2>2. CASE /\ Publishes(s, provider[s].last) /\ UNCHANGED withdrawn
             /\ provider' = [provider EXCEPT ![s].at = "over", ![s].next = @ + 1]
    <3> DEFINE n == p.next + 1
               q == [p EXCEPT !.at = "over", !.next = n]
    <3>n. n \in Nat
      BY <1>0 DEF ProviderSet
    <3>1. provider' = [provider EXCEPT ![s] = q]
      BY <2>2, <1>0 DEF StreamTypeOK
    <3> HIDE DEF n
    <3>2. q \in ProviderSet /\ q.at = "over" /\ q.next = n /\ q.last = p.last
      BY <1>0, <3>n DEF ProviderSet
    <3> HIDE DEF q
    <3>3. ProviderOK(d, q)
      BY <1>0, <2>0, <3>2 DEF ProviderOK, ProviderSet, n
    <3>4. TrueEvent(d, q, Event(p.next, p.last)) /\ p.last \in {"delta"} \cup Terminals
      BY <2>0, <3>2 DEF TrueEvent, Event, Terminals
    <3>5. q.at # "none" /\ p.at \in {"publish", "failing"} /\ q.next = p.next + 1
      BY <2>0, <3>2 DEF n
    <3>6. PICK e : e = Event(p.next, p.last)
      OBVIOUS
    <3>7. p.next \in Nat /\ 2 <= p.next
      BY <1>0, <2>0 DEF ProviderOK, ProviderSet
    <3>8. e \in StreamEvents /\ e.seq = p.next /\ TrueEvent(d, q, e)
      BY <3>4, <3>6, <3>7 DEF Event, StreamEvents
    <3>9. source' = [source EXCEPT ![s] = Append(source[s], e)]
      BY <2>2, <3>6 DEF Publishes
    <3> QED BY <2>0, <2>2, <3>1, <3>2, <3>3, <3>5, <3>8, <3>9, PublishesFaith
  <2> QED BY <1>2, <2>1, <2>2 DEF publish_terminal_failure
<1>3. CASE provider_panics(s)
  <2>0. p.at = "publish" /\ UNCHANGED <<format, stage, source, relay, target, body, sent, withdrawn, late, manager>>
    BY <1>3 DEF provider_panics
  <2> DEFINE q == [p EXCEPT !.at = "over", !.faulty = TRUE]
  <2>1. provider' = [provider EXCEPT ![s] = q]
    BY <1>3, <1>0 DEF provider_panics, StreamTypeOK
  <2>2. q \in ProviderSet /\ q.at = "over" /\ q.next = p.next /\ q.last = p.last
    BY <1>0 DEF ProviderSet
  <2> HIDE DEF q
  <2>3. ProviderOK(d, q)
    BY <1>0, <2>0, <2>2 DEF ProviderOK
  <2> QED BY <2>0, <2>1, <2>2, <2>3, SilentFaith
<1> QED BY <1>1, <1>2, <1>3 DEF ProviderStep

-----------------------------------------------------------------------------
\* The relay's thread.

LEMMA HeadsAreFew ==
  ASSUME NEW f
  PROVE  Len(StartFrames(f)) \in Nat
BY DEF StartFrames, Frames

LEMMA HasIsInt ==
  ASSUME NEW f, NEW b \in BodySet, NEW snt \in Seq(FrameSet)
  PROVE  Has(f, b, snt) \in Int
BY HeadsAreFew DEF Has, Used, BodySet

\* A relay that ends drops what the provider still has in its channel.
LEMMA ExitLine ==
  ASSUME NEW f, NEW d, NEW g, NEW p, NEW src, NEW r, NEW tgt, NEW b, NEW snt,
         LineOK(f, d, g, p, src, r, tgt, b, snt), r.at # "none",
         NEW q, q.at = "exited", q.event = NoEvent
  PROVE  LineOK(f, d, g, p, <<>>, q, tgt, b, snt)
<1>1. BegunOK(f, g, p, q, tgt, b)
  BY DEF LineOK, BegunOK
<1>2. TrueEvent(d, p, NoEvent)
  BY DEF TrueEvent, NoEvent, Event
<1>3. TruthOK(d, p, <<>>, q, tgt, b)
  BY <1>2 DEF LineOK, TruthOK
<1>4. \A e, n : ChainOK(p, src, r, tgt, e, n) => ChainOK(p, <<>>, q, tgt, e, n)
  BY DEF ChainOK
<1> QED BY <1>1, <1>3, <1>4 DEF LineOK

\* A relay that has nothing goes round.
LEMMA TurnLine ==
  ASSUME NEW f, NEW d, NEW g, NEW p, NEW src, NEW r, NEW tgt, NEW b, NEW snt,
         LineOK(f, d, g, p, src, r, tgt, b, snt), r.at \in {"loop", "wait"},
         NEW q, q.at \in {"loop", "wait"}, q.event = r.event
  PROVE  LineOK(f, d, g, p, src, q, tgt, b, snt)
<1>1. BegunOK(f, g, p, q, tgt, b)
  BY DEF LineOK, BegunOK
<1>2. TruthOK(d, p, src, q, tgt, b)
  BY DEF LineOK, TruthOK
<1>3. \A e, n : ChainOK(p, src, r, tgt, e, n) => ChainOK(p, src, q, tgt, e, n)
  BY DEF ChainOK
<1> QED BY <1>1, <1>2, <1>3 DEF LineOK

\* A relay takes an event, as it is or as a failure in its place.
LEMMA TakeLine ==
  ASSUME NEW f, NEW d, NEW g, NEW p \in ProviderSet, NEW src \in Seq(StreamEvents), NEW r,
         NEW tgt \in Seq(StreamEvents), NEW b \in BodySet, NEW snt \in Seq(FrameSet),
         LineOK(f, d, g, p, src, r, tgt, b, snt), r.at = "wait", src # <<>>,
         NEW q, q.at = "publish", q.event.seq = src[1].seq, TrueEvent(d, p, q.event),
         q.event \in StreamEvents
  PROVE  LineOK(f, d, g, p, Tail(src), q, tgt, b, snt)
<1> DEFINE rest == Tail(src)
<1>1. /\ rest \in Seq(StreamEvents) /\ Len(rest) = Len(src) - 1 /\ Len(src) \in Nat /\ Len(src) > 0
      /\ \A i \in 1..Len(rest) : rest[i] = src[i + 1]
  BY HeadTailProperties
<1> HIDE DEF rest
<1>2. BegunOK(f, g, p, q, tgt, b)
  BY DEF LineOK, BegunOK
<1>3. TruthOK(d, p, rest, q, tgt, b)
  <2>1. \A i \in 1..Len(rest) : TrueEvent(d, p, rest[i])
    BY <1>1 DEF LineOK, TruthOK
  <2> QED BY <2>1 DEF LineOK, TruthOK
<1>4. ASSUME NEW e, NEW n \in Int, ChainOK(p, src, r, tgt, e, n)
      PROVE  ChainOK(p, rest, q, tgt, e, n)
  <2>1. Continues(p, src, n + Len(tgt))
    BY <1>4 DEF ChainOK
  <2>2. src[1].seq = n + Len(tgt) + 1
    BY <1>1, <2>1 DEF Continues
  <2>3. Continues(p, rest, n + Len(tgt) + 1)
    <3>1. \A i \in 1..Len(rest) : rest[i].seq = n + Len(tgt) + 1 + i
      BY <1>1, <2>1 DEF Continues
    <3> QED BY <1>1, <2>1, <3>1 DEF Continues
  <2> QED BY <1>4, <2>2, <2>3 DEF ChainOK
<1> QED BY <1>2, <1>3, <1>4, HasIsInt DEF LineOK, rest

\* A relay finds the provider's channel closed.
LEMMA ClosedLine ==
  ASSUME NEW f, NEW d, NEW g, NEW p \in ProviderSet, NEW r,
         NEW tgt \in Seq(StreamEvents), NEW b \in BodySet, NEW snt \in Seq(FrameSet),
         LineOK(f, d, g, p, <<>>, r, tgt, b, snt), r.at = "wait",
         p.at \notin {"publish", "failing"},
         NEW q, q.at = "publish", q.event = Event(p.next, "failed")
  PROVE  LineOK(f, d, g, p, <<>>, q, tgt, b, snt) /\ q.event \in StreamEvents
<1>1. BegunOK(f, g, p, q, tgt, b)
  BY DEF LineOK, BegunOK
<1>2. q.event \in StreamEvents => TruthOK(d, p, <<>>, q, tgt, b)
  BY DEF LineOK, TruthOK, TrueEvent, Event
<1>3. ASSUME NEW e, NEW n \in Int, ChainOK(p, <<>>, r, tgt, e, n)
      PROVE  ChainOK(p, <<>>, q, tgt, e, n)
  BY <1>3 DEF ChainOK, Continues, Event
<1>4. p.next \in Nat \ {0}
  BY DEF LineOK, ProviderOK, ProviderSet
<1>5. q.event \in StreamEvents
  BY <1>4 DEF Event, StreamEvents, Terminals
<1> QED BY <1>1, <1>2, <1>3, <1>5, HasIsInt DEF LineOK

\* A relay hands its event on, and ends if it was the last.
LEMMA ForwardLine ==
  ASSUME NEW f, NEW d, NEW g, NEW p \in ProviderSet, NEW src \in Seq(StreamEvents), NEW r \in RelaySet,
         NEW tgt \in Seq(StreamEvents), NEW b \in BodySet, NEW snt \in Seq(FrameSet),
         LineOK(f, d, g, p, src, r, tgt, b, snt), r.at = "publish", r.event \in StreamEvents
  PROVE  /\ \A q : q.at = "exited" /\ q.event = NoEvent =>
                     LineOK(f, d, g, p, <<>>, q, Append(tgt, r.event), b, snt)
         /\ \A q : q.at = "loop" /\ q.event = NoEvent /\ r.event.kind \notin Terminals =>
                     LineOK(f, d, g, p, src, q, Append(tgt, r.event), b, snt)
<1> DEFINE more == Append(tgt, r.event)
<1>1. /\ more \in Seq(StreamEvents) /\ Len(more) = Len(tgt) + 1 /\ Len(tgt) \in Nat
      /\ \A i \in 1..Len(tgt) : more[i] = tgt[i]
      /\ more[Len(tgt) + 1] = r.event
  BY AppendProperties
<1> HIDE DEF more
<1>0. r.event.kind \notin Terminals => r.event.kind # "failed"
  BY DEF Terminals
<1>2. TrueEvent(d, p, NoEvent)
  BY DEF TrueEvent, NoEvent, Event
<1>3. \A i \in 1..Len(more) : TrueEvent(d, p, more[i])
  <2> SUFFICES ASSUME NEW i \in 1..Len(more) PROVE TrueEvent(d, p, more[i])
    OBVIOUS
  <2>1. CASE i = Len(tgt) + 1
    BY <1>1, <2>1 DEF LineOK, TruthOK
  <2>2. CASE i # Len(tgt) + 1
    BY <1>1, <2>2 DEF LineOK, TruthOK
  <2> QED BY <2>1, <2>2
<1>4. ASSUME NEW e, NEW n \in Int, ChainOK(p, src, r, tgt, e, n)
      PROVE  /\ e.seq > 0 => e.seq = n
             /\ \A i \in 1..Len(more) : more[i].seq = n + i
             /\ r.event.kind \notin Terminals => Continues(p, src, n + Len(more))
  <2>1. r.event.seq = n + Len(tgt) + 1
    BY <1>4 DEF ChainOK
  <2>2. \A i \in 1..Len(more) : more[i].seq = n + i
    <3> SUFFICES ASSUME NEW i \in 1..Len(more) PROVE more[i].seq = n + i
      OBVIOUS
    <3>1. CASE i = Len(tgt) + 1
      BY <1>1, <2>1, <3>1
    <3>2. CASE i # Len(tgt) + 1
      BY <1>1, <1>4, <3>2 DEF ChainOK
    <3> QED BY <3>1, <3>2
  <2>3. r.event.kind \notin Terminals => Continues(p, src, n + Len(tgt) + 1)
    BY <1>0, <1>4 DEF ChainOK
  <2>4. n + Len(more) = n + Len(tgt) + 1
    BY <1>1
  <2> QED BY <1>4, <2>2, <2>3, <2>4 DEF ChainOK
<1>5. ASSUME NEW q, q.at \in {"loop", "exited"}, q.event = NoEvent,
             NEW src2, src2 = <<>> \/ src2 = src, q.at = "loop" => src2 = src /\ r.event.kind \notin Terminals
      PROVE  LineOK(f, d, g, p, src2, q, more, b, snt)
  <2>1. BegunOK(f, g, p, q, more, b)
    BY <1>5 DEF LineOK, BegunOK
  <2>2. TruthOK(d, p, src2, q, more, b)
    BY <1>2, <1>3, <1>5 DEF LineOK, TruthOK
  <2>3. \A e : \A n \in Int : ChainOK(p, src, r, tgt, e, n) => ChainOK(p, src2, q, more, e, n)
    BY <1>4, <1>5 DEF ChainOK
  <2> QED BY <2>1, <2>2, <2>3, HasIsInt DEF LineOK
<1> QED BY <1>5 DEF more

LEMMA ExitFaith ==
  ASSUME StreamTypeOK, FaithInv, NEW s \in Streams, NEW tgt \in Seq(StreamEvents),
         NEW x \in {"Healthy", "Unhealthy"}, NEW halted, Relaying(s),
         Exit(s, x, halted), halted => ~is_active(s),
         LineOK(format[s], DeltasOf(s), stage[s], provider[s], <<>>,
                [at |-> "exited", event |-> NoEvent, exit |-> x], tgt, body[s], sent[s]),
         target' = [target EXCEPT ![s] = tgt],
         UNCHANGED <<format, stage, provider, body, sent, late, manager>>
  PROVE  StreamTypeOK' /\ FaithInv'
<1> DEFINE r == [at |-> "exited", event |-> NoEvent, exit |-> x]
<1>1. r \in RelaySet /\ <<>> \in Seq(StreamEvents)
  BY DEF RelaySet, RelayPlaces
<1>2. Sets(s, stage[s], provider[s], <<>>, r, tgt, body[s], sent[s])
  BY AllKept DEF Sets, Kept, Exit
<1>3. SparesOthers(s)
  BY Spares DEF Exit
<1>4. r.at = "exited"
  OBVIOUS
<1> HIDE DEF r
<1>5. TokensOK(s)'
  <2>1. /\ s \in withdrawn'.request <=> s \in withdrawn.request
        /\ s \in withdrawn'.output <=> s \in withdrawn.output \/ halted
    BY CancelMarks DEF Exit
  <2>2. ~is_active(s) /\ Live(body[s]) => CalledOff(s)
    BY HereLine DEF is_active, AttemptInactive, TokensOK, CalledOff, Inactive, Relaying
  <2> QED BY <1>2, <1>4, <2>1, <2>2, SetsValues, HereLine DEF TokensOK, CalledOff, Inactive
<1> QED BY <1>1, <1>2, <1>3, <1>5, HereTypes, StreamMoves DEF r

\* A relay that does not end.
LEMMA RelayGoesOn ==
  ASSUME StreamTypeOK, FaithInv, manager \in Managers, NEW s \in Streams, NEW src \in Seq(StreamEvents),
         NEW r \in RelaySet, NEW tgt \in Seq(StreamEvents), Relaying(s), r.at # "exited",
         LineOK(format[s], DeltasOf(s), stage[s], provider[s], src, r, tgt, body[s], sent[s]),
         source' = [source EXCEPT ![s] = src], relay' = [relay EXCEPT ![s] = r],
         target' = [target EXCEPT ![s] = tgt],
         UNCHANGED <<format, stage, provider, body, sent, withdrawn, late>>,
         manager' = manager \/ \E u \in BOOLEAN : manager' = [manager EXCEPT !.unhealthy = u]
  PROVE  StreamTypeOK' /\ FaithInv'
<1>1. Sets(s, stage[s], provider[s], src, r, tgt, body[s], sent[s])
  BY AllKept DEF Sets, Kept
<1>2. manager'.shutdown = manager.shutdown
  BY DEF Managers
<1>3. SparesOthers(s)
  BY <1>2, Spares
<1>4. TokensOK(s)'
  BY <1>1, <1>2, SetsValues, HereLine DEF TokensOK, CalledOff, Inactive, Relaying
<1> QED BY <1>1, <1>3, <1>4, HereTypes, StreamMoves

LEMMA RelayLoopFaith ==
  ASSUME StreamTypeOK, FaithInv, manager \in Managers, NEW s \in Streams, relay_loop(s)
  PROVE  StreamTypeOK' /\ FaithInv'
<1>0. Relaying(s) /\ relay[s].at = "loop"
  BY DEF relay_loop, Relaying
<1>1. CASE is_active(s)
  <2> DEFINE r == [relay[s] EXCEPT !.at = "wait"]
  <2>1. r \in RelaySet /\ r.at = "wait" /\ r.event = relay[s].event
    BY HereTypes DEF RelaySet, RelayPlaces
  <2>2. relay' = [relay EXCEPT ![s] = r]
    BY <1>1 DEF relay_loop
  <2> HIDE DEF r
  <2>3. LineOK(format[s], DeltasOf(s), stage[s], provider[s], source[s], r, target[s], body[s], sent[s])
    BY <1>0, <2>1, HereLine, TurnLine
  <2>4. source' = [source EXCEPT ![s] = source[s]] /\ target' = [target EXCEPT ![s] = target[s]]
    BY <1>1, AllKept DEF relay_loop, Kept
  <2> QED BY <1>0, <1>1, <2>1, <2>2, <2>3, <2>4, HereTypes, RelayGoesOn DEF relay_loop
<1>2. CASE ~is_active(s)
  <2>1. LineOK(format[s], DeltasOf(s), stage[s], provider[s], <<>>,
               [at |-> "exited", event |-> NoEvent, exit |-> "Healthy"], target[s], body[s], sent[s])
    BY <1>0, HereLine, ExitLine
  <2>2. target' = [target EXCEPT ![s] = target[s]]
    BY AllKept DEF relay_loop, Kept
  <2> QED BY <1>0, <1>2, <2>1, <2>2, HereTypes, ExitFaith DEF relay_loop
<1> QED BY <1>1, <1>2

LEMMA RelayReceiveFaith ==
  ASSUME StreamTypeOK, FaithInv, manager \in Managers, NEW s \in Streams, relay_receive(s)
  PROVE  StreamTypeOK' /\ FaithInv'
<1>0. /\ Relaying(s) /\ relay[s].at = "wait"
      /\ UNCHANGED <<format, stage, provider, body, sent, withdrawn, late>>
      /\ target' = [target EXCEPT ![s] = target[s]]
  BY AllKept DEF relay_receive, Relaying, Kept
<1>1. CASE /\ source[s] # <<>>
           /\ LET e == project_event(Head(source[s])) IN
              /\ relay' = [relay EXCEPT ![s] = [at |-> "publish", event |-> e.event, exit |-> e.exit]]
              /\ manager' = [manager EXCEPT !.unhealthy = @ \/ e.exit = "Unhealthy"]
           /\ source' = [source EXCEPT ![s] = Tail(@)]
  <2> DEFINE h == source[s][1]
  <2>1. Head(source[s]) = h /\ h \in StreamEvents /\ 1 \in 1..Len(source[s])
        /\ Tail(source[s]) \in Seq(StreamEvents)
    BY <1>1, HereTypes, HeadTailProperties
  <2>2. PICK e : e = project_event(h)
    OBVIOUS
  <2>3. TrueEvent(DeltasOf(s), provider[s], h)
    BY <2>1, HereLine DEF LineOK, TruthOK
  <2> HIDE DEF h
  <2>4. /\ e.event \in StreamEvents /\ e.event.seq = h.seq /\ e.exit \in {"Healthy", "Unhealthy"}
        /\ TrueEvent(DeltasOf(s), provider[s], e.event)
    <3>1. CASE h.kind = "wrong"
      BY <2>1, <2>2, <3>1 DEF project_event, Event, StreamEvents, TrueEvent, Terminals
    <3>2. CASE h.kind # "wrong"
      BY <2>1, <2>2, <2>3, <3>2 DEF project_event
    <3> QED BY <3>1, <3>2
  <2> DEFINE r == [at |-> "publish", event |-> e.event, exit |-> e.exit]
             u == manager.unhealthy \/ e.exit = "Unhealthy"
  <2>5. r \in RelaySet /\ r.at = "publish" /\ r.event = e.event
    BY <2>4 DEF RelaySet, RelayPlaces
  <2>6. relay' = [relay EXCEPT ![s] = r] /\ source' = [source EXCEPT ![s] = Tail(source[s])]
    BY <1>1, <2>1, <2>2
  <2>7. u \in BOOLEAN /\ manager' = [manager EXCEPT !.unhealthy = u]
    BY <1>1, <2>1, <2>2
  <2> HIDE DEF r, u
  <2>8. LineOK(format[s], DeltasOf(s), stage[s], provider[s], Tail(source[s]), r, target[s],
               body[s], sent[s])
    BY <1>0, <1>1, <2>4, <2>5, HereLine, HereTypes, TakeLine DEF h
  <2> QED BY <1>0, <2>1, <2>5, <2>6, <2>7, <2>8, HereTypes, RelayGoesOn
<1>2. CASE /\ source[s] = <<>> /\ ~ProviderOpen(s)
           /\ relay' = [relay EXCEPT ![s] = [at |-> "publish", exit |-> "Unhealthy",
                                             event |-> Event(provider[s].next, "failed")]]
           /\ manager' = [manager EXCEPT !.unhealthy = TRUE]
           /\ UNCHANGED source
  <2> DEFINE r == [at |-> "publish", exit |-> "Unhealthy", event |-> Event(provider[s].next, "failed")]
  <2>1. r.at = "publish" /\ r.event = Event(provider[s].next, "failed") /\ r.exit = "Unhealthy"
        /\ relay' = [relay EXCEPT ![s] = r] /\ provider[s].at \notin {"publish", "failing"}
    BY <1>2 DEF ProviderOpen
  <2>2. LineOK(format[s], DeltasOf(s), stage[s], provider[s], <<>>, r, target[s], body[s], sent[s])
        /\ r.event \in StreamEvents
    <3> HIDE DEF r
    <3>1. LineOK(format[s], DeltasOf(s), stage[s], provider[s], <<>>, relay[s], target[s],
                 body[s], sent[s])
      BY <1>2, HereLine
    <3> QED BY <1>0, <2>1, <3>1, HereTypes, ClosedLine
  <2>3. r \in RelaySet
    BY <2>2 DEF RelaySet, RelayPlaces
  <2>4. source' = [source EXCEPT ![s] = <<>>] /\ <<>> \in Seq(StreamEvents)
    BY <1>2, AllKept DEF Kept
  <2> HIDE DEF r
  <2> QED BY <1>0, <1>2, <2>1, <2>2, <2>3, <2>4, HereTypes, RelayGoesOn
<1>3. CASE relay' = [relay EXCEPT ![s].at = "loop"] /\ UNCHANGED <<source, manager>>
  <2> DEFINE r == [relay[s] EXCEPT !.at = "loop"]
  <2>1. r \in RelaySet /\ r.at = "loop" /\ r.event = relay[s].event
    BY HereTypes DEF RelaySet, RelayPlaces
  <2>2. relay' = [relay EXCEPT ![s] = r]
    BY <1>3
  <2> HIDE DEF r
  <2>3. LineOK(format[s], DeltasOf(s), stage[s], provider[s], source[s], r, target[s], body[s], sent[s])
    BY <1>0, <2>1, HereLine, TurnLine
  <2>4. source' = [source EXCEPT ![s] = source[s]]
    BY <1>3, AllKept DEF Kept
  <2> QED BY <1>0, <1>3, <2>1, <2>2, <2>3, <2>4, HereTypes, RelayGoesOn
<1> QED BY <1>1, <1>2, <1>3 DEF relay_receive

LEMMA PublishOnceFaith ==
  ASSUME StreamTypeOK, FaithInv, manager \in Managers, NEW s \in Streams, publish_once(s)
  PROVE  StreamTypeOK' /\ FaithInv'
<1> DEFINE x == relay[s].exit
           e == relay[s].event
<1>0. /\ Relaying(s) /\ relay[s].at = "publish" /\ e \in StreamEvents
      /\ x \in {"Healthy", "Unhealthy"}
      /\ UNCHANGED <<format, stage, provider, body, sent, late, manager>>
  BY HereLine, HereTypes DEF publish_once, Relaying, LineOK, TruthOK, RelaySet
<1>1. CASE Exit(s, x, ~is_active(s)) /\ UNCHANGED target
  <2>1. LineOK(format[s], DeltasOf(s), stage[s], provider[s], <<>>,
               [at |-> "exited", event |-> NoEvent, exit |-> x], target[s], body[s], sent[s])
    BY <1>0, HereLine, ExitLine
  <2>2. target' = [target EXCEPT ![s] = target[s]]
    BY <1>1, AllKept DEF Kept
  <2> HIDE DEF x
  <2> QED BY <1>0, <1>1, <2>1, <2>2, HereTypes, ExitFaith
<1>2. CASE /\ target' = [target EXCEPT ![s] = Append(@, e)]
           /\ Exit(s, x, FALSE)
  <2>1. LineOK(format[s], DeltasOf(s), stage[s], provider[s], <<>>,
               [at |-> "exited", event |-> NoEvent, exit |-> x], Append(target[s], e), body[s], sent[s])
    BY <1>0, HereLine, HereTypes, ForwardLine
  <2>2. Append(target[s], e) \in Seq(StreamEvents) /\ target' = [target EXCEPT ![s] = Append(target[s], e)]
    BY <1>0, <1>2, HereTypes
  <2> HIDE DEF x, e
  <2> QED BY <1>0, <1>2, <2>1, <2>2, HereTypes, ExitFaith
<1>3. CASE /\ target' = [target EXCEPT ![s] = Append(@, e)] /\ e.kind \notin Terminals
           /\ relay' = [relay EXCEPT ![s].at = "loop", ![s].event = NoEvent]
           /\ UNCHANGED <<source, withdrawn>>
  <2> DEFINE r == [relay[s] EXCEPT !.at = "loop", !.event = NoEvent]
  <2>1. r \in RelaySet /\ r.at = "loop" /\ r.event = NoEvent
    BY HereTypes DEF RelaySet, RelayPlaces
  <2>2. relay' = [relay EXCEPT ![s] = r]
    BY <1>3, HereTypes DEF StreamTypeOK
  <2> HIDE DEF r
  <2>3. LineOK(format[s], DeltasOf(s), stage[s], provider[s], source[s], r, Append(target[s], e),
               body[s], sent[s])
    BY <1>0, <1>3, <2>1, HereLine, HereTypes, ForwardLine
  <2>4. Append(target[s], e) \in Seq(StreamEvents) /\ target' = [target EXCEPT ![s] = Append(target[s], e)]
        /\ source' = [source EXCEPT ![s] = source[s]]
    BY <1>0, <1>3, HereTypes, AllKept DEF Kept
  <2> HIDE DEF e
  <2> QED BY <1>0, <1>3, <2>1, <2>2, <2>3, <2>4, HereTypes, RelayGoesOn
<1> QED BY <1>1, <1>2, <1>3 DEF publish_once

-----------------------------------------------------------------------------
\* The receive task.

\* A task goes on, or brings no event.
LEMMA IdleLine ==
  ASSUME NEW f, NEW d, NEW g \in {"body", "gone"}, NEW p, NEW src, NEW r, NEW tgt, NEW b, NEW snt,
         LineOK(f, d, g, p, src, r, tgt, b, snt), b.outcome.seq = 0,
         NEW c, c.state = b.state, c.queue = b.queue, TaskOK(c), c.outcome.seq = 0,
         c.outcome.kind \notin {"delta"} \cup Terminals
  PROVE  LineOK(f, d, g, p, src, r, tgt, c, snt)
<1>1. ShapeOK(f, d, g, p, c, snt)
  BY DEF LineOK, ShapeOK, OpenOK, TerminalOK
<1>2. BegunOK(f, g, p, r, tgt, c)
  BY DEF LineOK, BegunOK
<1>3. TruthOK(d, p, src, r, tgt, c)
  BY DEF LineOK, TruthOK, TrueEvent, Terminals
<1>4. Live(c) <=> Live(b)
  BY DEF Live
<1>5. Has(f, c, snt) = Has(f, b, snt)
  BY DEF Has, Used
<1>6. \A n : ChainOK(p, src, r, tgt, b.outcome, n) => ChainOK(p, src, r, tgt, c.outcome, n)
  BY DEF ChainOK
<1> QED BY <1>1, <1>2, <1>3, <1>4, <1>5, <1>6 DEF LineOK

\* A task has an event, for the body or for nobody.
LEMMA BringLine ==
  ASSUME NEW f, NEW d, NEW g \in {"body", "gone"}, NEW p, NEW src, NEW r, NEW tgt \in Seq(StreamEvents),
         NEW b \in BodySet, NEW snt \in Seq(FrameSet),
         LineOK(f, d, g, p, src, r, tgt, b, snt), b.outcome.seq = 0, tgt # <<>>,
         NEW c, c.state = b.state, c.queue = b.queue, TaskOK(c),
         \/ c.outcome = tgt[1]
         \/ c.outcome = NoEvent /\ ~Live(b)
  PROVE  LineOK(f, d, g, p, src, r, Tail(tgt), c, snt)
<1> DEFINE rest == Tail(tgt)
<1>0. /\ Len(rest) = Len(tgt) - 1 /\ Len(tgt) \in Nat /\ Len(tgt) > 0
      /\ \A i \in 1..Len(rest) : rest[i] = tgt[i + 1]
      /\ tgt[1] \in StreamEvents
  BY HeadTailProperties
<1> HIDE DEF rest
<1>1. ShapeOK(f, d, g, p, c, snt)
  BY DEF LineOK, ShapeOK, OpenOK, TerminalOK
<1>2. BegunOK(f, g, p, r, rest, c)
  BY DEF LineOK, BegunOK
<1>3. TruthOK(d, p, src, r, rest, c)
  <2>1. TrueEvent(d, p, NoEvent)
    BY DEF TrueEvent, NoEvent, Event
  <2>2. TrueEvent(d, p, tgt[1]) /\ \A i \in 1..Len(rest) : TrueEvent(d, p, rest[i])
    BY <1>0 DEF LineOK, TruthOK
  <2> QED BY <2>1, <2>2 DEF LineOK, TruthOK
<1>4. ASSUME Live(c), g # "gone"
      PROVE  ChainOK(p, src, r, rest, c.outcome, Has(f, c, snt))
  <2>1. Live(b) /\ c.outcome = tgt[1]
    BY <1>4 DEF Live
  <2> DEFINE n == Has(f, b, snt)
  <2>2. n \in Int /\ ChainOK(p, src, r, tgt, b.outcome, n)
    BY <1>4, <2>1, HasIsInt DEF LineOK
  <2>3. Has(f, c, snt) = n + 1
    <3>1. Used(f, c, snt) = Used(f, b, snt) /\ Used(f, b, snt) \in Int
      BY HeadsAreFew DEF Used, BodySet
    <3>2. c.outcome.seq > 0
      BY <1>0, <2>1 DEF StreamEvents
    <3> QED BY <3>1, <3>2 DEF Has
  <2> HIDE DEF n
  <2>4. tgt[1].seq = n + 1 /\ \A i \in 1..Len(rest) : rest[i].seq = n + 1 + i
    <3>1. \A i \in 1..Len(tgt) : tgt[i].seq = n + i
      BY <2>2 DEF ChainOK
    <3> QED BY <1>0, <2>2, <3>1
  <2>5. n + 1 + Len(rest) = n + Len(tgt)
    BY <1>0, <2>2
  <2>6. ChainOK(p, src, r, rest, tgt[1], n + 1)
    BY <2>2, <2>4, <2>5 DEF ChainOK
  <2> QED BY <2>1, <2>3, <2>6
<1> QED BY <1>1, <1>2, <1>3, <1>4 DEF LineOK, rest

\* A step of the task.
LEMMA TaskFaith ==
  ASSUME StreamTypeOK, FaithInv, NEW s \in Streams, NEW tgt \in Seq(StreamEvents), NEW c \in BodySet,
         c.state = body[s].state, c.queue = body[s].queue,
         LineOK(format[s], DeltasOf(s), stage[s], provider[s], source[s], relay[s], tgt, c, sent[s]),
         c.outcome.kind = "stopped" => CalledOff(s),
         target' = [target EXCEPT ![s] = tgt], body' = [body EXCEPT ![s] = c],
         UNCHANGED <<format, stage, provider, source, relay, sent, withdrawn, late, manager>>
  PROVE  StreamTypeOK' /\ FaithInv'
<1>1. Sets(s, stage[s], provider[s], source[s], relay[s], tgt, c, sent[s])
  BY AllKept DEF Sets, Kept
<1>2. SparesOthers(s)
  BY Spares
<1>3. TokensOK(s)'
  BY <1>1, SetsValues, HereLine DEF TokensOK, CalledOff, Inactive, Live
<1> QED BY <1>1, <1>2, <1>3, HereTypes, StreamMoves

\* What a receive that ends leaves in the body.
LEMMA ReceiveEndsBody ==
  ASSUME StreamTypeOK, FaithInv, NEW s \in Streams, NEW e \in StreamEvents \cup Signals,
         body[s].task \in {"check", "wait"}, ReceiveEnds(s, e)
  PROVE  \E c \in BodySet :
           /\ body' = [body EXCEPT ![s] = c]
           /\ c.state = body[s].state /\ c.queue = body[s].queue /\ TaskOK(c)
           /\ IF Live(body[s]) THEN c.outcome = e ELSE c.outcome = NoEvent
<1> DEFINE b == body[s]
           t == IF b.detached THEN "none" ELSE "done"
           u == ~b.detached
           o == IF b.detached THEN NoEvent ELSE e
           c == [b EXCEPT !.task = t, !.subscribed = u, !.outcome = o]
<1>0. b \in BodySet /\ TaskOK(b)
  BY HereTypes, HereLine DEF LineOK
<1>1. body' = [body EXCEPT ![s] = c]
  BY <1>0 DEF ReceiveEnds, StreamTypeOK
<1>2. /\ t \in {"none", "done"} /\ u \in BOOLEAN /\ o \in StreamEvents \cup Signals
      /\ b.detached => t = "none" /\ o = NoEvent
      /\ ~b.detached => t = "done" /\ o = e
  BY DEF NoEvent, Event, Signals
<1> HIDE DEF t, u, o
<1>3. /\ c \in BodySet /\ c.state = b.state /\ c.queue = b.queue /\ c.task = t /\ c.outcome = o
      /\ c.detached = b.detached
  BY <1>0, <1>2 DEF BodySet
<1> HIDE DEF c
<1>4. b.detached <=> ~Live(b)
  BY <1>0 DEF TaskOK, Live
<1>5. TaskOK(c)
  BY <1>0, <1>2, <1>3, <1>4 DEF TaskOK, Live
<1> QED BY <1>1, <1>2, <1>3, <1>4, <1>5

LEMMA ReceiveCheckFaith ==
  ASSUME StreamTypeOK, FaithInv, NEW s \in Streams, receive_check(s)
  PROVE  StreamTypeOK' /\ FaithInv'
<1> DEFINE b == body[s]
<1>0. /\ b \in BodySet /\ TaskOK(b) /\ b.task = "check" /\ b.outcome = NoEvent /\ b.outcome.seq = 0
      /\ stage[s] \in {"body", "gone"}
      /\ target' = [target EXCEPT ![s] = target[s]]
      /\ UNCHANGED <<format, stage, provider, source, relay, sent, withdrawn, late, manager>>
  BY HereTypes, HereLine, AllKept DEF receive_check, LineOK, TaskOK, BegunOK, NoEvent, Event, Kept
<1>1. CASE /\ (format[s] # "bridge" /\ Inactive(s)) \/ s \in withdrawn.output
           /\ ReceiveEnds(s, Event(0, "stopped"))
  <2>1. Event(0, "stopped") \in StreamEvents \cup Signals
    BY DEF Event, Signals
  <2>2. PICK c \in BodySet :
           /\ body' = [body EXCEPT ![s] = c]
           /\ c.state = body[s].state /\ c.queue = body[s].queue /\ TaskOK(c)
           /\ IF Live(body[s]) THEN c.outcome = Event(0, "stopped") ELSE c.outcome = NoEvent
    BY <1>0, <1>1, <2>1, ReceiveEndsBody
  <2>3. c.outcome.seq = 0 /\ c.outcome.kind \notin {"delta"} \cup Terminals
        /\ (c.outcome.kind = "stopped" => Live(b))
    BY <2>2 DEF NoEvent, Event, Terminals
  <2>4. LineOK(format[s], DeltasOf(s), stage[s], provider[s], source[s], relay[s], target[s], c, sent[s])
    BY <1>0, <2>2, <2>3, HereLine, IdleLine
  <2>5. c.outcome.kind = "stopped" => CalledOff(s)
    BY <1>1, <2>3, HereLine DEF TokensOK, CalledOff
  <2> QED BY <1>0, <2>2, <2>4, <2>5, HereTypes, TaskFaith
<1>2. CASE body' = [body EXCEPT ![s].task = "wait"]
  <2> DEFINE c == [b EXCEPT !.task = "wait"]
  <2>1. /\ c \in BodySet /\ c.state = b.state /\ c.queue = b.queue /\ c.task = "wait"
        /\ c.outcome = b.outcome /\ c.detached = b.detached
    BY <1>0 DEF BodySet
  <2>2. body' = [body EXCEPT ![s] = c]
    BY <1>2
  <2> HIDE DEF c
  <2>3. TaskOK(c) /\ c.outcome.seq = 0 /\ c.outcome.kind = "none"
    BY <1>0, <2>1 DEF TaskOK, Live, NoEvent, Event
  <2>4. LineOK(format[s], DeltasOf(s), stage[s], provider[s], source[s], relay[s], target[s], c, sent[s])
    BY <1>0, <2>1, <2>3, HereLine, IdleLine DEF Terminals
  <2> QED BY <1>0, <2>1, <2>2, <2>3, <2>4, HereTypes, TaskFaith
<1> QED BY <1>1, <1>2 DEF receive_check

LEMMA ReceiveWaitFaith ==
  ASSUME StreamTypeOK, FaithInv, NEW s \in Streams, receive_wait(s)
  PROVE  StreamTypeOK' /\ FaithInv'
<1> DEFINE b == body[s]
<1>0. /\ b \in BodySet /\ TaskOK(b) /\ b.task = "wait" /\ b.outcome = NoEvent /\ b.outcome.seq = 0
      /\ stage[s] \in {"body", "gone"}
      /\ UNCHANGED <<format, stage, provider, source, relay, sent, withdrawn, late, manager>>
  BY HereTypes, HereLine DEF receive_wait, LineOK, TaskOK, BegunOK, NoEvent, Event
<1>1. CASE /\ target[s] # <<>>
           /\ ReceiveEnds(s, Head(target[s])) /\ target' = [target EXCEPT ![s] = Tail(@)]
  <2>1. /\ Head(target[s]) = target[s][1] /\ target[s][1] \in StreamEvents
        /\ Tail(target[s]) \in Seq(StreamEvents)
    BY <1>1, HereTypes, HeadTailProperties
  <2>2. PICK c \in BodySet :
           /\ body' = [body EXCEPT ![s] = c]
           /\ c.state = body[s].state /\ c.queue = body[s].queue /\ TaskOK(c)
           /\ IF Live(body[s]) THEN c.outcome = target[s][1] ELSE c.outcome = NoEvent
    BY <1>0, <1>1, <2>1, ReceiveEndsBody
  <2>3. LineOK(format[s], DeltasOf(s), stage[s], provider[s], source[s], relay[s], Tail(target[s]),
               c, sent[s])
    BY <1>0, <1>1, <2>2, HereLine, HereTypes, BringLine
  <2>4. c.outcome.kind # "stopped"
    BY <2>1, <2>2 DEF StreamEvents, Terminals, NoEvent, Event
  <2>5. target' = [target EXCEPT ![s] = Tail(target[s])]
    BY <1>1
  <2> QED BY <1>0, <2>1, <2>2, <2>3, <2>4, <2>5, HereTypes, TaskFaith
<1>2. ASSUME NEW k \in {"closed", "heartbeat"}, ReceiveEnds(s, Event(0, k)), UNCHANGED target
      PROVE  StreamTypeOK' /\ FaithInv'
  <2>1. Event(0, k) \in StreamEvents \cup Signals
    BY DEF Event, Signals
  <2>2. PICK c \in BodySet :
           /\ body' = [body EXCEPT ![s] = c]
           /\ c.state = body[s].state /\ c.queue = body[s].queue /\ TaskOK(c)
           /\ IF Live(body[s]) THEN c.outcome = Event(0, k) ELSE c.outcome = NoEvent
    BY <1>0, <1>2, <2>1, ReceiveEndsBody
  <2>3. c.outcome.seq = 0 /\ c.outcome.kind \notin {"delta"} \cup Terminals
        /\ c.outcome.kind # "stopped"
    BY <2>2 DEF NoEvent, Event, Terminals
  <2>4. LineOK(format[s], DeltasOf(s), stage[s], provider[s], source[s], relay[s], target[s], c, sent[s])
    BY <1>0, <2>2, <2>3, HereLine, IdleLine
  <2>5. target' = [target EXCEPT ![s] = target[s]]
    BY <1>2, AllKept DEF Kept
  <2> QED BY <1>0, <2>2, <2>3, <2>4, <2>5, HereTypes, TaskFaith
<1>3. CASE body' = [body EXCEPT ![s].task = "check"] /\ UNCHANGED target
  <2> DEFINE c == [b EXCEPT !.task = "check"]
  <2>1. /\ c \in BodySet /\ c.state = b.state /\ c.queue = b.queue /\ c.task = "check"
        /\ c.outcome = b.outcome /\ c.detached = b.detached
    BY <1>0 DEF BodySet
  <2>2. body' = [body EXCEPT ![s] = c] /\ target' = [target EXCEPT ![s] = target[s]]
    BY <1>3, AllKept DEF Kept
  <2> HIDE DEF c
  <2>3. TaskOK(c) /\ c.outcome.seq = 0 /\ c.outcome.kind = "none"
    BY <1>0, <2>1 DEF TaskOK, Live, NoEvent, Event
  <2>4. LineOK(format[s], DeltasOf(s), stage[s], provider[s], source[s], relay[s], target[s], c, sent[s])
    BY <1>0, <2>1, <2>3, HereLine, IdleLine DEF Terminals
  <2> QED BY <1>0, <2>1, <2>2, <2>3, <2>4, HereTypes, TaskFaith
<1> QED BY <1>1, <1>2, <1>3 DEF receive_wait

-----------------------------------------------------------------------------
\* The response body.

LEMMA Added ==
  ASSUME NEW S, NEW q \in Seq(S), NEW x \in S
  PROVE  /\ q \o <<x>> \in Seq(S) /\ Len(q \o <<x>>) = Len(q) + 1 /\ Len(q) \in Nat
         /\ \A i \in 1..Len(q) : (q \o <<x>>)[i] = q[i]
         /\ (q \o <<x>>)[Len(q) + 1] = x
OBVIOUS

LEMMA FramesOf ==
  ASSUME NEW kinds \in Seq(FrameKinds)
  PROVE  /\ Frames(kinds) \in Seq(FrameSet) /\ Len(Frames(kinds)) = Len(kinds)
         /\ \A i \in 1..Len(kinds) : Frames(kinds)[i] = Frame(0, kinds[i]) /\ Frames(kinds)[i].kind = kinds[i]
<1>1. Frames(kinds) = [i \in 1..Len(kinds) |-> Frame(0, kinds[i])] /\ Len(kinds) \in Nat
  BY DEF Frames
<1>2. \A i \in 1..Len(kinds) : Frame(0, kinds[i]) \in FrameSet /\ Frame(0, kinds[i]).kind = kinds[i]
  BY DEF Frame, FrameSet
<1> QED BY <1>1, <1>2

LEMMA TailOf ==
  ASSUME NEW S, NEW q \in Seq(S), q # <<>>
  PROVE  /\ Head(q) = q[1] /\ q[1] \in S /\ Tail(q) \in Seq(S) /\ Len(Tail(q)) = Len(q) - 1
         /\ Len(q) \in Nat /\ Len(q) > 0 /\ Len(Tail(q)) \in Nat
         /\ \A i \in 1..Len(Tail(q)) : Tail(q)[i] = q[i + 1]
         /\ (Tail(q) = <<>> <=> Len(q) = 1)
<1>1. /\ Head(q) = q[1] /\ q[1] \in S /\ Tail(q) \in Seq(S) /\ Len(Tail(q)) = Len(q) - 1
      /\ Len(q) \in Nat /\ Len(q) > 0
      /\ \A i \in 1..Len(Tail(q)) : Tail(q)[i] = q[i + 1]
  BY HeadTailProperties
<1>2. Tail(q) = <<>> <=> Len(Tail(q)) = 0
  <2>1. \A t \in Seq(S) : t = <<>> <=> Len(t) = 0
    BY EmptySeq
  <2> QED BY <1>1, <2>1
<1> QED BY <1>1, <1>2

LEMMA HeadFrames ==
  ASSUME NEW f
  PROVE  /\ StartFrames(f) \in Seq(FrameSet)
         /\ \A i \in 1..Len(StartFrames(f)) :
              StartFrames(f)[i].kind \notin {"delta", "finish", "error"} \cup Closers
         /\ f \in {"chat", "bridge", "responses"} => Len(StartFrames(f)) > 0
         /\ f \in {"audio", "unread"} => StartFrames(f) = <<>>
<1>1. CASE f = "responses"
  <2>1. PICK k : k = <<"created", "in_progress", "item_added", "part_added">>
    OBVIOUS
  <2>0. k \in Seq(FrameKinds)
    BY <2>1 DEF FrameKinds
  <2>2. StartFrames(f) = Frames(k)
    BY <1>1, <2>1 DEF StartFrames
  <2>3. Len(k) = 4 /\ \A i \in 1..4 : k[i] \notin {"delta", "finish", "error"} \cup Closers
    BY <2>1 DEF Closers
  <2> QED BY <1>1, <2>0, <2>2, <2>3, FramesOf
<1>2. CASE f \in {"chat", "bridge"}
  <2>1. PICK k : k = <<"start">>
    OBVIOUS
  <2>0. k \in Seq(FrameKinds)
    BY <2>1 DEF FrameKinds
  <2>2. StartFrames(f) = Frames(k)
    BY <1>2, <2>1 DEF StartFrames
  <2>3. Len(k) = 1 /\ \A i \in 1..1 : k[i] \notin {"delta", "finish", "error"} \cup Closers
    BY <2>1 DEF Closers
  <2> QED BY <1>2, <2>0, <2>2, <2>3, FramesOf
<1>3. CASE f \notin {"chat", "bridge", "responses"}
  <2>1. StartFrames(f) = <<>>
    BY <1>3 DEF StartFrames
  <2> QED BY <1>3, <2>1
<1> QED BY <1>1, <1>2, <1>3

LEMMA TailFrames ==
  ASSUME NEW f \in {"chat", "bridge", "responses"}
  PROVE  /\ FinishFrames(f) \in Seq(FrameSet) /\ Len(FinishFrames(f)) > 0
         /\ f = "responses" => Len(FinishFrames(f)) = 4
         /\ \A i \in 1..Len(FinishFrames(f)) : FinishFrames(f)[i].kind \notin {"delta"} \cup Closers
         /\ FinishFrames(f)[Len(FinishFrames(f))].kind = "finish"
<1>1. CASE f = "responses"
  <2>1. PICK k : k = <<"text_done", "part_done", "item_done", "finish">>
    OBVIOUS
  <2>0. k \in Seq(FrameKinds)
    BY <2>1 DEF FrameKinds
  <2>2. FinishFrames(f) = Frames(k)
    BY <1>1, <2>1 DEF FinishFrames
  <2>3. Len(k) = 4 /\ k[4] = "finish" /\ \A i \in 1..4 : k[i] \notin {"delta"} \cup Closers
    BY <2>1 DEF Closers
  <2> QED BY <1>1, <2>0, <2>2, <2>3, FramesOf
<1>2. CASE f = "chat"
  <2>1. PICK k : k = <<"choice_done", "finish">>
    OBVIOUS
  <2>0. k \in Seq(FrameKinds)
    BY <2>1 DEF FrameKinds
  <2>2. FinishFrames(f) = Frames(k)
    BY <1>2, <2>1 DEF FinishFrames
  <2>3. Len(k) = 2 /\ k[2] = "finish" /\ \A i \in 1..2 : k[i] \notin {"delta"} \cup Closers
    BY <2>1 DEF Closers
  <2>4. /\ Frames(k) \in Seq(FrameSet) /\ Len(Frames(k)) = 2
        /\ \A i \in 1..2 : Frames(k)[i].kind = k[i]
    BY <2>0, <2>3, FramesOf
  <2>5. FinishFrames(f)[2].kind = "finish" /\ \A i \in 1..2 : FinishFrames(f)[i].kind = k[i]
    BY <2>2, <2>3, <2>4
  <2>6. f # "responses" /\ Len(FinishFrames(f)) = 2 /\ FinishFrames(f) \in Seq(FrameSet)
    BY <1>2, <2>2, <2>4
  <2> QED BY <2>3, <2>5, <2>6
<1>3. CASE f = "bridge"
  <2>1. PICK k : k = <<"finish">>
    OBVIOUS
  <2>0. k \in Seq(FrameKinds)
    BY <2>1 DEF FrameKinds
  <2>2. FinishFrames(f) = Frames(k)
    BY <1>3, <2>1 DEF FinishFrames
  <2>3. Len(k) = 1 /\ k[1] = "finish" /\ \A i \in 1..1 : k[i] \notin {"delta"} \cup Closers
    BY <2>1 DEF Closers
  <2> QED BY <1>3, <2>0, <2>2, <2>3, FramesOf
<1> QED BY <1>1, <1>2, <1>3

LEMMA Prefixed ==
  ASSUME NEW S, NEW h \in Seq(S), NEW q \in Seq(S), Len(h) <= Len(q), \A i \in 1..Len(h) : q[i] = h[i]
  PROVE  IsPrefix(h, q)
BY DEF IsPrefix

LEMMA PrefixStays ==
  ASSUME NEW S, NEW h \in Seq(S), NEW q \in Seq(S), NEW x \in S, IsPrefix(h, q)
  PROVE  IsPrefix(h, q \o <<x>>)
<1>1. Len(h) <= Len(q) /\ SubSeq(h, 1, Len(h)) = SubSeq(q, 1, Len(h))
  BY DEF IsPrefix
<1>2. ASSUME NEW i \in 1..Len(h) PROVE q[i] = h[i]
  <2>1. /\ SubSeq(h, 1, Len(h))[i] = h[i] /\ SubSeq(q, 1, Len(h))[i] = q[i]
    BY <1>1
  <2> QED BY <1>1, <2>1
<1>3. Len(h) <= Len(q \o <<x>>) /\ \A i \in 1..Len(h) : (q \o <<x>>)[i] = h[i]
  BY <1>1, <1>2, Added
<1>4. q \o <<x>> \in Seq(S)
  BY Added
<1> QED BY <1>3, <1>4, Prefixed

\* A frame is added that keeps the output faithful.
LEMMA AddFrame ==
  ASSUME NEW f, NEW d \in Nat, NEW p \in ProviderSet, NEW snt \in Seq(FrameSet), NEW x \in FrameSet,
         FaithfulTo(f, d, p, snt), ~Ended(snt),
         x.kind = "delta" =>
           /\ Len(StartFrames(f)) <= Len(snt)
           /\ \A i \in 1..Len(StartFrames(f)) : snt[i] = StartFrames(f)[i]
           /\ x.seq = Len(snt) + 1 - Len(StartFrames(f)) + 1 /\ x.seq < p.next
           /\ \A i \in 1..Len(snt) : snt[i].kind # "finish",
         x.kind = "finish" => Complete(p) /\ AllIn(f, d, snt)
  PROVE  /\ FaithfulTo(f, d, p, snt \o <<x>>)
         /\ x.kind # "delta" /\ AllIn(f, d, snt) => AllIn(f, d, snt \o <<x>>)
<1> DEFINE more == snt \o <<x>>
           h == StartFrames(f)
<1>1. /\ more \in Seq(FrameSet) /\ Len(more) = Len(snt) + 1 /\ Len(snt) \in Nat
      /\ \A i \in 1..Len(snt) : more[i] = snt[i]
      /\ more[Len(snt) + 1] = x /\ h \in Seq(FrameSet) /\ Len(h) \in Nat
  BY Added, HeadFrames
<1>2. ASSUME NEW i \in 1..Len(snt) PROVE snt[i].kind \notin Closers
  BY <1>1 DEF FaithfulTo, Ended
<1>3. x.kind # "delta" /\ AllIn(f, d, snt) => AllIn(f, d, more)
  <2> SUFFICES ASSUME x.kind # "delta", AllIn(f, d, snt) PROVE AllIn(f, d, more)
    OBVIOUS
  <2> HIDE DEF more
  <2>1. {i \in DOMAIN more : more[i].kind = "delta"} = {i \in DOMAIN snt : snt[i].kind = "delta"}
    BY <1>1
  <2> QED BY <2>1 DEF AllIn
<1>4. IsPrefix(h, snt) => IsPrefix(h, more)
  BY <1>1, PrefixStays
<1>5. x.kind = "delta" => IsPrefix(h, more)
  <2> SUFFICES ASSUME x.kind = "delta" PROVE IsPrefix(h, snt)
    BY <1>4
  <2> QED BY <1>1, Prefixed
<1> HIDE DEF more, h
<1>6. ASSUME NEW i \in 1..Len(more)
      PROVE  /\ more[i].kind = "delta" =>
                  /\ IsPrefix(h, more) /\ i > Len(h)
                  /\ more[i].seq = i - Len(h) + 1 /\ more[i].seq < p.next
             /\ more[i].kind \in Closers => i = Len(more)
             /\ more[i].kind = "finish" => Complete(p) /\ AllIn(f, d, more)
  <2>1. CASE i = Len(snt) + 1
    <3>1. more[i] = x
      BY <1>1, <2>1
    <3>2. x.kind = "delta" => i > Len(h) /\ x.seq = i - Len(h) + 1 /\ x.seq < p.next
      BY <1>1, <2>1 DEF h
    <3>3. x.kind = "finish" => Complete(p) /\ AllIn(f, d, more)
      BY <1>3
    <3> QED BY <1>1, <1>5, <2>1, <3>1, <3>2, <3>3
  <2>2. CASE i # Len(snt) + 1
    <3>1. i \in 1..Len(snt) /\ more[i] = snt[i]
      BY <1>1, <2>2
    <3>2. snt[i].kind = "delta" => /\ IsPrefix(h, snt) /\ i > Len(h)
                                   /\ snt[i].seq = i - Len(h) + 1 /\ snt[i].seq < p.next
      BY <3>1 DEF FaithfulTo, h
    <3>3. snt[i].kind = "finish" => Complete(p) /\ AllIn(f, d, more)
      BY <1>3, <3>1 DEF FaithfulTo
    <3> QED BY <1>2, <1>4, <3>1, <3>2, <3>3
  <2> QED BY <2>1, <2>2
<1> QED BY <1>3, <1>6 DEF FaithfulTo, more, h

\* A body that closes.
LEMMA ClosingBody ==
  ASSUME NEW f, NEW b \in BodySet
  PROVE  /\ Closing(f, b) \in BodySet /\ Closing(f, b).state = "Closed"
         /\ Closing(f, b).outcome = NoEvent /\ TaskOK(Closing(f, b))
         /\ Closing(f, b).queue = IF f = "responses" THEN b.queue ELSE <<>>
<1> DEFINE q == IF f = "responses" THEN b.queue ELSE <<>>
           t == IF Running(b) THEN b.task ELSE "none"
           u == Running(b)
           c == [b EXCEPT !.state = "Closed", !.queue = q, !.task = t, !.outcome = NoEvent,
                          !.subscribed = u, !.detached = u]
<1>0. b.queue \in Seq(FrameSet)
  BY DEF BodySet
<1>1. /\ q \in Seq(FrameSet) /\ t \in {"none", "check", "wait"} /\ u \in BOOLEAN
      /\ t # "none" => u
  BY <1>0 DEF Running
<1>2. Closing(f, b) = c
  BY DEF Closing
<1> HIDE DEF t, u, q
<1>4. NoEvent \in StreamEvents \cup Signals
  BY DEF NoEvent, Event, Signals
<1>5. c \in BodySet /\ c.state = "Closed" /\ c.queue = q /\ c.task = t /\ c.outcome = NoEvent
      /\ c.detached = u
  BY <1>1, <1>4 DEF BodySet
<1> HIDE DEF c
<1>6. TaskOK(c)
  BY <1>1, <1>5 DEF TaskOK
<1> QED BY <1>2, <1>5, <1>6 DEF q

\* A body that is closed wants nothing any more.
LEMMA ClosedBodyLine ==
  ASSUME NEW f, NEW d, NEW g \in {"body", "gone"}, NEW h \in {"body", "gone"},
         NEW p, NEW src, NEW r, NEW tgt, NEW b, NEW snt, NEW more,
         LineOK(f, d, g, p, src, r, tgt, b, snt), h = "body" => g = "body",
         NEW c, c.state = "Closed", c.outcome = NoEvent, TaskOK(c),
         FaithfulTo(f, d, p, more), h = "body" => Ended(more) \/ Told(f, more)
  PROVE  LineOK(f, d, h, p, src, r, tgt, c, more)
<1>1. ShapeOK(f, d, h, p, c, more)
  BY DEF ShapeOK
<1>2. BegunOK(f, h, p, r, tgt, c)
  BY DEF LineOK, BegunOK
<1>3. TruthOK(d, p, src, r, tgt, c)
  BY DEF LineOK, TruthOK, TrueEvent, NoEvent, Event
<1> QED BY <1>1, <1>2, <1>3 DEF LineOK, Live

\* The body ends or fails.
LEMMA EndLine ==
  ASSUME NEW f, NEW d \in Nat, NEW p \in ProviderSet, NEW src, NEW r, NEW tgt, NEW b,
         NEW snt \in Seq(FrameSet), LineOK(f, d, "body", p, src, r, tgt, b, snt),
         NEW c, c.state = "Closed", c.outcome = NoEvent, TaskOK(c),
         NEW x \in FrameSet, x.kind \in Closers, NEW more,
         more = IF Ended(snt) THEN snt ELSE snt \o <<x>>
  PROVE  LineOK(f, d, "body", p, src, r, tgt, c, more) /\ more \in Seq(FrameSet)
<1>0. FaithfulTo(f, d, p, snt)
  BY DEF LineOK, ShapeOK
<1>1. CASE Ended(snt)
  BY <1>0, <1>1, ClosedBodyLine
<1>2. CASE ~Ended(snt)
  <2>1. x.kind \notin {"delta", "finish"}
    BY DEF Closers
  <2>2. FaithfulTo(f, d, p, snt \o <<x>>)
    BY <1>0, <1>2, <2>1, AddFrame
  <2>3. Ended(snt \o <<x>>) /\ snt \o <<x>> \in Seq(FrameSet)
    BY Added DEF Ended
  <2> QED BY <1>2, <2>2, <2>3, ClosedBodyLine
<1> QED BY <1>1, <1>2

\* The next queued frame.
LEMMA QueuedLine ==
  ASSUME NEW f, NEW d \in Nat, NEW p \in ProviderSet, NEW src, NEW r, NEW tgt, NEW b \in BodySet,
         NEW snt \in Seq(FrameSet), LineOK(f, d, "body", p, src, r, tgt, b, snt),
         b.queue # <<>>, b.state # "Closed",
         NEW c, \/ /\ c.state = b.state /\ c.queue = Tail(b.queue) /\ c.task = b.task
                   /\ c.outcome = b.outcome /\ c.detached = b.detached
                \/ /\ b.state \in {"Terminal", "Closed"} /\ Tail(b.queue) = <<>>
                   /\ c.state = "Closed" /\ c.outcome = NoEvent /\ TaskOK(c)
  PROVE  LineOK(f, d, "body", p, src, r, tgt, c, snt \o <<Head(b.queue)>>)
<1> DEFINE x == b.queue[1]
           more == snt \o <<x>>
           rest == Tail(b.queue)
           heads == StartFrames(f)
<1>0. /\ Head(b.queue) = x /\ x \in FrameSet /\ rest \in Seq(FrameSet) /\ Len(rest) = Len(b.queue) - 1
      /\ Len(b.queue) \in Nat /\ Len(b.queue) > 0 /\ Len(rest) \in Nat
      /\ \A i \in 1..Len(rest) : rest[i] = b.queue[i + 1]
      /\ (rest = <<>> <=> Len(b.queue) = 1)
  <2>1. b.queue \in Seq(FrameSet)
    BY DEF BodySet
  <2> QED BY <2>1, TailOf
<1>1. /\ more \in Seq(FrameSet) /\ Len(more) = Len(snt) + 1 /\ Len(snt) \in Nat
      /\ \A i \in 1..Len(snt) : more[i] = snt[i]
      /\ more[Len(snt) + 1] = x
  BY <1>0, Added
<1>2. /\ FaithfulTo(f, d, p, snt) /\ ~Ended(snt) /\ b.state \in {"Open", "Terminal"}
      /\ TaskOK(b) /\ BegunOK(f, "body", p, r, tgt, b)
  BY DEF LineOK, ShapeOK, BodySet
<1> HIDE DEF more, rest, x
<1>3. CASE b.state = "Open"
  <2>0. heads \in Seq(FrameSet) /\ Len(heads) \in Nat
    BY HeadFrames
  <2>1. OpenOK(f, b, snt)
    BY <1>3 DEF LineOK, ShapeOK
  <2>2. x = heads[Len(snt) + 1] /\ Len(snt) + Len(b.queue) = Len(heads)
    <3>1. OpenOK(f, b, snt) /\ b.queue # <<>> /\ 1 \in 1..Len(b.queue)
      BY <1>0, <2>1
    <3> HIDE DEF heads
    <3> QED BY <3>1 DEF OpenOK, heads, x
  <2>3. x.kind \notin {"delta", "finish"} \cup Closers
    BY <1>0, <1>1, <2>0, <2>2, HeadFrames
  <2>4. FaithfulTo(f, d, p, more) /\ ~Ended(more)
    <3>1. FaithfulTo(f, d, p, more)
      BY <1>0, <1>2, <2>3, AddFrame DEF more
    <3> QED BY <1>1, <2>3, <3>1 DEF Ended
  <2> HIDE DEF heads
  <2>5. /\ Len(more) + Len(rest) = Len(heads)
        /\ \A i \in 1..Len(more) : IF i <= Len(heads) THEN more[i] = heads[i] ELSE more[i].kind = "delta"
        /\ \A i \in 1..Len(rest) : rest[i] = heads[Len(more) + i]
    <3>1. Len(more) + Len(rest) = Len(heads)
      <4>1. \A a, e \in Nat : (a + 1) + (e - 1) = a + e
        OBVIOUS
      <4>2. Len(more) = Len(snt) + 1 /\ Len(rest) = Len(b.queue) - 1
            /\ Len(snt) \in Nat /\ Len(b.queue) \in Nat
        BY <1>0, <1>1
      <4> QED BY <2>2, <4>1, <4>2
    <3>2. ASSUME NEW i \in 1..Len(more)
          PROVE  IF i <= Len(heads) THEN more[i] = heads[i] ELSE more[i].kind = "delta"
      <4>1. CASE i = Len(snt) + 1
        BY <1>0, <1>1, <2>0, <2>2, <4>1
      <4>2. CASE i # Len(snt) + 1
        BY <1>1, <2>1, <4>2 DEF OpenOK, heads
      <4> QED BY <4>1, <4>2
    <3>3. ASSUME NEW i \in 1..Len(rest) PROVE rest[i] = heads[Len(more) + i]
      <4>1. i + 1 \in 1..Len(b.queue) /\ Len(more) + i = Len(snt) + (i + 1)
        BY <1>0, <1>1
      <4>2. b.queue[i + 1] = heads[Len(snt) + (i + 1)]
        BY <2>1, <4>1 DEF OpenOK, heads
      <4> QED BY <1>0, <4>1, <4>2
    <3> QED BY <3>1, <3>2, <3>3
  <2>6. /\ c.state = "Open" /\ c.queue = rest /\ c.task = b.task /\ c.outcome = b.outcome
        /\ c.detached = b.detached
    BY <1>3 DEF rest
  <2>7. OpenOK(f, c, more)
    BY <2>0, <2>5, <2>6 DEF OpenOK, heads
  <2>8. ShapeOK(f, d, "body", p, c, more)
    BY <2>4, <2>6, <2>7 DEF ShapeOK
  <2>9. TaskOK(c) /\ BegunOK(f, "body", p, r, tgt, c) /\ Live(c) /\ Live(b)
    BY <1>2, <1>3, <2>6 DEF TaskOK, BegunOK, Live
  <2>10. TruthOK(d, p, src, r, tgt, c)
    BY <2>6 DEF LineOK, TruthOK
  <2>11. Has(f, c, more) = Has(f, b, snt)
    <3>1. Used(f, c, more) = Used(f, b, snt)
      <4>1. Len(more) + Len(rest) = Len(snt) + Len(b.queue)
        BY <2>2, <2>5
      <4>2. /\ Used(f, c, more) = Len(more) + Len(rest) - Len(heads) + 1
            /\ Used(f, b, snt) = Len(snt) + Len(b.queue) - Len(heads) + 1
        BY <1>3, <2>6 DEF Used, heads
      <4> QED BY <4>1, <4>2
    <3> QED BY <2>6, <3>1 DEF Has
  <2> QED BY <1>0, <2>6, <2>8, <2>9, <2>10, <2>11 DEF LineOK, more
<1>4. CASE b.state = "Terminal"
  <2>1. TerminalOK(f, d, p, b, snt)
    BY <1>4 DEF LineOK, ShapeOK
  <2>2. x.kind \notin {"delta"} \cup Closers /\ Complete(p) /\ AllIn(f, d, snt) /\ f # "audio"
    BY <1>0, <2>1 DEF TerminalOK, x
  <2>3. FaithfulTo(f, d, p, more) /\ AllIn(f, d, more)
    BY <1>0, <1>2, <2>2, AddFrame DEF more
  <2>4. ~Ended(more)
    BY <1>1, <2>2 DEF Ended
  <2>5. rest = <<>> => Told(f, more)
    <3>1. rest = <<>> => x.kind = "finish"
      BY <1>0, <2>1 DEF TerminalOK, x
    <3> QED BY <1>1, <2>1, <3>1 DEF Told, TerminalOK
  <2>6. rest # <<>> => rest[Len(rest)].kind = "finish"
    BY <1>0, <2>1 DEF TerminalOK
  <2>7. \A i \in 1..Len(rest) : rest[i].kind \notin {"delta"} \cup Closers
    BY <1>0, <2>1 DEF TerminalOK
  <2>8. CASE /\ c.state = b.state /\ c.queue = rest /\ c.task = b.task
             /\ c.outcome = b.outcome /\ c.detached = b.detached
    <3>1. TerminalOK(f, d, p, c, more)
      BY <2>2, <2>3, <2>5, <2>6, <2>7, <2>8 DEF TerminalOK
    <3>2. ShapeOK(f, d, "body", p, c, more)
      BY <1>4, <2>3, <2>4, <2>8, <3>1 DEF ShapeOK
    <3>3. TaskOK(c) /\ BegunOK(f, "body", p, r, tgt, c) /\ ~Live(c)
      BY <1>2, <1>4, <2>8 DEF TaskOK, BegunOK, Live
    <3>4. TruthOK(d, p, src, r, tgt, c)
      BY <2>8 DEF LineOK, TruthOK
    <3> QED BY <1>0, <3>2, <3>3, <3>4 DEF LineOK, more
  <2>9. CASE rest = <<>> /\ c.state = "Closed" /\ c.outcome = NoEvent /\ TaskOK(c)
    <3>1. LineOK(f, d, "body", p, src, r, tgt, c, more)
      BY <2>3, <2>5, <2>9, ClosedBodyLine
    <3> QED BY <1>0, <3>1 DEF more
  <2> QED BY <2>8, <2>9 DEF rest
<1> QED BY <1>2, <1>3, <1>4

\* The body has used the event its task brought, and wants the next.
LEMMA ConsumesLine ==
  ASSUME NEW f, NEW d \in Nat, NEW p \in ProviderSet, NEW src, NEW r, NEW tgt, NEW b \in BodySet,
         NEW snt \in Seq(FrameSet), LineOK(f, d, "body", p, src, r, tgt, b, snt), Live(b),
         b.outcome.seq > 0, NEW c, c.outcome = NoEvent, TaskOK(c), NEW more,
         ShapeOK(f, d, "body", p, c, more), Used(f, c, more) = Used(f, b, snt) + 1
  PROVE  LineOK(f, d, "body", p, src, r, tgt, c, more)
<1>1. BegunOK(f, "body", p, r, tgt, c)
  BY DEF LineOK, BegunOK
<1>2. TruthOK(d, p, src, r, tgt, c)
  BY DEF LineOK, TruthOK, TrueEvent, NoEvent, Event
<1>3. Has(f, b, snt) = Used(f, b, snt) + 1
  BY DEF Has
<1>4. Used(f, b, snt) \in Int
  BY HeadsAreFew DEF Used, BodySet
<1>5. Has(f, c, more) = Has(f, b, snt)
  BY <1>3, <1>4 DEF Has, NoEvent, Event
<1>6. \A n : ChainOK(p, src, r, tgt, b.outcome, n) => ChainOK(p, src, r, tgt, c.outcome, n)
  BY DEF ChainOK, NoEvent, Event
<1> QED BY <1>1, <1>2, <1>5, <1>6 DEF LineOK

\* The answer has started.
LEMMA StartedLine ==
  ASSUME NEW f, NEW d \in Nat, NEW p \in ProviderSet, NEW src, NEW r, NEW tgt, NEW b \in BodySet,
         NEW snt \in Seq(FrameSet), LineOK(f, d, "body", p, src, r, tgt, b, snt),
         b.state = "AwaitingStart", b.outcome.seq > 0,
         NEW c, c.state = "Open", c.outcome = NoEvent, TaskOK(c), NEW more,
         \/ f = "audio" /\ c.queue = <<>> /\ more = snt
         \/ /\ f \in {"chat", "bridge", "responses"} /\ c.queue = Tail(StartFrames(f))
            /\ more = snt \o <<Head(StartFrames(f))>>
  PROVE  LineOK(f, d, "body", p, src, r, tgt, c, more) /\ more \in Seq(FrameSet)
<1> DEFINE h == StartFrames(f)
<1>1. snt = <<>> /\ FaithfulTo(f, d, p, snt) /\ Used(f, b, snt) = 0 /\ Live(b)
  BY DEF LineOK, ShapeOK, Used, Live
<1>2. CASE f = "audio" /\ c.queue = <<>> /\ more = snt
  <2>1. h = <<>> /\ Len(h) = 0 /\ Len(more) = 0 /\ Len(c.queue) = 0
    BY <1>1, <1>2, HeadFrames
  <2>2. ShapeOK(f, d, "body", p, c, more) /\ Used(f, c, more) = 1
    BY <1>1, <1>2, <2>1 DEF ShapeOK, OpenOK, Used, Ended
  <2>3. Used(f, c, more) = Used(f, b, snt) + 1
    BY <1>1, <2>2
  <2>4. LineOK(f, d, "body", p, src, r, tgt, c, more)
    BY <1>1, <2>2, <2>3, ConsumesLine
  <2> QED BY <1>2, <2>4
<1>3. CASE /\ f \in {"chat", "bridge", "responses"} /\ c.queue = Tail(h) /\ more = snt \o <<Head(h)>>
  <2>1. h \in Seq(FrameSet) /\ h # <<>> /\ Len(h) > 0 /\ Len(h) \in Nat
    BY <1>3, HeadFrames
  <2>2. /\ Head(h) = h[1] /\ h[1] \in FrameSet /\ Len(Tail(h)) = Len(h) - 1
        /\ \A i \in 1..Len(Tail(h)) : Tail(h)[i] = h[i + 1]
    BY <2>1, TailOf
  <2>3. h[1].kind \notin {"delta", "finish"} \cup Closers
    BY <1>3, <2>1, HeadFrames
  <2>4. FaithfulTo(f, d, p, snt \o <<h[1]>>)
    BY <1>1, <2>2, <2>3, AddFrame DEF Ended
  <2>5. Len(more) = 1 /\ more[1] = h[1] /\ more = snt \o <<h[1]>> /\ more \in Seq(FrameSet)
    BY <1>1, <1>3, <2>2
  <2>6. ~Ended(more)
    BY <2>3, <2>5 DEF Ended
  <2> HIDE DEF h
  <2>7. OpenOK(f, c, more)
    BY <1>3, <2>1, <2>2, <2>5 DEF OpenOK, h
  <2>8. ShapeOK(f, d, "body", p, c, more)
    BY <2>4, <2>5, <2>6, <2>7 DEF ShapeOK
  <2>9. Used(f, c, more) = 1
    BY <1>3, <2>1, <2>2, <2>5 DEF Used, h
  <2>10. Used(f, c, more) = Used(f, b, snt) + 1
    BY <1>1, <2>9
  <2>11. LineOK(f, d, "body", p, src, r, tgt, c, more)
    BY <1>1, <2>8, <2>10, ConsumesLine
  <2> QED BY <2>5, <2>11
<1> QED BY <1>2, <1>3

\* What an open body with nothing queued has sent.
LEMMA OpenBody ==
  ASSUME NEW f, NEW d \in Nat, NEW p \in ProviderSet, NEW src, NEW r, NEW tgt, NEW b \in BodySet,
         NEW snt \in Seq(FrameSet), LineOK(f, d, "body", p, src, r, tgt, b, snt),
         b.state = "Open", b.queue = <<>>, b.outcome.seq > 0
  PROVE  /\ FaithfulTo(f, d, p, snt) /\ ~Ended(snt) /\ Len(StartFrames(f)) <= Len(snt)
         /\ \A i \in 1..Len(StartFrames(f)) : snt[i] = StartFrames(f)[i]
         /\ \A i \in 1..Len(snt) : i > Len(StartFrames(f)) => snt[i].kind = "delta"
         /\ \A i \in 1..Len(snt) : snt[i].kind = "delta" => i > Len(StartFrames(f))
         /\ \A i \in 1..Len(snt) : snt[i].kind # "finish"
         /\ Used(f, b, snt) = Len(snt) - Len(StartFrames(f)) + 1
         /\ b.outcome.seq = Len(snt) - Len(StartFrames(f)) + 2
<1> DEFINE h == StartFrames(f)
<1>1. OpenOK(f, b, snt) /\ FaithfulTo(f, d, p, snt) /\ ~Ended(snt) /\ Live(b)
  BY DEF LineOK, ShapeOK, Live
<1>2. Len(b.queue) = 0 /\ Len(h) \in Nat /\ Len(snt) \in Nat
  BY HeadsAreFew
<1>3. Len(h) <= Len(snt)
  BY <1>1, <1>2 DEF OpenOK
<1>4. /\ \A i \in 1..Len(h) : snt[i] = h[i]
      /\ \A i \in 1..Len(snt) : i > Len(h) => snt[i].kind = "delta"
  BY <1>1, <1>2, <1>3 DEF OpenOK
<1>5. \A i \in 1..Len(h) : h[i].kind \notin {"delta", "finish"}
  BY HeadFrames
<1>6. Used(f, b, snt) = Len(snt) - Len(h) + 1
  BY <1>2 DEF Used
<1>7. b.outcome.seq = Len(snt) - Len(h) + 2
  <2>1. ChainOK(p, src, r, tgt, b.outcome, Has(f, b, snt))
    BY <1>1 DEF LineOK
  <2>2. b.outcome.seq = Has(f, b, snt)
    BY <2>1 DEF ChainOK
  <2> QED BY <1>2, <1>6, <2>2 DEF Has
<1> HIDE DEF h
<1>8. ASSUME NEW i \in 1..Len(snt) PROVE snt[i].kind # "finish" /\ (snt[i].kind = "delta" => i > Len(h))
  <2>1. CASE i <= Len(h)
    BY <1>2, <1>4, <1>5, <2>1
  <2>2. CASE i > Len(h)
    BY <1>4, <2>2
  <2> QED BY <1>2, <2>1, <2>2
<1> QED BY <1>1, <1>3, <1>4, <1>6, <1>7, <1>8 DEF h

\* A delta.
LEMMA DeltaLine ==
  ASSUME NEW f, NEW d \in Nat, NEW p \in ProviderSet, NEW src, NEW r, NEW tgt, NEW b \in BodySet,
         NEW snt \in Seq(FrameSet), LineOK(f, d, "body", p, src, r, tgt, b, snt),
         b.state = "Open", b.queue = <<>>, b.outcome \in StreamEvents, b.outcome.kind = "delta",
         NEW c, c.state = "Open", c.queue = <<>>, c.outcome = NoEvent, TaskOK(c)
  PROVE  /\ LineOK(f, d, "body", p, src, r, tgt, c, snt \o <<Frame(b.outcome.seq, "delta")>>)
         /\ snt \o <<Frame(b.outcome.seq, "delta")>> \in Seq(FrameSet)
<1> DEFINE x == Frame(b.outcome.seq, "delta")
           more == snt \o <<x>>
           h == StartFrames(f)
<1>0. b.outcome.seq > 0 /\ Len(h) \in Nat
  BY HeadsAreFew DEF StreamEvents
<1>1. /\ FaithfulTo(f, d, p, snt) /\ ~Ended(snt) /\ Len(h) <= Len(snt)
      /\ \A i \in 1..Len(h) : snt[i] = h[i]
      /\ \A i \in 1..Len(snt) : i > Len(h) => snt[i].kind = "delta"
      /\ \A i \in 1..Len(snt) : snt[i].kind # "finish"
      /\ Used(f, b, snt) = Len(snt) - Len(h) + 1
      /\ b.outcome.seq = Len(snt) - Len(h) + 2
  BY <1>0, OpenBody
<1>2. x \in FrameSet /\ x.kind = "delta" /\ x.seq = Len(snt) - Len(h) + 2 /\ x.seq < p.next
  <2>1. b.outcome.seq < p.next
    BY DEF LineOK, TruthOK, TrueEvent
  <2> QED BY <1>1, <2>1 DEF Frame, FrameSet, FrameKinds, StreamEvents
<1>3. /\ more \in Seq(FrameSet) /\ Len(more) = Len(snt) + 1 /\ Len(snt) \in Nat
      /\ \A i \in 1..Len(snt) : more[i] = snt[i]
      /\ more[Len(snt) + 1] = x
  BY <1>2, Added
<1> HIDE DEF x
<1>4. FaithfulTo(f, d, p, more)
  <2>1. x.seq = Len(snt) + 1 - Len(h) + 1
    BY <1>0, <1>2, <1>3
  <2> QED BY <1>1, <1>2, <2>1, AddFrame
<1> HIDE DEF h, more
<1>5. ~Ended(more)
  BY <1>2, <1>3 DEF Ended, Closers
<1>6. OpenOK(f, c, more)
  <2>1. ASSUME NEW i \in 1..Len(more)
        PROVE  IF i <= Len(h) THEN more[i] = h[i] ELSE more[i].kind = "delta"
    <3>1. CASE i = Len(snt) + 1
      BY <1>0, <1>1, <1>2, <1>3, <3>1
    <3>2. CASE i # Len(snt) + 1
      <4>1. i \in 1..Len(snt)
        BY <1>3, <3>2
      <4> QED BY <1>0, <1>1, <1>3, <4>1
    <3> QED BY <3>1, <3>2
  <2>2. Len(c.queue) = 0
    OBVIOUS
  <2> QED BY <1>0, <1>1, <1>3, <2>1, <2>2 DEF OpenOK, h
<1>7. ShapeOK(f, d, "body", p, c, more)
  BY <1>4, <1>5, <1>6 DEF ShapeOK
<1>8. Used(f, c, more) = Used(f, b, snt) + 1
  <2>1. Len(c.queue) = 0
    OBVIOUS
  <2>2. Used(f, c, more) = Len(snt) + 1 + 0 - Len(h) + 1
    BY <1>3, <2>1 DEF Used, h
  <2> QED BY <1>0, <1>1, <1>3, <2>2
<1>9. Live(b)
  BY DEF Live
<1>10. LineOK(f, d, "body", p, src, r, tgt, c, more)
  BY <1>0, <1>7, <1>8, <1>9, ConsumesLine
<1> QED BY <1>3, <1>10 DEF more, x

\* Every delta has been sent when the provider's completion arrives.
LEMMA CompletionIsWhole ==
  ASSUME NEW f, NEW d \in Nat, NEW p \in ProviderSet, NEW src, NEW r, NEW tgt, NEW b \in BodySet,
         NEW snt \in Seq(FrameSet), LineOK(f, d, "body", p, src, r, tgt, b, snt),
         b.state = "Open", b.queue = <<>>, b.outcome \in StreamEvents,
         b.outcome.kind \in {"completed", "filtered"}
  PROVE  Complete(p) /\ AllIn(f, d, snt)
<1> DEFINE h == StartFrames(f)
<1>0. b.outcome.seq > 0 /\ Len(h) \in Nat /\ Len(snt) \in Nat
  BY HeadsAreFew DEF StreamEvents
<1>1. /\ \A i \in 1..Len(snt) : i > Len(h) => snt[i].kind = "delta"
      /\ \A i \in 1..Len(snt) : snt[i].kind = "delta" => i > Len(h)
      /\ b.outcome.seq = Len(snt) - Len(h) + 2
  BY <1>0, OpenBody
<1>2. Complete(p) /\ b.outcome.seq = d + 2
  BY DEF LineOK, TruthOK, TrueEvent, Complete
<1>3. Len(snt) = Len(h) + d
  BY <1>0, <1>1, <1>2
<1> HIDE DEF h
<1>4. {i \in DOMAIN snt : snt[i].kind = "delta"} = Len(h) + 1 .. Len(h) + d
  <2>1. DOMAIN snt = 1..Len(snt)
    OBVIOUS
  <2> QED BY <1>0, <1>1, <1>3, <2>1
<1> QED BY <1>2, <1>4 DEF AllIn, h

\* The answer is complete, or the bridge reports an error.
LEMMA TerminalLine ==
  ASSUME NEW f, NEW d \in Nat, NEW p \in ProviderSet, NEW src, NEW r, NEW tgt, NEW b \in BodySet,
         NEW snt \in Seq(FrameSet), LineOK(f, d, "body", p, src, r, tgt, b, snt), b.state # "Closed", f # "audio",
         NEW c, c.state = "Terminal", c.outcome = NoEvent, TaskOK(c), NEW x \in FrameSet,
         x.kind \notin {"delta"} \cup Closers, c.queue \in Seq(FrameSet),
         x.kind = "finish" \/ c.queue # <<>> => Complete(p) /\ AllIn(f, d, snt),
         c.queue = <<>> => x.kind \in {"finish", "error"},
         c.queue # <<>> => c.queue[Len(c.queue)].kind = "finish",
         \A i \in 1..Len(c.queue) : c.queue[i].kind \notin {"delta"} \cup Closers
  PROVE  LineOK(f, d, "body", p, src, r, tgt, c, snt \o <<x>>)
<1> DEFINE more == snt \o <<x>>
<1>0. FaithfulTo(f, d, p, snt) /\ ~Ended(snt)
  BY DEF LineOK, ShapeOK
<1>1. /\ more \in Seq(FrameSet) /\ Len(more) = Len(snt) + 1 /\ Len(snt) \in Nat
      /\ more[Len(snt) + 1] = x
  BY Added
<1>2. FaithfulTo(f, d, p, more) /\ (AllIn(f, d, snt) => AllIn(f, d, more))
  BY <1>0, AddFrame
<1> HIDE DEF more
<1>3. ~Ended(more)
  BY <1>1 DEF Ended
<1>4. c.queue = <<>> => Told(f, more)
  BY <1>1 DEF Told
<1>5. TerminalOK(f, d, p, c, more)
  BY <1>2, <1>4 DEF TerminalOK
<1>6. ShapeOK(f, d, "body", p, c, more)
  BY <1>2, <1>3, <1>5 DEF ShapeOK
<1>7. BegunOK(f, "body", p, r, tgt, c) /\ ~Live(c)
  BY DEF LineOK, BegunOK, Live
<1>8. TruthOK(d, p, src, r, tgt, c)
  BY DEF LineOK, TruthOK, TrueEvent, NoEvent, Event
<1> QED BY <1>6, <1>7, <1>8 DEF LineOK, more

-----------------------------------------------------------------------------
\* A poll of the body.

\* What a poll leaves alone.
PollKeeps == UNCHANGED <<format, stage, provider, source, relay, target, late, manager>>

LEMMA EmitsFaith ==
  ASSUME StreamTypeOK, FaithInv, NEW s \in Streams, stage[s] = "body", PollKeeps,
         NEW c \in BodySet, NEW frames, NEW tokens \in SUBSET {"request", "output"},
         Emits(s, c, frames, tokens),
         sent[s] \o frames \in Seq(FrameSet),
         LineOK(format[s], DeltasOf(s), "body", provider[s], source[s], relay[s], target[s], c,
                sent[s] \o frames),
         "output" \in tokens => ~Live(c), Live(c) => Live(body[s]),
         c.outcome.kind = "stopped" => body[s].outcome.kind = "stopped",
         c.state = "Closed" /\ c.queue # <<>> => "request" \in tokens /\ format[s] = "responses"
  PROVE  StreamTypeOK' /\ FaithInv'
<1> DEFINE more == sent[s] \o frames
<1>1. Sets(s, "body", provider[s], source[s], relay[s], target[s], c, more)
  BY AllKept DEF Sets, Kept, Emits, PollKeeps
<1>2. Cancel(s, tokens) /\ UNCHANGED <<late, manager>>
  BY DEF Emits, PollKeeps
<1>3. SparesOthers(s)
  BY <1>2, Spares
<1> HIDE DEF more
<1>4. TokensOK(s)'
  BY <1>1, <1>2, SetsValues, CancelMarks, HereLine DEF TokensOK, CalledOff, Inactive
<1>5. /\ more \in Seq(FrameSet)
      /\ LineOK(format[s], DeltasOf(s), "body", provider[s], source[s], relay[s], target[s], c, more)
  BY DEF more
<1> QED BY <1>1, <1>3, <1>4, <1>5, HereTypes, StreamMoves DEF Stages

LEMMA OneFrame ==
  ASSUME NEW k \in FrameKinds
  PROVE  Frames(<<k>>) = <<Frame(0, k)>> /\ Frame(0, k) \in FrameSet /\ Frame(0, k).kind = k
BY DEF Frames, Frame, FrameSet

\* What is sent with the end of a body.
LEMMA EndFrames ==
  ASSUME NEW snt \in Seq(FrameSet), NEW k \in Closers
  PROVE  snt \o (IF Ended(snt) THEN <<>> ELSE Frames(<<k>>))
           = IF Ended(snt) THEN snt ELSE snt \o <<Frame(0, k)>>
<1>1. snt \o <<>> = snt
  OBVIOUS
<1>2. Frames(<<k>>) = <<Frame(0, k)>>
  BY OneFrame DEF Closers, FrameKinds
<1> QED BY <1>1, <1>2

LEMMA EndsFaith ==
  ASSUME StreamTypeOK, FaithInv, NEW s \in Streams, stage[s] = "body", PollKeeps,
         NEW b \in BodySet, NEW k \in Closers, Ends(s, b, k)
  PROVE  StreamTypeOK' /\ FaithInv'
<1> DEFINE c == Closing(format[s], b)
           frames == IF Ended(sent[s]) THEN <<>> ELSE Frames(<<k>>)
           x == Frame(0, k)
           more == sent[s] \o frames
<1>1. Emits(s, c, frames, {"request", "output"})
  BY DEF Ends, Finished, Ended, FinishTokens, Last
<1>2. /\ c \in BodySet /\ c.state = "Closed" /\ c.outcome = NoEvent /\ TaskOK(c)
      /\ c.queue # <<>> => format[s] = "responses"
  BY ClosingBody
<1>3. x \in FrameSet /\ x.kind \in Closers
  BY OneFrame DEF Closers, FrameKinds
<1>4. more = IF Ended(sent[s]) THEN sent[s] ELSE sent[s] \o <<x>>
  BY HereTypes, EndFrames
<1> HIDE DEF c, x, more
<1>5. /\ LineOK(format[s], DeltasOf(s), "body", provider[s], source[s], relay[s], target[s], c, more)
      /\ more \in Seq(FrameSet)
  <2>1. LineOK(format[s], DeltasOf(s), "body", provider[s], source[s], relay[s], target[s], body[s], sent[s])
    BY HereLine
  <2>2. DeltasOf(s) \in Nat /\ provider[s] \in ProviderSet /\ sent[s] \in Seq(FrameSet)
    BY HereTypes
  <2> HIDE DEF frames
  <2> QED BY <1>2, <1>3, <1>4, <2>1, <2>2, EndLine
<1>6. ~Live(c) /\ c.outcome.kind # "stopped"
  BY <1>2 DEF Live, NoEvent, Event
<1> HIDE DEF frames
<1> QED BY <1>1, <1>2, <1>5, <1>6, EmitsFaith DEF more

LEMMA QueuedFaith ==
  ASSUME StreamTypeOK, FaithInv, NEW s \in Streams, stage[s] = "body", PollKeeps,
         format[s] = "bridge" \/ ~Inactive(s), body[s].queue # <<>>,
         LET b == body[s]
             closed == b.state \in {"Terminal", "Closed"}
             rest == [b EXCEPT !.queue = Tail(@)] IN
         Emits(s, IF format[s] = "responses" /\ rest.queue = <<>> /\ closed
                    THEN Closing(format[s], rest) ELSE rest,
               <<Head(b.queue)>>,
               IF format[s] = "responses" /\ rest.queue = <<>> /\ closed THEN {"output"} ELSE {})
  PROVE  StreamTypeOK' /\ FaithInv'
<1> DEFINE b == body[s]
           rest == [b EXCEPT !.queue = Tail(@)]
           last == format[s] = "responses" /\ rest.queue = <<>> /\ b.state \in {"Terminal", "Closed"}
           c == IF last THEN Closing(format[s], rest) ELSE rest
           tokens == IF last THEN {"output"} ELSE {}
<1>1. Emits(s, c, <<Head(b.queue)>>, tokens)
  OBVIOUS
<1>2. b \in BodySet /\ b.queue \in Seq(FrameSet) /\ Tail(b.queue) \in Seq(FrameSet) /\ Head(b.queue) \in FrameSet
  <2>1. b \in BodySet /\ b.queue \in Seq(FrameSet)
    BY HereTypes DEF BodySet
  <2> QED BY <2>1, TailOf
<1>3. /\ rest \in BodySet /\ rest.state = b.state /\ rest.queue = Tail(b.queue)
      /\ rest.task = b.task /\ rest.outcome = b.outcome /\ rest.detached = b.detached
  BY <1>2 DEF BodySet
<1>4. b.state # "Closed"
  BY HereLine DEF TokensOK, Inactive
<1> HIDE DEF rest
<1>5. /\ c \in BodySet
      /\ \/ /\ c.state = b.state /\ c.queue = Tail(b.queue) /\ c.task = b.task
            /\ c.outcome = b.outcome /\ c.detached = b.detached /\ tokens = {}
         \/ /\ b.state \in {"Terminal", "Closed"} /\ Tail(b.queue) = <<>>
            /\ c.state = "Closed" /\ c.outcome = NoEvent /\ TaskOK(c) /\ c.queue = <<>>
  <2>1. CASE last
    BY <1>3, <2>1, ClosingBody
  <2>2. CASE ~last
    BY <1>3, <2>2
  <2> QED BY <2>1, <2>2
<1>6. tokens \in SUBSET {"request", "output"}
  OBVIOUS
<1>7. LineOK(format[s], DeltasOf(s), "body", provider[s], source[s], relay[s], target[s], c,
             sent[s] \o <<Head(b.queue)>>)
  <2> HIDE DEF c, tokens
  <2> QED BY <1>2, <1>4, <1>5, HereTypes, HereLine, QueuedLine
<1>8. sent[s] \o <<Head(b.queue)>> \in Seq(FrameSet)
  BY <1>2, HereTypes, Added
<1> HIDE DEF c, tokens
<1>9. /\ "output" \in tokens => ~Live(c)
      /\ Live(c) => Live(b)
      /\ c.outcome.kind = "stopped" => b.outcome.kind = "stopped"
      /\ c.state = "Closed" => c.queue = <<>>
  <2>1. CASE c.state = b.state /\ c.outcome = b.outcome /\ tokens = {}
    BY <1>4, <2>1 DEF Live
  <2>2. CASE c.state = "Closed" /\ c.outcome = NoEvent /\ c.queue = <<>>
    BY <2>2 DEF Live, NoEvent, Event
  <2> QED BY <1>5, <2>1, <2>2
<1> QED BY <1>1, <1>5, <1>6, <1>7, <1>8, <1>9, EmitsFaith

\* The body without its task and what the task brought.
Taken(b) == [b EXCEPT !.task = "none", !.outcome = NoEvent]

LEMMA TakenBody ==
  ASSUME NEW b \in BodySet, TaskOK(b), Live(b)
  PROVE  /\ Taken(b) \in BodySet /\ Taken(b).state = b.state /\ Taken(b).queue = b.queue
         /\ Taken(b).task = "none" /\ Taken(b).outcome = NoEvent /\ Taken(b).detached = FALSE
<1>1. NoEvent \in StreamEvents \cup Signals
  BY DEF NoEvent, Event, Signals
<1>2. /\ Taken(b) \in BodySet /\ Taken(b).state = b.state /\ Taken(b).queue = b.queue
      /\ Taken(b).task = "none" /\ Taken(b).outcome = NoEvent /\ Taken(b).detached = b.detached
  BY <1>1 DEF BodySet, Taken
<1>3. b.detached \in BOOLEAN /\ ~b.detached
  BY DEF BodySet, TaskOK, Live
<1> QED BY <1>2, <1>3

\* What the task brought, and what becomes of it.
LEMMA ReceiveCases ==
  ASSUME StreamTypeOK, NEW s \in Streams, handle_receive(s)
  PROVE  LET e == body[s].outcome
             b == Taken(body[s]) IN
         \/ e.kind \in {"stopped", "cancelled"} /\ Ends(s, b, "end")
         \/ e.kind = "heartbeat" /\ Emits(s, b, <<>>, {})
         \/ e.kind = "started" /\ b.state = "AwaitingStart" /\ handle_started(s, b)
         \/ e.kind = "delta" /\ b.state = "Open" /\ Emits(s, b, <<Frame(e.seq, "delta")>>, {})
         \/ /\ e.kind \in {"completed", "filtered"} /\ b.state = "Open"
            /\ handle_completed(s, b, e.kind)
         \/ Fails(s, b)
BY DEF handle_receive, Taken

\* A body that has its event.
HasEvent(s) ==
  /\ stage[s] = "body" /\ format[s] # "unread" /\ body[s].queue = <<>> /\ Live(body[s])
  /\ body[s].task = "done"

LEMMA HereBody ==
  ASSUME StreamTypeOK, FaithInv, NEW s \in Streams, stage[s] = "body"
  PROVE  /\ LineOK(format[s], DeltasOf(s), "body", provider[s], source[s], relay[s], target[s],
                   body[s], sent[s])
         /\ format[s] \in {"chat", "responses", "audio", "bridge", "unread"}
         /\ TaskOK(body[s]) /\ body[s] \in BodySet /\ sent[s] \in Seq(FrameSet)
         /\ DeltasOf(s) \in Nat /\ provider[s] \in ProviderSet
<1>1. LineOK(format[s], DeltasOf(s), "body", provider[s], source[s], relay[s], target[s],
             body[s], sent[s])
  BY HereLine
<1>2. format[s] \in {"chat", "responses", "audio", "bridge", "unread"} /\ TaskOK(body[s])
  BY <1>1 DEF LineOK, BegunOK
<1> QED BY <1>1, <1>2, HereTypes

LEMMA HeartbeatFaith ==
  ASSUME StreamTypeOK, FaithInv, NEW s \in Streams, HasEvent(s), PollKeeps,
         body[s].outcome.kind = "heartbeat", Emits(s, Taken(body[s]), <<>>, {})
  PROVE  StreamTypeOK' /\ FaithInv'
<1> DEFINE c == Taken(body[s])
<1>1. /\ c \in BodySet /\ c.state = body[s].state /\ c.queue = body[s].queue /\ c.task = "none"
      /\ c.outcome = NoEvent /\ c.detached = FALSE
  BY HereBody, TakenBody DEF HasEvent
<1> HIDE DEF c
<1>2. TaskOK(c) /\ body[s].outcome.seq = 0
  BY <1>1, HereBody DEF TaskOK, HasEvent, BodySet, StreamEvents, Signals, Terminals
<1>3. LineOK(format[s], DeltasOf(s), "body", provider[s], source[s], relay[s], target[s], c, sent[s])
  <2>1. c.outcome.seq = 0 /\ c.outcome.kind \notin {"delta"} \cup Terminals
    BY <1>1 DEF NoEvent, Event, Terminals
  <2>2. stage[s] = "body"
    BY DEF HasEvent
  <2> QED BY <1>1, <1>2, <2>1, <2>2, HereBody, IdleLine
<1>4. sent[s] \o <<>> = sent[s]
  BY HereBody DEF HasEvent
<1>5. Live(c) /\ c.state # "Closed" /\ c.outcome.kind # "stopped"
  BY <1>1 DEF Live, HasEvent, NoEvent, Event
<1> QED BY <1>1, <1>3, <1>4, <1>5, HereBody, EmitsFaith DEF HasEvent, c

LEMMA StartedFaith ==
  ASSUME StreamTypeOK, FaithInv, NEW s \in Streams, HasEvent(s), PollKeeps,
         body[s].outcome.kind = "started", body[s].state = "AwaitingStart",
         handle_started(s, Taken(body[s]))
  PROVE  StreamTypeOK' /\ FaithInv'
<1> DEFINE t == Taken(body[s])
           h == StartFrames(format[s])
<1>1. /\ t \in BodySet /\ t.state = body[s].state /\ t.queue = <<>> /\ t.task = "none"
      /\ t.outcome = NoEvent /\ t.detached = FALSE
  BY HereBody, TakenBody DEF HasEvent
<1>2. body[s].outcome.seq > 0
  BY HereBody DEF HasEvent, BodySet, StreamEvents, Signals
<1> HIDE DEF t
<1>3. CASE format[s] = "audio"
  <2> DEFINE c == [t EXCEPT !.state = "Open", !.task = "check"]
  <2>1. Emits(s, c, <<>>, {})
    BY <1>3 DEF handle_started, t
  <2>2. c \in BodySet /\ c.state = "Open" /\ c.queue = <<>> /\ c.outcome = NoEvent /\ c.detached = FALSE
    BY <1>1 DEF BodySet
  <2> HIDE DEF c
  <2>3. TaskOK(c) /\ Live(c)
    BY <2>2 DEF TaskOK, Live
  <2>4. LineOK(format[s], DeltasOf(s), "body", provider[s], source[s], relay[s], target[s], c, sent[s])
    BY <1>2, <1>3, <2>2, <2>3, HereBody, StartedLine DEF HasEvent
  <2>5. sent[s] \o <<>> = sent[s]
    BY HereBody DEF HasEvent
  <2>6. c.state # "Closed" /\ c.outcome.kind # "stopped"
    BY <2>2 DEF NoEvent, Event
  <2> QED BY <2>1, <2>2, <2>3, <2>4, <2>5, <2>6, HereBody, EmitsFaith DEF HasEvent
<1>4. CASE format[s] # "audio"
  <2>1. format[s] \in {"chat", "bridge", "responses"}
    BY <1>4, HereBody DEF HasEvent
  <2>2. h \in Seq(FrameSet) /\ h # <<>>
    BY <2>1, HeadFrames
  <2>3. Tail(h) \in Seq(FrameSet)
    BY <2>2, TailOf
  <2> DEFINE q == Tail(h)
             c == [t EXCEPT !.state = "Open", !.queue = q]
             more == sent[s] \o <<Head(h)>>
  <2>4. Emits(s, c, <<Head(h)>>, {})
    BY <1>4 DEF handle_started, t
  <2> HIDE DEF q
  <2>5. c \in BodySet /\ c.state = "Open" /\ c.queue = q /\ c.outcome = NoEvent /\ c.task = "none"
        /\ c.detached = FALSE
    BY <1>1, <2>3 DEF BodySet, q
  <2> HIDE DEF c
  <2>6. TaskOK(c) /\ Live(c)
    BY <2>5 DEF TaskOK, Live
  <2>7. /\ LineOK(format[s], DeltasOf(s), "body", provider[s], source[s], relay[s], target[s], c, more)
        /\ more \in Seq(FrameSet)
    <3>1. stage[s] = "body" /\ c.queue = Tail(StartFrames(format[s]))
          /\ more = sent[s] \o <<Head(StartFrames(format[s]))>>
      BY <2>5 DEF HasEvent, q
    <3> HIDE DEF more, h
    <3>2. LineOK(format[s], DeltasOf(s), "body", provider[s], source[s], relay[s], target[s], body[s], sent[s])
      BY <3>1, HereBody
    <3>3. body[s] \in BodySet /\ sent[s] \in Seq(FrameSet) /\ DeltasOf(s) \in Nat /\ provider[s] \in ProviderSet
      BY <3>1, HereBody
    <3>4. c.state = "Open" /\ c.outcome = NoEvent /\ TaskOK(c)
      BY <2>5, <2>6
    <3>5. \/ format[s] = "audio" /\ c.queue = <<>> /\ more = sent[s]
          \/ /\ format[s] \in {"chat", "bridge", "responses"} /\ c.queue = Tail(StartFrames(format[s]))
             /\ more = sent[s] \o <<Head(StartFrames(format[s]))>>
      BY <2>1, <3>1, Zenon
    <3> QED BY <1>2, <3>2, <3>3, <3>4, <3>5, StartedLine, ZenonT(60)
  <2>8. c.state # "Closed" /\ c.outcome.kind # "stopped"
    BY <2>5 DEF NoEvent, Event
  <2>9. stage[s] = "body" /\ Live(body[s])
    BY DEF HasEvent
  <2> HIDE DEF h
  <2> QED BY <2>4, <2>5, <2>6, <2>7, <2>8, <2>9, EmitsFaith
<1> QED BY <1>3, <1>4

LEMMA DeltaFaith ==
  ASSUME StreamTypeOK, FaithInv, NEW s \in Streams, HasEvent(s), PollKeeps,
         body[s].outcome.kind = "delta", body[s].state = "Open",
         Emits(s, Taken(body[s]), <<Frame(body[s].outcome.seq, "delta")>>, {})
  PROVE  StreamTypeOK' /\ FaithInv'
<1> DEFINE c == Taken(body[s])
           x == Frame(body[s].outcome.seq, "delta")
           more == sent[s] \o <<x>>
<1>1. /\ c \in BodySet /\ c.state = "Open" /\ c.queue = <<>> /\ c.task = "none"
      /\ c.outcome = NoEvent /\ c.detached = FALSE
  BY HereBody, TakenBody DEF HasEvent
<1> HIDE DEF c
<1>2. TaskOK(c) /\ Live(c) /\ body[s].outcome \in StreamEvents
  BY <1>1, HereBody DEF TaskOK, HasEvent, Live, BodySet, Signals
<1>3. /\ LineOK(format[s], DeltasOf(s), "body", provider[s], source[s], relay[s], target[s], c, more)
      /\ more \in Seq(FrameSet)
  BY <1>1, <1>2, HereBody, DeltaLine DEF HasEvent
<1>4. c.state # "Closed" /\ c.outcome.kind # "stopped"
  BY <1>1 DEF NoEvent, Event
<1>5. stage[s] = "body" /\ Live(body[s]) /\ Emits(s, c, <<x>>, {})
  BY DEF HasEvent, c
<1> HIDE DEF x
<1> QED BY <1>1, <1>2, <1>3, <1>4, <1>5, EmitsFaith

LEMMA FailsFaith ==
  ASSUME StreamTypeOK, FaithInv, NEW s \in Streams, HasEvent(s), PollKeeps,
         Fails(s, Taken(body[s]))
  PROVE  StreamTypeOK' /\ FaithInv'
<1> DEFINE t == Taken(body[s])
<1>1. /\ t \in BodySet /\ t.queue = <<>> /\ t.task = "none"
      /\ t.outcome = NoEvent /\ t.detached = FALSE
  BY HereBody, TakenBody DEF HasEvent
<1> HIDE DEF t
<1>2. CASE format[s] = "bridge"
  <2> DEFINE c == [t EXCEPT !.state = "Terminal"]
             x == Frame(0, "error")
             more == sent[s] \o <<x>>
  <2>1. Emits(s, c, <<x>>, {})
    BY <1>2, OneFrame DEF Fails, t, FrameKinds
  <2>2. c \in BodySet /\ c.state = "Terminal" /\ c.queue = <<>> /\ c.outcome = NoEvent /\ c.task = "none"
        /\ c.detached = FALSE
    BY <1>1 DEF BodySet
  <2>3. x \in FrameSet /\ x.kind = "error"
    BY OneFrame DEF FrameKinds
  <2> HIDE DEF c, x
  <2>4. TaskOK(c) /\ ~Live(c)
    BY <2>2 DEF TaskOK, Live
  <2>5. more \in Seq(FrameSet)
    BY <2>3, HereBody, Added DEF HasEvent
  <2>6. LineOK(format[s], DeltasOf(s), "body", provider[s], source[s], relay[s], target[s], c, more)
    <3>1. c.queue \in Seq(FrameSet) /\ Len(c.queue) = 0
      BY <2>2
    <3>2. body[s].state # "Closed" /\ x.kind \notin {"delta"} \cup Closers
      BY <2>3 DEF HasEvent, Live, Closers
    <3>3. /\ ~(x.kind = "finish" \/ c.queue # <<>>) /\ x.kind \in {"finish", "error"} /\ format[s] # "audio"
          /\ stage[s] = "body" /\ \A i \in 1..Len(c.queue) : c.queue[i].kind \notin {"delta"} \cup Closers
      BY <1>2, <2>2, <2>3, <3>1 DEF HasEvent
    <3> HIDE DEF more
    <3>4. LineOK(format[s], DeltasOf(s), "body", provider[s], source[s], relay[s], target[s], c,
                 sent[s] \o <<x>>)
      BY <2>2, <2>3, <2>4, <3>1, <3>2, <3>3, HereBody, TerminalLine
    <3> QED BY <3>4 DEF more
  <2>7. c.state # "Closed" /\ c.outcome.kind # "stopped"
    BY <2>2 DEF NoEvent, Event
  <2> QED BY <2>1, <2>2, <2>4, <2>5, <2>6, <2>7, HereBody, EmitsFaith DEF HasEvent
<1>3. CASE format[s] # "bridge"
  BY <1>1, <1>3, EndsFaith DEF Fails, HasEvent, t, Closers
<1> QED BY <1>2, <1>3

LEMMA CompletedFaith ==
  ASSUME StreamTypeOK, FaithInv, NEW s \in Streams, HasEvent(s), PollKeeps,
         body[s].outcome.kind \in {"completed", "filtered"}, body[s].state = "Open",
         handle_completed(s, Taken(body[s]), body[s].outcome.kind)
  PROVE  StreamTypeOK' /\ FaithInv'
<1> DEFINE t == Taken(body[s])
           f == format[s]
           all == FinishFrames(f)
<1>1. /\ t \in BodySet /\ t.queue = <<>> /\ t.task = "none"
      /\ t.outcome = NoEvent /\ t.detached = FALSE
  BY HereBody, TakenBody DEF HasEvent
<1>2. body[s].outcome \in StreamEvents
  BY HereBody DEF HasEvent, BodySet, Signals
<1>3. Complete(provider[s]) /\ AllIn(f, DeltasOf(s), sent[s])
  BY <1>2, HereBody, CompletionIsWhole DEF HasEvent
<1>4. f \in {"chat", "responses", "audio", "bridge"}
  BY HereBody DEF HasEvent
<1> HIDE DEF t
<1>5. CASE f = "audio"
  BY <1>1, <1>5, EndsFaith DEF handle_completed, HasEvent, t, Closers
<1>6. CASE f = "responses" /\ body[s].outcome.kind = "filtered"
  <2> DEFINE q == SubSeq(all, 1, 3)
             c == [t EXCEPT !.queue = q]
  <2>1. Ends(s, c, "abort")
    BY <1>6 DEF handle_completed, t
  <2>2. q \in Seq(FrameSet)
    BY <1>6, TailFrames
  <2> HIDE DEF q
  <2>3. c \in BodySet
    BY <1>1, <2>2 DEF BodySet
  <2> HIDE DEF c
  <2> QED BY <2>1, <2>3, EndsFaith DEF HasEvent, Closers
<1>7. CASE f # "audio" /\ ~(f = "responses" /\ body[s].outcome.kind = "filtered")
  <2> DEFINE q == Tail(all)
             u == f = "bridge"
             c == [t EXCEPT !.state = "Terminal", !.queue = q, !.subscribed = u]
             x == all[1]
             tokens == IF f = "chat" THEN {"output"} ELSE {}
             more == sent[s] \o <<x>>
  <2>1. /\ all \in Seq(FrameSet) /\ Len(all) > 0 /\ all # <<>>
        /\ \A i \in 1..Len(all) : all[i].kind \notin {"delta"} \cup Closers
        /\ all[Len(all)].kind = "finish"
    BY <1>4, <1>7, TailFrames
  <2>2. /\ Head(all) = x /\ x \in FrameSet /\ q \in Seq(FrameSet) /\ Len(q) = Len(all) - 1
        /\ Len(all) \in Nat /\ Len(q) \in Nat
        /\ \A i \in 1..Len(q) : q[i] = all[i + 1]
        /\ (q = <<>> <=> Len(all) = 1)
    BY <2>1, TailOf
  <2>3. Emits(s, c, <<x>>, tokens)
    BY <1>4, <1>7, <2>2 DEF handle_completed, t
  <2>4. u \in BOOLEAN /\ tokens \in SUBSET {"request", "output"}
    OBVIOUS
  <2> HIDE DEF q, u
  <2>5. c \in BodySet /\ c.state = "Terminal" /\ c.queue = q /\ c.outcome = NoEvent /\ c.task = "none"
        /\ c.detached = FALSE
    BY <1>1, <2>2, <2>4 DEF BodySet
  <2> HIDE DEF c, x, all, tokens
  <2>6. TaskOK(c) /\ ~Live(c)
    BY <2>5 DEF TaskOK, Live
  <2>7. /\ x.kind \notin {"delta"} \cup Closers
        /\ c.queue = <<>> => x.kind \in {"finish", "error"}
        /\ c.queue # <<>> => c.queue[Len(c.queue)].kind = "finish"
        /\ \A i \in 1..Len(c.queue) : c.queue[i].kind \notin {"delta"} \cup Closers
    <3>1. x.kind \notin {"delta"} \cup Closers
      BY <2>1 DEF x
    <3>2. q = <<>> => x.kind = "finish"
      BY <2>1, <2>2 DEF x
    <3>3. \A i \in 1..Len(q) : q[i].kind \notin {"delta"} \cup Closers
      BY <2>1, <2>2
    <3>4. q # <<>> => q[Len(q)].kind = "finish"
      BY <2>1, <2>2
    <3> QED BY <2>5, <3>1, <3>2, <3>3, <3>4
  <2>8. more \in Seq(FrameSet)
    BY <2>2, HereBody, Added DEF HasEvent
  <2>9. LineOK(f, DeltasOf(s), "body", provider[s], source[s], relay[s], target[s], c, more)
    <3>1. body[s].state # "Closed" /\ c.queue \in Seq(FrameSet)
      BY <2>2, <2>5
    <3> QED BY <1>3, <1>7, <2>2, <2>5, <2>6, <2>7, <3>1, HereBody, TerminalLine DEF HasEvent
  <2>10. c.state # "Closed" /\ c.outcome.kind # "stopped"
    BY <2>5 DEF NoEvent, Event
  <2> QED BY <2>3, <2>4, <2>5, <2>6, <2>8, <2>9, <2>10, HereBody, EmitsFaith DEF HasEvent
<1> QED BY <1>5, <1>6, <1>7

LEMMA ReceiveFaith ==
  ASSUME StreamTypeOK, FaithInv, NEW s \in Streams, HasEvent(s), PollKeeps, handle_receive(s)
  PROVE  StreamTypeOK' /\ FaithInv'
<1> DEFINE b == Taken(body[s])
<1>1. stage[s] = "body" /\ b \in BodySet /\ b.state = body[s].state
  BY HereBody, TakenBody DEF HasEvent
<1>2. CASE Ends(s, b, "end")
  BY <1>1, <1>2, EndsFaith DEF Closers
<1> HIDE DEF b
<1> QED BY <1>1, <1>2, ReceiveCases, HeartbeatFaith, StartedFaith, DeltaFaith, CompletedFaith,
           FailsFaith DEF b

LEMMA WakeFaith ==
  ASSUME StreamTypeOK, FaithInv, NEW s \in Streams, stage[s] = "body", PollKeeps,
         Live(body[s]), body[s].task = "none", Emits(s, [body[s] EXCEPT !.task = "check"], <<>>, {})
  PROVE  StreamTypeOK' /\ FaithInv'
<1> DEFINE c == [body[s] EXCEPT !.task = "check"]
<1>0. body[s] \in BodySet /\ TaskOK(body[s]) /\ sent[s] \in Seq(FrameSet)
  BY HereBody
<1>1. /\ c \in BodySet /\ c.state = body[s].state /\ c.queue = body[s].queue /\ c.task = "check"
      /\ c.outcome = body[s].outcome /\ c.detached = body[s].detached
  BY <1>0 DEF BodySet
<1> HIDE DEF c
<1>2. /\ TaskOK(c) /\ body[s].outcome.seq = 0 /\ c.outcome.seq = 0
      /\ c.outcome.kind \notin {"delta", "stopped"} \cup Terminals
  BY <1>0, <1>1 DEF TaskOK, Live, NoEvent, Event, Terminals
<1>3. LineOK(format[s], DeltasOf(s), "body", provider[s], source[s], relay[s], target[s], c, sent[s])
  BY <1>1, <1>2, HereBody, IdleLine
<1>4. sent[s] \o <<>> = sent[s]
  BY <1>0
<1>5. Live(c) /\ c.state # "Closed" /\ c.outcome.kind # "stopped"
  BY <1>1, <1>2 DEF Live
<1>6. Emits(s, c, <<>>, {})
  BY DEF c
<1> QED BY <1>0, <1>1, <1>3, <1>4, <1>5, <1>6, EmitsFaith

\* Which of its ways a poll takes.
LEMMA PollCases ==
  ASSUME StreamTypeOK, NEW s \in Streams, poll_next(s)
  PROVE  /\ stage[s] = "body" /\ format[s] # "unread" /\ PollKeeps
         /\ \/ Inactive(s) /\ Ends(s, body[s], "end")
            \/ /\ format[s] = "bridge" \/ ~Inactive(s)
               /\ body[s].queue # <<>>
               /\ LET b == body[s]
                      closed == b.state \in {"Terminal", "Closed"}
                      rest == [b EXCEPT !.queue = Tail(@)] IN
                  Emits(s, IF format[s] = "responses" /\ rest.queue = <<>> /\ closed
                             THEN Closing(format[s], rest) ELSE rest,
                        <<Head(b.queue)>>,
                        IF format[s] = "responses" /\ rest.queue = <<>> /\ closed
                          THEN {"output"} ELSE {})
            \/ /\ body[s].queue = <<>> /\ ~Live(body[s]) /\ Ends(s, body[s], "end")
            \/ /\ Live(body[s]) /\ body[s].task = "none"
               /\ Emits(s, [body[s] EXCEPT !.task = "check"], <<>>, {})
            \/ HasEvent(s) /\ handle_receive(s)
<1>1. Live(body[s]) <=> body[s].state \notin {"Terminal", "Closed"}
  BY HereTypes DEF Live, BodySet
<1> QED BY <1>1 DEF poll_next, HasEvent, PollKeeps

LEMMA PollFaith ==
  ASSUME StreamTypeOK, FaithInv, NEW s \in Streams, poll_next(s)
  PROVE  StreamTypeOK' /\ FaithInv'
<1>1. stage[s] = "body" /\ PollKeeps /\ body[s] \in BodySet /\ "end" \in Closers
  BY PollCases, HereTypes DEF Closers
<1>2. CASE Ends(s, body[s], "end")
  BY <1>1, <1>2, EndsFaith
<1>3. CASE HasEvent(s) /\ handle_receive(s)
  BY <1>1, <1>3, ReceiveFaith
<1>4. CASE /\ Live(body[s]) /\ body[s].task = "none"
           /\ Emits(s, [body[s] EXCEPT !.task = "check"], <<>>, {})
  BY <1>1, <1>4, WakeFaith
<1> QED BY <1>1, <1>2, <1>3, <1>4, PollCases, QueuedFaith

LEMMA DropBodyFaith ==
  ASSUME StreamTypeOK, FaithInv, NEW s \in Streams, drop_body(s)
  PROVE  StreamTypeOK' /\ FaithInv'
<1> DEFINE e == [body[s] EXCEPT !.queue = <<>>]
           c == Closing(format[s], e)
<1>0. /\ stage[s] = "body" /\ Cancel(s, {"request", "output"}) /\ UNCHANGED <<late, manager>>
      /\ body' = [body EXCEPT ![s] = c]
  BY DEF drop_body, FinishTokens
<1>1. e \in BodySet /\ e.queue = <<>>
  <2>1. body[s] \in BodySet /\ <<>> \in Seq(FrameSet)
    BY HereTypes
  <2> QED BY <2>1 DEF BodySet
<1>2. c \in BodySet /\ c.state = "Closed" /\ c.outcome = NoEvent /\ TaskOK(c) /\ c.queue = <<>>
  <2> HIDE DEF e
  <2> QED BY <1>1, ClosingBody
<1> HIDE DEF c
<1>3. Sets(s, "gone", provider[s], source[s], relay[s], target[s], c, sent[s])
  BY <1>0, AllKept DEF drop_body, Sets, Kept
<1>4. SparesOthers(s)
  BY <1>0, Spares
<1>5. TokensOK(s)'
  BY <1>0, <1>2, <1>3, SetsValues, CancelMarks DEF TokensOK, CalledOff, Inactive, Live, NoEvent, Event
<1>6. LineOK(format[s], DeltasOf(s), "gone", provider[s], source[s], relay[s], target[s], c, sent[s])
  <2>1. FaithfulTo(format[s], DeltasOf(s), provider[s], sent[s])
    BY HereLine DEF LineOK, ShapeOK
  <2> QED BY <1>0, <1>2, <2>1, HereBody, ClosedBodyLine
<1> QED BY <1>2, <1>3, <1>4, <1>5, <1>6, HereTypes, StreamMoves DEF Stages

LEMMA FaithStart ==
  ASSUME StreamInit
  PROVE  StreamTypeOK /\ FaithInv
<1>0. NoEvent \in Signals /\ NoEvent.seq = 0 /\ NoEvent.kind = "none"
  BY DEF NoEvent, Event, Signals
<1>1. format \in [Streams -> Formats]
  BY StreamAssumption DEF StreamInit, StreamAssumption, Formats
<1>2. /\ stage \in [Streams -> Stages]
      /\ source \in [Streams -> Seq(StreamEvents)] /\ target \in [Streams -> Seq(StreamEvents)]
      /\ sent \in [Streams -> Seq(FrameSet)] /\ late \in SUBSET Streams /\ withdrawn \in TokenSet
  BY DEF StreamInit, Stages, TokenSet
<1>3. /\ provider \in [Streams -> ProviderSet] /\ relay \in [Streams -> RelaySet]
  BY DEF StreamInit, ProviderSet, RelaySet, RelayPlaces
<1>4. body \in [Streams -> BodySet]
  BY <1>0 DEF StreamInit, BodySet
<1>5. StreamTypeOK
  BY <1>1, <1>2, <1>3, <1>4 DEF StreamTypeOK
<1>6. ASSUME NEW s \in Streams PROVE Line(s) /\ TokensOK(s)
  <2> DEFINE b == body[s]
             p == provider[s]
             r == relay[s]
  <2>1. /\ b.state = "AwaitingStart" /\ b.queue = <<>> /\ b.task = "none" /\ b.outcome = NoEvent
        /\ b.detached = FALSE
        /\ p.at = "none" /\ p.next = 1 /\ p.last = "none"
        /\ r.at = "none" /\ r.event = NoEvent
        /\ source[s] = <<>> /\ target[s] = <<>> /\ sent[s] = <<>>
        /\ stage[s] \in {"gone", "idle"} /\ (stage[s] = "idle" => format[s] # "absent")
        /\ s \notin withdrawn.output /\ (s \in withdrawn.attempt => s \in withdrawn.request)
    BY DEF StreamInit
  <2> HIDE DEF b, p, r
  <2>2. ShapeOK(format[s], DeltasOf(s), stage[s], p, b, sent[s]) /\ TaskOK(b)
    BY <2>1 DEF ShapeOK, FaithfulTo, Ended, TaskOK
  <2>3. BegunOK(format[s], stage[s], p, r, target[s], b) /\ ProviderOK(DeltasOf(s), p)
    BY <2>1 DEF BegunOK, ProviderOK
  <2>4. TruthOK(DeltasOf(s), p, source[s], r, target[s], b)
    BY <1>0, <2>1 DEF TruthOK, TrueEvent
  <2>5. ChainOK(p, source[s], r, target[s], b.outcome, Has(format[s], b, sent[s]))
    BY <1>0, <2>1 DEF ChainOK, Has, Used, Continues
  <2>6. Line(s)
    BY <2>2, <2>3, <2>4, <2>5 DEF Line, LineOK, b, p, r
  <2>7. TokensOK(s)
    BY <1>0, <2>1 DEF TokensOK, b
  <2> QED BY <2>6, <2>7
<1> QED BY <1>5, <1>6 DEF FaithInv

LEMMA FaithStep ==
  ASSUME StreamTypeOK, FaithInv, manager \in Managers, [StreamNext]_streamVars
  PROVE  StreamTypeOK' /\ FaithInv'
<1>1. ASSUME NEW s \in Streams, try_acquire(s) \/ call(s) \/ start(s) \/ open_body(s) \/ drop_call(s)
      PROVE  StreamTypeOK' /\ FaithInv'
  BY <1>1, TryAcquireFaith, CallFaith, StartFaith, OpenBodyFaith, DropCallFaith
<1>2. ASSUME NEW s \in Streams, publish_next(s) \/ publish_terminal_failure(s) \/ provider_panics(s)
      PROVE  StreamTypeOK' /\ FaithInv'
  BY <1>2, ProviderFaith DEF ProviderStep
<1>3. ASSUME NEW s \in Streams, relay_loop(s) \/ relay_receive(s) \/ publish_once(s)
      PROVE  StreamTypeOK' /\ FaithInv'
  BY <1>3, RelayLoopFaith, RelayReceiveFaith, PublishOnceFaith
<1>4. ASSUME NEW s \in Streams, receive_check(s) \/ receive_wait(s) \/ poll_next(s) \/ drop_body(s)
      PROVE  StreamTypeOK' /\ FaithInv'
  BY <1>4, ReceiveCheckFaith, ReceiveWaitFaith, PollFaith, DropBodyFaith
<1>5. CASE \/ drop_manager \/ http_shutdown \/ UNCHANGED streamVars
           \/ \E s \in Streams : deadline_passes(s)
  BY <1>5, EnvironmentFaith
<1> QED BY <1>1, <1>2, <1>3, <1>4, <1>5 DEF StreamNext, HandlerStep, ProviderStep, RelayStep, TaskStep

LEMMA FaithHolds == StreamSpec => [](StreamTypeOK /\ FaithInv /\ manager \in Managers)
<1>1. StreamInit => StreamTypeOK /\ FaithInv
  BY FaithStart
<1>2. RelayInv => manager \in Managers
  BY DEF RelayInv, RelayTypeOK
<1>3. StreamTypeOK /\ FaithInv /\ RelayInv /\ [StreamNext]_streamVars => (StreamTypeOK /\ FaithInv)'
  BY <1>2, FaithStep
<1> QED BY <1>1, <1>2, <1>3, RelayInvHolds, PTL DEF StreamSpec

\* What reaches a client is what the provider published, in order and without a
\* gap behind the frames of the start; a finish is sent only when the provider has
\* completed the answer and all its deltas have been sent; and nothing follows the
\* end.  For any number of streams and deltas, any capacities of the two channels
\* and every protocol: no event is lost, doubled or overtaken between publish_next,
\* the relay's publish_once, the receive task and the body's poll_next.
THEOREM StreamsStayFaithful == StreamSpec => []StreamsAreFaithful
<1>1. StreamTypeOK /\ FaithInv => StreamsAreFaithful
  <2> SUFFICES ASSUME StreamTypeOK, FaithInv, NEW s \in Streams, NEW i \in DOMAIN sent[s]
               PROVE  LET heads == StartFrames(format[s])
                          frame == sent[s][i] IN
                      /\ frame.kind = "delta" =>
                           /\ IsPrefix(heads, sent[s]) /\ i > Len(heads)
                           /\ frame.seq = i - Len(heads) + 1 /\ frame.seq < provider[s].next
                      /\ frame.kind \in Closers => i = Len(sent[s])
                      /\ frame.kind = "finish" => Completed(s) /\ AllSent(s)
    BY DEF StreamsAreFaithful
  <2>1. FaithfulTo(format[s], DeltasOf(s), provider[s], sent[s])
    BY HereLine DEF LineOK, ShapeOK
  <2>2. i \in 1..Len(sent[s])
    BY HereTypes
  <2>3. AllIn(format[s], DeltasOf(s), sent[s]) <=> AllSent(s)
    BY DEF AllIn, AllSent
  <2>4. Complete(provider[s]) <=> Completed(s)
    BY DEF Complete, Completed
  <2> QED BY <2>1, <2>2, <2>3, <2>4 DEF FaithfulTo
<1> QED BY <1>1, FaithHolds, PTL

\* What a poll that emits one frame, or ends the body, has sent last.
LEMMA EmitsLast ==
  ASSUME StreamTypeOK, NEW s \in Streams, NEW c, NEW x \in FrameSet, NEW tokens,
         Emits(s, c, <<x>>, tokens)
  PROVE  Last(sent'[s]) = x
<1>1. sent[s] \in Seq(FrameSet)
  BY HereTypes
<1>2. sent'[s] = sent[s] \o <<x>>
  BY DEF Emits, StreamTypeOK
<1> QED BY <1>1, <1>2, Added DEF Last

LEMMA EmitsNothing ==
  ASSUME StreamTypeOK, NEW s \in Streams, NEW c, NEW tokens, Emits(s, c, <<>>, tokens)
  PROVE  sent'[s] = sent[s]
<1>1. sent[s] \in Seq(FrameSet) /\ sent'[s] = sent[s] \o <<>>
  BY HereTypes DEF Emits, StreamTypeOK
<1> QED BY <1>1

LEMMA EndsLast ==
  ASSUME StreamTypeOK, NEW s \in Streams, NEW b, NEW k \in Closers, Ends(s, b, k)
  PROVE  IF Ended(sent[s]) THEN sent'[s] = sent[s] ELSE Last(sent'[s]).kind = k
<1>1. CASE Ended(sent[s])
  BY <1>1, EmitsNothing DEF Ends, Finished, Ended, Last
<1>2. CASE ~Ended(sent[s])
  <2>1. Frames(<<k>>) = <<Frame(0, k)>> /\ Frame(0, k) \in FrameSet /\ Frame(0, k).kind = k
    BY OneFrame DEF Closers, FrameKinds
  <2>2. Emits(s, Closing(format[s], b), <<Frame(0, k)>>, FinishTokens)
    BY <1>2, <2>1 DEF Ends, Finished, Ended, Last
  <2> QED BY <1>2, <2>1, <2>2, EmitsLast
<1> QED BY <1>1, <1>2

\* Only a poll of its body sends something to a client.
LEMMA PollEmits ==
  ASSUME StreamTypeOK, NEW s \in Streams, poll_next(s)
  PROVE  \E c, frames, tokens : Emits(s, c, frames, tokens)
<1>1. \A b, k : Ends(s, b, k) => \E c, frames, tokens : Emits(s, c, frames, tokens)
  BY Zenon DEF Ends
<1>2. \A b : Fails(s, b) => \E c, frames, tokens : Emits(s, c, frames, tokens)
  BY <1>1, Zenon DEF Fails
<1>3. \A b : handle_started(s, b) => \E c, frames, tokens : Emits(s, c, frames, tokens)
  BY Zenon DEF handle_started
<1>4. \A b, k : handle_completed(s, b, k) => \E c, frames, tokens : Emits(s, c, frames, tokens)
  BY <1>1 DEF handle_completed
<1>5. handle_receive(s) => \E c, frames, tokens : Emits(s, c, frames, tokens)
  BY <1>1, <1>2, <1>3, <1>4, ReceiveCases
<1> QED BY <1>1, <1>5 DEF poll_next

LEMMA OnlyPollsSend ==
  ASSUME StreamTypeOK, StreamNext, NEW s \in Streams, sent'[s] # sent[s]
  PROVE  poll_next(s)
<1>1. ASSUME NEW t \in Streams, poll_next(t) PROVE t = s
  BY <1>1, PollEmits DEF Emits, StreamTypeOK
<1>2. ASSUME NEW t \in Streams, try_acquire(t) \/ HandlerStep(t) \/ drop_call(t)
      PROVE  UNCHANGED sent
  BY <1>2 DEF try_acquire, HandlerStep, call, start, open_body, drop_call
<1>3. ASSUME NEW t \in Streams,
             ProviderStep(t) \/ provider_panics(t) \/ RelayStep(t) \/ TaskStep(t)
               \/ drop_body(t) \/ deadline_passes(t)
      PROVE  UNCHANGED sent
  BY <1>3 DEF ProviderStep, publish_next, publish_terminal_failure, provider_panics, RelayStep,
     relay_loop, relay_receive, publish_once, TaskStep, receive_check, receive_wait, drop_body,
     deadline_passes
<1>4. drop_manager \/ http_shutdown => UNCHANGED sent
  BY DEF drop_manager, http_shutdown
<1> QED BY <1>1, <1>2, <1>3, <1>4 DEF StreamNext

\* A queued frame does not end a body.
LEMMA QueuedIsNoEnd ==
  ASSUME StreamTypeOK, FaithInv, NEW s \in Streams, stage[s] = "body", body[s].queue # <<>>,
         format[s] = "bridge" \/ ~Inactive(s)
  PROVE  Head(body[s].queue) \in FrameSet /\ Head(body[s].queue).kind \notin Closers
<1> DEFINE b == body[s]
           h == StartFrames(format[s])
<1>1. b.queue \in Seq(FrameSet) /\ b.state \in {"AwaitingStart", "Open", "Terminal", "Closed"}
  BY HereTypes DEF BodySet
<1>2. Head(b.queue) = b.queue[1] /\ b.queue[1] \in FrameSet /\ Len(b.queue) > 0 /\ Len(b.queue) \in Nat
  BY <1>1, TailOf
<1>3. b.state # "Closed"
  BY HereLine DEF TokensOK, Inactive
<1>4. ShapeOK(format[s], DeltasOf(s), "body", provider[s], b, sent[s])
  BY HereLine DEF LineOK
<1>5. CASE b.state = "Open"
  <2>0. Len(sent[s]) \in Nat /\ h \in Seq(FrameSet) /\ Len(h) \in Nat
    BY HereTypes, HeadFrames
  <2>1. b.queue[1] = h[Len(sent[s]) + 1] /\ Len(sent[s]) + Len(b.queue) = Len(h)
    <3>1. OpenOK(format[s], b, sent[s]) /\ b.queue # <<>> /\ 1 \in 1..Len(b.queue)
      BY <1>2, <1>4, <1>5 DEF ShapeOK
    <3> HIDE DEF b, h
    <3> QED BY <3>1 DEF OpenOK, h
  <2>2. Len(sent[s]) + 1 \in 1..Len(h)
    <3>1. \A m, n, k \in Nat : n > 0 /\ m + n = k => m + 1 \in 1..k
      OBVIOUS
    <3>2. Len(sent[s]) + Len(b.queue) = Len(h) /\ Len(b.queue) > 0
      BY <1>2, <2>1
    <3> HIDE DEF b, h
    <3> QED BY <1>2, <2>0, <3>1, <3>2
  <2> QED BY <1>2, <2>1, <2>2, HeadFrames
<1>6. CASE b.state = "Terminal"
  BY <1>2, <1>4, <1>6 DEF ShapeOK, TerminalOK
<1> QED BY <1>1, <1>3, <1>4, <1>5, <1>6 DEF ShapeOK

\* A body that was told off, or whose answer is complete, has delivered it.
LEMMA ToldIsDelivered ==
  ASSUME StreamTypeOK, NEW s \in Streams, Told(format[s], sent[s])
  PROVE  Delivered(s)
<1>1. PICK i \in 1..Len(sent[s]) : sent[s][i].kind \in {"finish", "error"}
  BY DEF Told
<1>2. i \in DOMAIN sent[s]
  BY HereTypes
<1> QED BY <1>1, <1>2 DEF Told, Delivered, SentKinds

LEMMA SilentPoll ==
  ASSUME StreamTypeOK, FaithInv, NEW s \in Streams, poll_next(s), sent'[s] # sent[s],
         Last(sent'[s]).kind = "end", ~Delivered(s)
  PROVE  Inactive(s) \/ manager.shutdown \/ provider[s].last = "cancelled"
<1>0. /\ stage[s] = "body" /\ format[s] # "unread" /\ "end" \in Closers /\ "abort" \in Closers
      /\ "end" # "abort"
  BY PollCases DEF Closers
<1>1. CASE /\ format[s] = "bridge" \/ ~Inactive(s)
           /\ body[s].queue # <<>> /\ \E c, tokens : Emits(s, c, <<Head(body[s].queue)>>, tokens)
  BY <1>0, <1>1, QueuedIsNoEnd, EmitsLast DEF Closers
<1>2. CASE body[s].queue = <<>> /\ ~Live(body[s]) /\ Ends(s, body[s], "end")
  <2>1. ~Ended(sent[s])
    BY <1>0, <1>2, EndsLast
  <2>2. ShapeOK(format[s], DeltasOf(s), "body", provider[s], body[s], sent[s])
    BY <1>0, HereLine DEF LineOK
  <2>3. body[s].state \in {"Terminal", "Closed"}
    BY <1>2, HereTypes DEF Live, BodySet
  <2>4. Told(format[s], sent[s])
    BY <1>2, <2>1, <2>2, <2>3 DEF ShapeOK, TerminalOK
  <2> QED BY <2>4, ToldIsDelivered
<1>3. CASE \E c : Emits(s, c, <<>>, {})
  BY <1>3, EmitsNothing
<1>4. CASE HasEvent(s) /\ handle_receive(s)
  <2> DEFINE e == body[s].outcome
             b == Taken(body[s])
  <2>1. CASE e.kind = "stopped"
    BY <2>1, HereLine DEF TokensOK, CalledOff
  <2>2. CASE e.kind = "cancelled"
    BY <2>2, HereLine DEF LineOK, TruthOK, TrueEvent
  <2>3. CASE e.kind = "started" /\ handle_started(s, b)
    <3>1. format[s] # "audio"
      BY <2>3, EmitsNothing DEF handle_started
    <3>2. StartFrames(format[s]) \in Seq(FrameSet) /\ StartFrames(format[s]) # <<>>
      BY <1>0, <3>1, HereBody, HeadFrames
    <3>3. /\ Head(StartFrames(format[s])) = StartFrames(format[s])[1]
          /\ StartFrames(format[s])[1] \in FrameSet /\ 1 \in 1..Len(StartFrames(format[s]))
      BY <3>2, TailOf
    <3>4. StartFrames(format[s])[1].kind \notin Closers
      BY <3>3, HeadFrames
    <3> QED BY <1>0, <2>3, <3>1, <3>3, <3>4, EmitsLast DEF handle_started
  <2>4. CASE e.kind = "delta" /\ Emits(s, b, <<Frame(e.seq, "delta")>>, {})
    <3>1. Frame(e.seq, "delta") \in FrameSet /\ Frame(e.seq, "delta").kind = "delta"
      BY HereTypes DEF Frame, FrameSet, FrameKinds, BodySet, StreamEvents, Signals
    <3> QED BY <2>4, <3>1, EmitsLast
  <2>5. CASE Fails(s, b)
    <3>1. CASE format[s] = "bridge"
      <4>1. Frames(<<"error">>) = <<Frame(0, "error")>> /\ Frame(0, "error") \in FrameSet
            /\ Frame(0, "error").kind = "error"
        BY OneFrame DEF FrameKinds
      <4> QED BY <2>5, <3>1, <4>1, EmitsLast DEF Fails
    <3>2. CASE format[s] # "bridge"
      <4>1. Ends(s, b, "abort")
        BY <2>5, <3>2 DEF Fails
      <4> QED BY <1>0, <4>1, EndsLast
    <3> QED BY <3>1, <3>2
  <2>6. CASE /\ e.kind \in {"completed", "filtered"} /\ b.state = "Open"
             /\ handle_completed(s, b, e.kind)
    <3>1. CASE format[s] = "audio"
      <4>1. body[s].state = "Open" /\ body[s].queue = <<>> /\ e \in StreamEvents
        <5>1. b.state = body[s].state
          BY <1>0, <1>4, HereBody, TakenBody DEF HasEvent
        <5>2. e \in StreamEvents \cup Signals
          BY HereTypes DEF BodySet
        <5>3. e \notin Signals
          BY <2>6 DEF Signals
        <5> QED BY <1>4, <2>6, <5>1, <5>2, <5>3 DEF HasEvent
      <4>2. Complete(provider[s]) /\ AllIn(format[s], DeltasOf(s), sent[s])
        BY <1>0, <2>6, <4>1, HereBody, CompletionIsWhole
      <4>3. Delivered(s)
        BY <3>1, <4>2 DEF Delivered, Completed, Complete, AllIn, AllSent
      <4> QED BY <4>3
    <3>2. CASE format[s] = "responses" /\ e.kind = "filtered"
      <4>1. \E c : Ends(s, c, "abort")
        BY <2>6, <3>2 DEF handle_completed
      <4> QED BY <1>0, <4>1, EndsLast
    <3>3. CASE format[s] # "audio" /\ ~(format[s] = "responses" /\ e.kind = "filtered")
      <4> DEFINE all == FinishFrames(format[s])
      <4>1. /\ all \in Seq(FrameSet) /\ all # <<>> /\ Len(all) > 0
            /\ \A i \in 1..Len(all) : all[i].kind \notin {"delta"} \cup Closers
        BY <1>0, <3>3, HereBody, TailFrames
      <4>2. Head(all) = all[1] /\ all[1] \in FrameSet /\ all[1].kind \notin Closers
        BY <4>1, TailOf
      <4>3. \E c, tokens : Emits(s, c, <<Head(all)>>, tokens)
        BY <2>6, <3>3 DEF handle_completed
      <4> HIDE DEF all
      <4> QED BY <1>0, <4>2, <4>3, EmitsLast
    <3> QED BY <3>1, <3>2, <3>3
  <2>7. CASE Emits(s, b, <<>>, {})
    BY <1>3, <2>7
  <2> QED BY <1>4, <2>1, <2>2, <2>3, <2>4, <2>5, <2>6, <2>7, ReceiveCases
<1> QED BY <1>1, <1>2, <1>3, <1>4, PollCases

\* A body ends without a word only when its answer was delivered, its request is
\* over, the relays were shut down or the provider cancelled: for any number of
\* streams, the end that poll_next gives is explained by the state it was read in,
\* although the relay's exit closes the service channel for other reasons too.
THEOREM SilenceStaysExplained == StreamSpec => SilenceIsExplained
<1> DEFINE Explained ==
      \A s \in Streams :
        sent'[s] # sent[s] /\ Last(sent'[s]).kind = "end" /\ ~Delivered(s)
          => Inactive(s) \/ manager.shutdown \/ provider[s].last = "cancelled"
<1>1. StreamTypeOK /\ FaithInv /\ [StreamNext]_streamVars => [Explained]_sent
  <2> SUFFICES ASSUME StreamTypeOK, FaithInv, [StreamNext]_streamVars, sent' # sent
               PROVE  Explained
    OBVIOUS
  <2>1. StreamNext
    BY DEF streamVars
  <2> QED BY <2>1, OnlyPollsSend, SilentPoll
<1> HIDE DEF Explained
<1>2. StreamSpec => [][Explained]_sent
  BY <1>1, FaithHolds, PTL DEF StreamSpec
<1> QED BY <1>2, PTL DEF SilenceIsExplained, Explained
=============================================================================
