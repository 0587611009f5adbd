--------------------------- MODULE StreamDelivery ---------------------------
(***************************************************************************)
(* A streamed answer on its way to a client: the provider publishes into a *)
(* bounded channel (ariadnion-provider-sdk, stream.rs), a relay thread of  *)
(* the dispatcher copies every event into a second bounded channel         *)
(* (ariadnion-provider-dispatch, stream.rs), a blocking task receives from *)
(* it for the response body of the protocol (ariadnion-protocol-openai,    *)
(* ariadnion-api-stream), and the HTTP server polls that body              *)
(* (ariadnion-api-http, public/execution.rs).                              *)
(*                                                                         *)
(* Three tokens stop a stream: the request's, the attempt's (its child,    *)
(* also the provider channel's) and the output's (the service channel's,   *)
(* a token of its own).  A relay that ends badly takes the manager of all  *)
(* relays with it.                                                         *)
(*                                                                         *)
(* A receive looks at its token first and then waits on the channel: these *)
(* are two steps, and the channel may close between them.  The checks of   *)
(* is_active only read flags that are never reset, so is_active and the    *)
(* try_publish after it are one step, as are a handler's consecutive       *)
(* checks.  Sequence numbers are the events' positions; byte limits, frame *)
(* encoding, usage frames and wakers are left out.                         *)
(***************************************************************************)
EXTENDS Integers, Sequences, FiniteSets, SequencesExt

CONSTANTS
  Streams,           \* requests for a streamed answer
  Deltas,            \* deltas a provider publishes before it completes
  ProviderCapacity,  \* capacity of the provider's channel
  ServiceCapacity,   \* SERVICE_STREAM_CAPACITY
  MaxActiveRelays,   \* MAX_ACTIVE_RELAYS
  Worlds             \* what each stream is, in the worlds to be looked at: the
                     \* protocol that projects it, "unread" when its client never
                     \* reads, "unserved" when its provider refuses the call, or
                     \* "absent"

ASSUME StreamAssumption ==
  /\ Deltas \in Nat /\ MaxActiveRelays \in Nat
  /\ Worlds \subseteq [Streams -> {"chat", "responses", "audio", "bridge", "unread", "unserved",
                                  "absent"}]
  /\ ProviderCapacity \in Nat \ {0} /\ ServiceCapacity \in Nat \ {0}

VARIABLES
  format,            \* per stream: the protocol that projects it
  stage,             \* per stream: how far its HTTP handler is
  provider,          \* per stream: where the provider is, what it has published, its fault
  source,            \* per stream: the provider's channel
  relay,             \* per stream: the relay thread, the event it holds, its exit
  target,            \* per stream: the service channel
  body,              \* per stream: the response body, its subscriber, its task
  sent,              \* per stream: what the HTTP server got from the body
  withdrawn,         \* the streams whose request, attempt and output tokens are cancelled
  late,              \* streams whose deadline has passed
  manager            \* RelayManager: latch, shutdown, active count, handles

streamVars == <<format, stage, provider, source, relay, target, body, sent, withdrawn, late,
                manager>>

Event(n, kind) == [seq |-> n, kind |-> kind]
DeltasOf(s) == IF format[s] = "unread" THEN 0 ELSE Deltas
NoEvent == Event(0, "none")
Terminals == {"completed", "filtered", "failed", "cancelled"}

StreamInit ==
  /\ format \in Worlds
  /\ stage = [s \in Streams |-> IF format[s] = "absent" THEN "gone" ELSE "idle"]
  /\ provider = [s \in Streams |-> [at |-> "none", next |-> 1, last |-> "none",
                                    faulty |-> FALSE]]
  /\ source = [s \in Streams |-> <<>>]
  /\ relay = [s \in Streams |-> [at |-> "none", event |-> NoEvent, exit |-> "Healthy"]]
  /\ target = [s \in Streams |-> <<>>]
  /\ body = [s \in Streams |-> [state |-> "AwaitingStart", queue |-> <<>>, task |-> "none",
                                outcome |-> NoEvent, detached |-> FALSE, subscribed |-> TRUE]]
  /\ sent = [s \in Streams |-> <<>>]
  /\ LET absent == {s \in Streams : format[s] = "absent"} IN
     withdrawn = [request |-> absent, attempt |-> absent, output |-> {}]
  /\ late = {}
  /\ manager = [unhealthy |-> FALSE, shutdown |-> FALSE, active |-> 0, handles |-> {}]

----------------------------------------------------------------------------
(* Contexts and tokens *)

\* RequestContext::is_inactive of the request and of the attempt.
Inactive(s) == s \in withdrawn.request \cup late
AttemptInactive(s) == s \in withdrawn.attempt \cup late

\* The attempt's token is the child of the request's.
Cancel(s, tokens) ==
  withdrawn' = [request |-> withdrawn.request \cup {x \in {s} : "request" \in tokens},
                attempt |-> withdrawn.attempt \cup {x \in {s} : {"request", "attempt"} \cap tokens # {}},
                output  |-> withdrawn.output \cup {x \in {s} : "output" \in tokens}]

----------------------------------------------------------------------------
(* RelayManager and the dispatch of a stream *)

\* Mutant: a finished relay keeps its permit until the manager goes.
reap_finished_Late == manager

\* reap_finished: the permits of finished relays are free again; one that ended
\* badly latches the failure and cancels every other relay.
reap_finished ==
  LET finished == {h \in manager.handles : relay[h].at = "exited"}
      bad      == \E h \in finished : relay[h].exit = "Unhealthy" IN
  [manager EXCEPT !.handles = @ \ finished, !.active = @ - Cardinality(finished),
                  !.unhealthy = @ \/ bad, !.shutdown = @ \/ bad]

Relaying(s) == relay[s].at \in {"loop", "wait", "publish"}

\* check_healthy, after the reaping.
Healthy(m) == ~m.unhealthy /\ ~m.shutdown

\* The handler answers with an error; the guard of the request's token is armed.
Refuse(s) == stage' = [stage EXCEPT ![s] = "refused"]
Release(m) == [m EXCEPT !.active = @ - 1]

\* reserve_relay, before there is an attempt.
try_acquire(s) ==
  LET m == reap_finished IN
  /\ stage[s] = "idle"
  /\ IF ~Inactive(s) /\ Healthy(m) /\ m.active < MaxActiveRelays
     THEN /\ stage' = [stage EXCEPT ![s] = "permit"]
          /\ manager' = [m EXCEPT !.active = @ + 1] /\ UNCHANGED withdrawn
     ELSE Refuse(s) /\ Cancel(s, {"request"}) /\ manager' = m
  /\ UNCHANGED <<format, provider, source, relay, target, body, sent, late>>

\* The rest of prepare_attempt and the provider's call: it publishes its first
\* event, of the wrong family perhaps, and goes on in a thread of its own.
call(s) ==
  LET m == reap_finished IN
  /\ stage[s] = "permit"
  /\ \/ /\ ~Inactive(s) /\ Healthy(m) /\ format[s] # "unserved"
        /\ \E kind \in {"started", "wrong"} :
             /\ source' = [source EXCEPT ![s] = <<Event(1, kind)>>]
             /\ provider' = [provider EXCEPT ![s] = [@ EXCEPT !.at = "publish", !.next = 2,
                                                              !.faulty = kind = "wrong"]]
        /\ stage' = [stage EXCEPT ![s] = "called"]
        /\ manager' = m /\ UNCHANGED withdrawn
     \/ \* inactive, unhealthy, or the provider fails
        /\ Refuse(s) /\ Cancel(s, {"request"}) /\ manager' = Release(m)
        /\ UNCHANGED <<provider, source>>
  /\ UNCHANGED <<format, relay, target, body, sent, late>>

\* The handler's future is dropped while the provider is being called.
drop_call(s) ==
  /\ stage[s] = "permit"
  /\ stage' = [stage EXCEPT ![s] = "gone"]
  /\ Cancel(s, {"request"}) /\ manager' = Release(manager)
  /\ UNCHANGED <<format, provider, source, relay, target, body, sent, late>>

\* project_outcome and start: a relay is spawned, or the provider's stream dropped.
start(s) ==
  LET m == reap_finished IN
  /\ stage[s] = "called"
  /\ \/ /\ ~AttemptInactive(s) /\ Healthy(m)
        /\ stage' = [stage EXCEPT ![s] = "started"]
        /\ relay' = [relay EXCEPT ![s].at = "loop"]
        /\ manager' = [m EXCEPT !.handles = @ \cup {s}] /\ UNCHANGED <<source, withdrawn>>
     \/ \* inactive, unhealthy, or the thread cannot be spawned
        /\ Refuse(s) /\ Cancel(s, {"request", "attempt"})
        /\ manager' = Release(IF AttemptInactive(s) THEN manager ELSE m)
        /\ source' = [source EXCEPT ![s] = <<>>] /\ UNCHANGED relay
  /\ UNCHANGED <<format, provider, target, body, sent, late>>

\* stream_dispatch_response and project_stream.
open_body(s) ==
  /\ stage[s] = "started"
  /\ IF Inactive(s)
     THEN /\ Refuse(s) /\ Cancel(s, {"request", "output"})
          /\ body' = [body EXCEPT ![s].subscribed = FALSE]
     ELSE stage' = [stage EXCEPT ![s] = "body"] /\ UNCHANGED <<withdrawn, body>>
  /\ UNCHANGED <<format, provider, source, relay, target, sent, late, manager>>

\* The dispatcher is dropped: every relay is told to stop, and joined.  Nothing
\* depends on it when there is none.
drop_manager ==
  /\ ~manager.shutdown /\ \A s \in Streams : stage[s] \notin {"idle", "permit", "called"}
  /\ \E s \in Streams : Relaying(s)
  /\ manager' = [manager EXCEPT !.shutdown = TRUE]
  /\ UNCHANGED <<format, stage, provider, source, relay, target, body, sent, withdrawn, late>>

----------------------------------------------------------------------------
(* The provider's thread *)

ProviderOpen(s) == provider[s].at \in {"publish", "failing"}
Room(s) == Len(source[s]) < ProviderCapacity
Publishes(s, kind) ==
  source' = [source EXCEPT ![s] = Append(@, Event(provider[s].next, kind))]

\* publish_with_backpressure: the next event, or the way out.  A provider may also
\* fail by itself, with any class of failure.
publish_next(s) ==
  /\ provider[s].at = "publish"
  /\ \/ /\ ~AttemptInactive(s) /\ Room(s)
        /\ \E kind \in IF provider[s].next <= DeltasOf(s) + 1 THEN {"delta"}
                       ELSE {"completed", "filtered"} :
             /\ Publishes(s, kind)
             /\ provider' = [provider EXCEPT ![s].at = IF kind = "delta" THEN "publish" ELSE "over",
                                            ![s].next = @ + 1, ![s].last = kind]
     \/ /\ ~AttemptInactive(s)
        /\ \E class \in {"failed", "cancelled"} :
             provider' = [provider EXCEPT ![s].at = "failing", ![s].last = class]
        /\ UNCHANGED source
     \/ /\ AttemptInactive(s)
        /\ provider' = [provider EXCEPT ![s].at = "failing", ![s].last = "failed"]
        /\ UNCHANGED source
  /\ UNCHANGED <<format, stage, relay, target, body, sent, withdrawn, late, manager>>

\* publish_terminal_failure: when it cannot be published the attempt is cancelled.
\* Either way the publisher is dropped.
publish_terminal_failure(s) ==
  /\ provider[s].at = "failing"
  /\ IF s \in withdrawn.attempt
     THEN /\ Cancel(s, {"attempt"})
          /\ provider' = [provider EXCEPT ![s].at = "over"] /\ UNCHANGED source
     ELSE /\ Room(s) /\ Publishes(s, provider[s].last)
          /\ provider' = [provider EXCEPT ![s].at = "over", ![s].next = @ + 1]
          /\ UNCHANGED withdrawn
  /\ UNCHANGED <<format, stage, relay, target, body, sent, late, manager>>

\* The provider's thread panics: its publisher is dropped without a terminal event.
provider_panics(s) ==
  /\ provider[s].at = "publish"
  /\ provider' = [provider EXCEPT ![s].at = "over", ![s].faulty = TRUE]
  /\ UNCHANGED <<format, stage, source, relay, target, body, sent, withdrawn, late, manager>>

----------------------------------------------------------------------------
(* The relay thread *)

is_active(s) == ~(manager.shutdown \/ s \in withdrawn.output \/ AttemptInactive(s))

\* Mutant: the service channel is created with the provider's token.
Exit_SharedToken(s, exit, stopped) ==
  /\ source' = [source EXCEPT ![s] = <<>>]
  /\ relay' = [relay EXCEPT ![s] = [at |-> "exited", event |-> NoEvent, exit |-> exit]]
  /\ Cancel(s, {"attempt", "output"})

\* run returns: the relay is dropped, and with it the provider's subscriber, which
\* cancels the attempt.  A relay that was stopped has cancelled its output too.
Exit(s, exit, stopped) ==
  /\ source' = [source EXCEPT ![s] = <<>>]
  /\ relay' = [relay EXCEPT ![s] = [at |-> "exited", event |-> NoEvent, exit |-> exit]]
  /\ Cancel(s, IF stopped THEN {"attempt", "output"} ELSE {"attempt"})

\* The head of run's loop, and the look of receive_step at the attempt's token.
relay_loop(s) ==
  /\ relay[s].at = "loop"
  /\ IF is_active(s)
     THEN relay' = [relay EXCEPT ![s].at = "wait"] /\ UNCHANGED <<source, withdrawn>>
     ELSE Exit(s, "Healthy", TRUE)
  /\ UNCHANGED <<format, stage, provider, target, body, sent, late, manager>>

\* project_event: an event of another family than the request's is a failure, and
\* the provider's fault.
project_event(e) ==
  IF e.kind = "wrong" THEN [event |-> Event(e.seq, "failed"), exit |-> "Unhealthy"]
                      ELSE [event |-> e, exit |-> "Healthy"]

\* recv_timeout and process_receive: an event, an event of another family, which is
\* rejected, a closed channel, or nothing.
relay_receive(s) ==
  /\ relay[s].at = "wait"
  /\ \/ /\ source[s] # <<>>
        /\ LET p == project_event(Head(source[s])) IN
           /\ relay' = [relay EXCEPT ![s] = [at |-> "publish", event |-> p.event, exit |-> p.exit]]
           /\ manager' = [manager EXCEPT !.unhealthy = @ \/ p.exit = "Unhealthy"]
        /\ source' = [source EXCEPT ![s] = Tail(@)]
     \/ /\ source[s] = <<>> /\ ~ProviderOpen(s)
        /\ relay' = [relay EXCEPT ![s] = [at |-> "publish", exit |-> "Unhealthy",
                                          event |-> Event(provider[s].next, "failed")]]
        /\ manager' = [manager EXCEPT !.unhealthy = TRUE]
        /\ UNCHANGED source
     \/ /\ source[s] = <<>> /\ ProviderOpen(s)
        /\ relay' = [relay EXCEPT ![s].at = "loop"]
        /\ UNCHANGED <<source, manager>>
  /\ UNCHANGED <<format, stage, provider, target, body, sent, withdrawn, late>>

\* publish_once: a full channel is tried again, a terminal event ends the relay.
publish_once(s) ==
  LET e == relay[s].event IN
  /\ relay[s].at = "publish"
  /\ \/ /\ ~(is_active(s) /\ body[s].subscribed)
        /\ Exit(s, relay[s].exit, ~is_active(s)) /\ UNCHANGED target
     \/ /\ is_active(s) /\ body[s].subscribed /\ Len(target[s]) < ServiceCapacity
        /\ target' = [target EXCEPT ![s] = Append(@, e)]
        /\ IF e.kind \in Terminals THEN Exit(s, relay[s].exit, FALSE)
           ELSE /\ relay' = [relay EXCEPT ![s].at = "loop", ![s].event = NoEvent]
                /\ UNCHANGED <<source, withdrawn>>
  /\ UNCHANGED <<format, stage, provider, body, sent, late, manager>>

----------------------------------------------------------------------------
(* The blocking receive task of a body *)

Running(b) == b.task \in {"check", "wait"}

\* Its result; a task nobody waits for drops the subscriber.
ReceiveEnds(s, e) ==
  body' = [body EXCEPT ![s].task = IF body[s].detached THEN "none" ELSE "done",
                       ![s].subscribed = ~body[s].detached,
                       ![s].outcome = IF body[s].detached THEN NoEvent ELSE e]

\* receive_until_ready, before it waits: the request's context and the channel's
\* token.  The bridge has no context to look at.
receive_check(s) ==
  /\ body[s].task = "check"
  /\ IF (format[s] # "bridge" /\ Inactive(s)) \/ s \in withdrawn.output
     THEN ReceiveEnds(s, Event(0, "stopped"))
     ELSE body' = [body EXCEPT ![s].task = "wait"]
  /\ UNCHANGED <<format, stage, provider, source, relay, target, sent, withdrawn, late, manager>>

\* recv_timeout: an event, a closed channel, or another round; a round of the bridge
\* may be its last, for a heartbeat.
receive_wait(s) ==
  /\ body[s].task = "wait"
  /\ \/ /\ target[s] # <<>>
        /\ ReceiveEnds(s, Head(target[s])) /\ target' = [target EXCEPT ![s] = Tail(@)]
     \/ /\ target[s] = <<>> /\ relay[s].at = "exited"
        /\ ReceiveEnds(s, Event(0, "closed")) /\ UNCHANGED target
     \/ /\ target[s] = <<>> /\ relay[s].at # "exited"
        /\ \/ body' = [body EXCEPT ![s].task = "check"]
           \/ format[s] = "bridge" /\ ReceiveEnds(s, Event(0, "heartbeat"))
        /\ UNCHANGED target
  /\ UNCHANGED <<format, stage, provider, source, relay, sent, withdrawn, late, manager>>

----------------------------------------------------------------------------
(* The response body, polled by the HTTP server *)

Frame(n, kind) == [seq |-> n, kind |-> kind]
Frames(kinds) == [i \in DOMAIN kinds |-> Frame(0, kinds[i])]

\* What a started and a completed answer look like in each protocol.
StartFrames(f) ==
  CASE f = "responses" -> Frames(<<"created", "in_progress", "item_added", "part_added">>)
    [] f \in {"chat", "bridge"} -> Frames(<<"start">>)
    [] OTHER -> <<>>
FinishFrames(f) ==
  CASE f = "responses" -> Frames(<<"text_done", "part_done", "item_done", "finish">>)
    [] f = "chat" -> Frames(<<"choice_done", "finish">>)
    [] f = "bridge" -> Frames(<<"finish">>)
    [] OTHER -> <<>>

\* Nothing is to follow these: the end of the body, or an error in its place.
Closers == {"end", "abort"}
Finished(s) == sent[s] # <<>> /\ Last(sent[s]).kind \in Closers

\* close: the subscriber goes with the body or with the task that has it.  The
\* frames ResponseStream has queued stay where they are.
Closing(f, b) ==
  [b EXCEPT !.state = "Closed", !.queue = IF f = "responses" THEN @ ELSE <<>>,
            !.task = IF Running(b) THEN @ ELSE "none", !.outcome = NoEvent,
            !.subscribed = Running(b), !.detached = Running(b)]

Emits(s, b, frames, tokens) ==
  /\ body' = [body EXCEPT ![s] = b]
  /\ sent' = [sent EXCEPT ![s] = @ \o frames]
  /\ Cancel(s, tokens)

\* Mutant: the end of a body leaves the request's token alone.
FinishTokens_ChannelOnly == {"output"}

\* HttpBodyLifecycleStream::finish.
FinishTokens == {"request", "output"}

\* The body ends, or fails: the first time, finish cancels the request and the channel.
Ends(s, b, kind) ==
  Emits(s, Closing(format[s], b), IF Finished(s) THEN <<>> ELSE Frames(<<kind>>), FinishTokens)

\* The bridge reports an error in a frame of its own.
Fails(s, b) ==
  IF format[s] = "bridge"
  THEN Emits(s, [b EXCEPT !.state = "Terminal"], Frames(<<"error">>), {})
  ELSE Ends(s, b, "abort")

\* A started answer; AudioBodyStream has nothing to say and receives again.
handle_started(s, b) ==
  IF format[s] = "audio"
  THEN Emits(s, [b EXCEPT !.state = "Open", !.task = "check"], <<>>, {})
  ELSE Emits(s, [b EXCEPT !.state = "Open", !.queue = Tail(StartFrames(format[s]))],
             <<Head(StartFrames(format[s]))>>, {})

\* A completed answer: the subscriber is dropped (by the bridge only with the next
\* poll) and the rest of the frames queued.  ResponseStream has no frame for a
\* filtered one, and finds out after it has queued the others.
handle_completed(s, b, kind) ==
  LET f == format[s]
      all == FinishFrames(f) IN
  CASE f = "audio" -> Ends(s, b, "end")
    [] f = "responses" /\ kind = "filtered" ->
         Ends(s, [b EXCEPT !.queue = SubSeq(all, 1, 3)], "abort")
    [] OTHER ->
         Emits(s, [b EXCEPT !.state = "Terminal", !.queue = Tail(all), !.subscribed = f = "bridge"],
               <<Head(all)>>, IF f = "chat" THEN {"output"} ELSE {})

\* handle_receive, with the subscriber back in the body.
handle_receive(s) ==
  LET e == body[s].outcome
      b == [body[s] EXCEPT !.task = "none", !.outcome = NoEvent] IN
  CASE e.kind = "stopped" -> Ends(s, b, "end")
    [] e.kind = "heartbeat" -> Emits(s, b, <<>>, {})
    [] e.kind = "cancelled" /\ format[s] # "bridge" -> Ends(s, b, "end")
    [] e.kind = "started" /\ b.state = "AwaitingStart" -> handle_started(s, b)
    [] e.kind = "delta" /\ b.state = "Open" -> Emits(s, b, <<Frame(e.seq, "delta")>>, {})
    [] e.kind \in {"completed", "filtered"} /\ b.state = "Open" -> handle_completed(s, b, e.kind)
    [] OTHER -> Fails(s, b)

\* poll_next of the body, inside HttpBodyLifecycleStream's.  It may be polled again
\* after its end.
poll_next(s) ==
  LET f == format[s]
      b == body[s]
      active == f = "bridge" \/ ~Inactive(s)
      closed == b.state \in {"Terminal", "Closed"} IN
  /\ stage[s] = "body" /\ f # "unread"
  /\ \/ ~active /\ Ends(s, b, "end")
     \/ /\ active /\ b.queue # <<>>
        /\ LET rest == [b EXCEPT !.queue = Tail(@)] IN
           Emits(s, IF f = "responses" /\ rest.queue = <<>> /\ closed THEN Closing(f, rest) ELSE rest,
                 <<Head(b.queue)>>,
                 IF f = "responses" /\ rest.queue = <<>> /\ closed THEN {"output"} ELSE {})
     \/ active /\ b.queue = <<>> /\ closed /\ Ends(s, b, "end")
     \/ /\ active /\ b.queue = <<>> /\ ~closed /\ b.task = "none"
        /\ Emits(s, [b EXCEPT !.task = "check"], <<>>, {})
     \/ active /\ b.queue = <<>> /\ ~closed /\ b.task = "done" /\ handle_receive(s)
  /\ UNCHANGED <<format, stage, provider, source, relay, target, late, manager>>

\* The client goes away: the body is dropped.
drop_body(s) ==
  /\ stage[s] = "body"
  /\ stage' = [stage EXCEPT ![s] = "gone"]
  /\ body' = [body EXCEPT ![s] = Closing(format[s], [@ EXCEPT !.queue = <<>>])]
  /\ Cancel(s, FinishTokens)
  /\ UNCHANGED <<format, provider, source, relay, target, sent, late, manager>>

----------------------------------------------------------------------------
(* The environment *)

\* The deadline of a request passes; after its cancellation nothing depends on it.
deadline_passes(s) ==
  /\ s \notin withdrawn.request \cup late /\ stage[s] # "idle" /\ late' = late \cup {s}
  /\ UNCHANGED <<format, stage, provider, source, relay, target, body, sent, withdrawn, manager>>

\* The HTTP runtime shuts down: the parent of every request's token is cancelled.
http_shutdown ==
  /\ withdrawn.request # Streams
  /\ withdrawn' = [withdrawn EXCEPT !.request = Streams, !.attempt = Streams]
  /\ UNCHANGED <<format, stage, provider, source, relay, target, body, sent, late, manager>>

ProviderStep(s) == publish_next(s) \/ publish_terminal_failure(s)
RelayStep(s) == relay_loop(s) \/ relay_receive(s) \/ publish_once(s)
HandlerStep(s) == call(s) \/ start(s) \/ open_body(s)
TaskStep(s) == receive_check(s) \/ receive_wait(s)

StreamNext ==
  \/ \E s \in Streams :
       \/ try_acquire(s) \/ HandlerStep(s) \/ drop_call(s)
       \/ ProviderStep(s) \/ provider_panics(s)
       \/ RelayStep(s) \/ TaskStep(s) \/ poll_next(s) \/ drop_body(s)
       \/ deadline_passes(s)
  \/ drop_manager \/ http_shutdown

StreamSpec == StreamInit /\ [][StreamNext]_streamVars

----------------------------------------------------------------------------
(* Properties *)

SentKinds(s) == {sent[s][i].kind : i \in DOMAIN sent[s]}
Completed(s) == provider[s].last \in {"completed", "filtered"}

\* Every delta of the answer has been sent, right behind the frames of its start.
AllSent(s) ==
  LET heads == Len(StartFrames(format[s])) IN
  {i \in DOMAIN sent[s] : sent[s][i].kind = "delta"} = heads + 1 .. heads + DeltasOf(s)

Delivered(s) ==
  IF format[s] = "audio" THEN Completed(s) /\ AllSent(s)
  ELSE SentKinds(s) \cap {"finish", "error"} # {}

\* What reaches the client is what the provider published, in order and without a
\* gap, behind the frames of a started answer; an answer is said to be finished
\* only when the provider has completed it and all of it has been sent; and once
\* the body has ended or failed, nothing comes after, however often it is polled.
StreamsAreFaithful ==
  \A s \in Streams : \A i \in DOMAIN sent[s] :
    LET heads == StartFrames(format[s])
        frame == sent[s][i] IN
    /\ frame.kind = "delta" =>
         /\ IsPrefix(heads, sent[s]) /\ i > Len(heads)
         /\ frame.seq = i - Len(heads) + 1 /\ frame.seq < provider[s].next
    /\ frame.kind \in Closers => i = Len(sent[s])
    /\ frame.kind = "finish" => Completed(s) /\ AllSent(s)

\* The body of an answer that was neither sent to its end nor reported as failed
\* ends without a word only because the client, the deadline, the shutdown of the
\* HTTP runtime or of the relays, or the provider itself called it off.
SilenceIsExplained ==
  [][\A s \in Streams :
       sent'[s] # sent[s] /\ Last(sent'[s]).kind = "end" /\ ~Delivered(s)
         => Inactive(s) \/ manager.shutdown \/ provider[s].last = "cancelled"]_sent

\* What takes a relay permit: a dispatch before its relay is registered, and a relay
\* whose thread has not ended.
Admitted == {s \in Streams : stage[s] \in {"permit", "called"}}
              \cup {s \in Streams : Relaying(s)}

\* The relay budget is exact: there are never more relays than permits, none runs
\* unregistered, the counter is the number of holders, and a request that is turned
\* away although its context is active and the dispatcher healthy found every permit
\* in use by a relay that was still running ("Each instance admits at most 64
\* concurrent blocking relays", dispatch.rs:81).
RelayAdmissionIsExact ==
  [][/\ Cardinality(Admitted') <= MaxActiveRelays
     /\ \A s \in Streams : Relaying(s)' => s \in manager'.handles
     /\ manager'.active = Cardinality({s \in Streams : stage'[s] \in {"permit", "called"}})
                            + Cardinality(manager'.handles)
     /\ \A s \in Streams :
          stage[s] = "idle" /\ stage'[s] = "refused" /\ ~Inactive(s) /\ Healthy(manager')
            => Cardinality(Admitted) >= MaxActiveRelays]_<<stage, relay, manager>>

\* Every relay, every provider's thread and every receive task comes to an end, even
\* if the client neither reads nor goes away and nothing fails: the deadline passes.
StreamsEnd ==
  <>[](\A s \in Streams : ~Relaying(s) /\ ~ProviderOpen(s) /\ ~Running(body[s]))

\* The admission latch says that a provider broke the stream protocol: it sent an
\* event of another family, or closed its channel without a terminal event.
LatchMeansProtocolFailure ==
  manager.unhealthy => \E s \in Streams : provider[s].faulty
=============================================================================
