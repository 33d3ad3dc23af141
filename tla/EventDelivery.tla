---------------------------- MODULE EventDelivery ----------------------------
(***************************************************************************)
(* Events and answers between the ingestor and the runtime of one function.*)
(*                                                                         *)
(* A request is asynchronous (POST, answered with 202 at once), an event   *)
(* stream (SSE) or a websocket (WS).  The ingestor publishes its events on *)
(* a NATS subject, the runtime's consumer executes them and publishes each *)
(* answer on the subject of the request, and a subscription callback hands *)
(* the answers through a bounded channel to the handler, which writes them *)
(* to the client.  Core NATS delivers in order, and only to those who are  *)
(* subscribed at that moment.                                              *)
(*                                                                         *)
(* An event is named by its request and its number, an answer by the event *)
(* and its number; request ids are taken to be distinct.                   *)
(***************************************************************************)
EXTENDS Naturals, Sequences

CONSTANTS
    Requests,    \* the HTTP requests of the model
    Kind,        \* of each request: "async", "sse" or "ws"
    Language,    \* spec.language of the function
    Serial,      \* the runtime executes one event at a time (not so in Go)
    MaxEvents,   \* events a client sends on one websocket
    MaxAnswers,  \* answers the function gives to one event
    ChanCap,     \* capacity of the channel of answers (32 in the code)
    BufCap       \* answers that fit in the response buffer of net/http

ASSUME KindAssumption == Kind \in [Requests -> {"async", "sse", "ws"}]
ASSUME BoundsAssumption == /\ MaxEvents \in Nat \ {0} /\ MaxAnswers \in Nat \ {0}
                           /\ ChanCap \in Nat \ {0} /\ BufCap \in Nat \ {0}
ASSUME SerialAssumption == Serial \in BOOLEAN

(* The token the runtime of each language listens on; the ingestor uses the *)
(* name of the language itself.                                             *)
ConsumerToken ==
    CASE Language = "python" -> "py"
      [] Language = "rust" -> "go"
      [] OTHER -> Language

VARIABLES
    handler,    \* where the handler of each request is
    conn,       \* the connection to the client, and who ended it
    reader,     \* the websocket requests whose read goroutine runs
    published,  \* how many events of each request were published
    runtime,    \* down, starting or up
    inbox,      \* events pending at the runtime's consumer
    running,    \* events in execution, with the number of the next answer
    executed,   \* events whose execution has begun
    sub,        \* the subscription for answers: none, open or closed
    pending,    \* answers pending at that subscription
    callback,   \* the answer its callback is working on, if any
    channel,    \* the buffered channel
    held,       \* the answer the handler is writing, if any
    buffer,     \* answers in the response buffer
    received,   \* answers the client has
    crashed     \* the ingestor's process has died

answerVars == <<sub, pending, callback, channel, held, buffer, received>>
requestVars == <<handler, conn, reader, published>>
runtimeVars == <<runtime, inbox, running, executed>>
vars == <<requestVars, runtimeVars, answerVars, crashed>>

HandlerSteps == {"activate", "submit", "subscribe", "loop", "write",
                 "unsubscribe", "close", "done"}
(* A connection ends when its client leaves (gone), when the read goroutine *)
(* closes it over an event that NATS refused, or when the handler closes it. *)
ConnStates == {"open", "gone", "refused", "closed"}
Events == [req: Requests, event: 1..MaxEvents]
Answers == [event: 1..MaxEvents, n: 1..MaxAnswers]

AtMostOne(S) == {<<>>} \cup {<<x>> : x \in S}

TypeOK ==
    /\ handler \in [Requests -> HandlerSteps]
    /\ conn \in [Requests -> ConnStates]
    /\ reader \subseteq Requests
    /\ published \in [Requests -> 0..MaxEvents]
    /\ runtime \in {"down", "starting", "up"}
    /\ inbox \in Seq(Events)
    /\ running \subseteq [req: Requests, event: 1..MaxEvents, next: 1..MaxAnswers + 1]
    /\ executed \subseteq Events
    /\ sub \in [Requests -> {"none", "open", "closed"}]
    /\ pending \in [Requests -> Seq(Answers)]
    /\ callback \in [Requests -> AtMostOne(Answers)]
    /\ channel \in [Requests -> Seq(Answers)]
    /\ \A r \in Requests : Len(channel[r]) <= ChanCap
    /\ held \in [Requests -> AtMostOne(Answers)]
    /\ buffer \in [Requests -> Seq(Answers)]
    /\ received \in [Requests -> Seq(Answers)]
    /\ crashed \in BOOLEAN

Init ==
    /\ handler = [r \in Requests |-> "activate"]
    /\ conn = [r \in Requests |-> "open"]
    /\ reader = {}
    /\ published = [r \in Requests |-> 0]
    /\ runtime \in {"down", "up"}
    /\ inbox = <<>>
    /\ running = {}
    /\ executed = {}
    /\ sub = [r \in Requests |-> "none"]
    /\ pending = [r \in Requests |-> <<>>]
    /\ callback = pending
    /\ channel = pending
    /\ held = pending
    /\ buffer = pending
    /\ received = pending
    /\ crashed = FALSE

------------------------------------------------------------------------------
(* Ingestor: the handlers Sync (of an asynchronous function), SSE and WS. *)

Goto(r, step) == handler' = [handler EXCEPT ![r] = step]

(* NATS hands an event to the runtime's consumer, if there is one.          *)
Publish(r) ==
    LET e == [req |-> r, event |-> published[r] + 1] IN
    /\ published' = [published EXCEPT ![r] = @ + 1]
    /\ inbox' = IF runtime = "up" /\ ConsumerToken = Language
                THEN Append(inbox, e) ELSE inbox

(* The operator has answered the activation.  It does not wait for the     *)
(* runtime.  Produce upgrades a websocket and starts its read goroutine.   *)
Activated(r) ==
    /\ handler[r] = "activate"
    /\ IF Kind[r] = "ws"
       THEN Goto(r, "subscribe") /\ reader' = reader \cup {r}
       ELSE Goto(r, "submit") /\ UNCHANGED reader
    /\ UNCHANGED <<conn, published, runtimeVars, answerVars, crashed>>

(* Activation failed, or the method is not the function's. *)
Rejected(r) ==
    /\ handler[r] = "activate"
    /\ Goto(r, "done")
    /\ UNCHANGED <<conn, reader, published, runtimeVars, answerVars, crashed>>

Submit(r) ==
    /\ handler[r] = "submit"
    /\ Publish(r)
    /\ Goto(r, IF Kind[r] = "async" THEN "done" ELSE "subscribe")
    /\ UNCHANGED <<conn, reader, runtime, running, executed, answerVars, crashed>>

(* NATS refuses the event: the client is told, and the request ends. *)
SubmitFails(r) ==
    /\ handler[r] = "submit"
    /\ Goto(r, "done")
    /\ UNCHANGED <<conn, reader, published, runtimeVars, answerVars, crashed>>

(* The read goroutine of a websocket publishes what the client sends,      *)
(* whether or not the handler has subscribed yet.                          *)
Produce(r) ==
    /\ r \in reader
    /\ conn[r] = "open"
    /\ published[r] < MaxEvents
    /\ Publish(r)
    /\ UNCHANGED <<handler, conn, reader, runtime, running, executed, answerVars, crashed>>

(* NATS refuses what the client sent: the read goroutine returns, which     *)
(* closes the connection under the handler and a client that is still there. *)
ProduceFails(r) ==
    /\ r \in reader
    /\ conn[r] = "open"
    /\ published[r] < MaxEvents
    /\ reader' = reader \ {r}
    /\ conn' = [conn EXCEPT ![r] = "refused"]
    /\ UNCHANGED <<handler, published, runtimeVars, answerVars, crashed>>

(* Reading fails on a connection that has ended. *)
ReaderEnds(r) ==
    /\ r \in reader
    /\ conn[r] # "open"
    /\ reader' = reader \ {r}
    /\ UNCHANGED <<handler, conn, published, runtimeVars, answerVars, crashed>>

Subscribe(r) ==
    /\ handler[r] = "subscribe"
    /\ sub' = [sub EXCEPT ![r] = "open"]
    /\ Goto(r, "loop")
    /\ UNCHANGED <<conn, reader, published, runtimeVars, pending, callback, channel, held,
                   buffer, received, crashed>>

(* NATS refuses the subscription.  The handler of a websocket closes the    *)
(* connection when it returns.                                              *)
SubscribeFails(r) ==
    /\ handler[r] = "subscribe"
    /\ Goto(r, "done")
    /\ conn' = IF Kind[r] = "ws" /\ conn[r] = "open"
               THEN [conn EXCEPT ![r] = "closed"] ELSE conn
    /\ UNCHANGED <<reader, published, runtimeVars, answerVars, crashed>>

Take(r) ==
    /\ handler[r] = "loop"
    /\ channel[r] # <<>>
    /\ held' = [held EXCEPT ![r] = <<Head(channel[r])>>]
    /\ channel' = [channel EXCEPT ![r] = Tail(@)]
    /\ Goto(r, "write")
    /\ UNCHANGED <<conn, reader, published, runtimeVars, sub, pending, callback, buffer,
                   received, crashed>>

(* An event stream is written without a Flush: answers stay in the buffer  *)
(* until it is full.  Errors are ignored.                                  *)
WriteStream(r) ==
    LET filled == buffer[r] \o held[r] IN
    /\ handler[r] = "write"
    /\ Kind[r] = "sse"
    /\ IF Len(filled) < BufCap
       THEN buffer' = [buffer EXCEPT ![r] = filled] /\ UNCHANGED received
       ELSE /\ buffer' = [buffer EXCEPT ![r] = <<>>]
            /\ received' = IF conn[r] = "open"
                           THEN [received EXCEPT ![r] = @ \o filled] ELSE received
    /\ held' = [held EXCEPT ![r] = <<>>]
    /\ Goto(r, "loop")
    /\ UNCHANGED <<conn, reader, published, runtimeVars, sub, pending, callback, channel,
                   crashed>>

(* A websocket write to a client that has gone is lost, with an error or    *)
(* without, and fails once the read goroutine has closed the connection.    *)
WriteSocket(r) ==
    /\ handler[r] = "write"
    /\ Kind[r] = "ws"
    /\ received' = IF conn[r] = "open"
                   THEN [received EXCEPT ![r] = @ \o held[r]] ELSE received
    /\ held' = [held EXCEPT ![r] = <<>>]
    /\ \/ r \in reader /\ Goto(r, "loop")
       \/ conn[r] # "open" /\ Goto(r, "unsubscribe")
    /\ UNCHANGED <<conn, reader, published, runtimeVars, sub, pending, callback, channel,
                   buffer, crashed>>

(* Variant: only a websocket's loop watches the request's context. *)
ContextIgnored(r) ==
    /\ handler[r] = "loop"
    /\ Kind[r] = "ws"
    /\ conn[r] = "gone"
    /\ Goto(r, "unsubscribe")
    /\ UNCHANGED <<conn, reader, published, runtimeVars, answerVars, crashed>>

(* The context of an event stream ends with its connection.  That of a     *)
(* hijacked connection does not.                                           *)
ContextDone(r) ==
    /\ handler[r] = "loop"
    /\ Kind[r] = "sse"
    /\ conn[r] = "gone"
    /\ Goto(r, "unsubscribe")
    /\ UNCHANGED <<conn, reader, published, runtimeVars, answerVars, crashed>>

(* cleanup: first Unsubscribe, then close the channel. *)
Unsubscribe(r) ==
    /\ handler[r] = "unsubscribe"
    /\ sub' = [sub EXCEPT ![r] = "closed"]
    /\ pending' = [pending EXCEPT ![r] = <<>>]
    /\ Goto(r, "close")
    /\ UNCHANGED <<conn, reader, published, runtimeVars, callback, channel, held, buffer,
                   received, crashed>>

CloseChannel(r) ==
    /\ handler[r] = "close"
    /\ channel' = [channel EXCEPT ![r] = <<>>]
    /\ Goto(r, "done")
    /\ UNCHANGED <<conn, reader, published, runtimeVars, sub, pending, callback, held, buffer,
                   received, crashed>>

(* The subscription's goroutine takes the next answer... *)
Dispatch(r) ==
    /\ sub[r] = "open"
    /\ callback[r] = <<>>
    /\ pending[r] # <<>>
    /\ callback' = [callback EXCEPT ![r] = <<Head(pending[r])>>]
    /\ pending' = [pending EXCEPT ![r] = Tail(@)]
    /\ UNCHANGED <<requestVars, runtimeVars, sub, channel, held, buffer, received, crashed>>

(* Variant: the channel is not buffered. *)
DeliverUnbuffered(r) ==
    /\ callback[r] # <<>>
    /\ callback' = [callback EXCEPT ![r] = <<>>]
    /\ channel' = IF handler[r] = "loop" /\ channel[r] = <<>>
                  THEN [channel EXCEPT ![r] = callback[r]] ELSE channel
    /\ UNCHANGED <<requestVars, runtimeVars, sub, pending, held, buffer, received, crashed>>

(* Variant: one answer more than the channel has room for. *)
DeliverOneMore(r) ==
    /\ callback[r] # <<>>
    /\ callback' = [callback EXCEPT ![r] = <<>>]
    /\ channel' = IF Len(channel[r]) <= ChanCap
                  THEN [channel EXCEPT ![r] = @ \o callback[r]] ELSE channel
    /\ UNCHANGED <<requestVars, runtimeVars, sub, pending, held, buffer, received, crashed>>

(* Variant: the callback waits for room. *)
DeliverBlocking(r) ==
    /\ callback[r] # <<>>
    /\ Len(channel[r]) < ChanCap
    /\ callback' = [callback EXCEPT ![r] = <<>>]
    /\ channel' = [channel EXCEPT ![r] = @ \o callback[r]]
    /\ UNCHANGED <<requestVars, runtimeVars, sub, pending, held, buffer, received, crashed>>

(* ... and its callback sends it or, if the channel is full, drops it.  To *)
(* send on a closed channel panics.                                        *)
Deliver(r) ==
    /\ callback[r] # <<>>
    /\ callback' = [callback EXCEPT ![r] = <<>>]
    /\ \/ /\ handler[r] = "done"
          /\ crashed' = TRUE
          /\ UNCHANGED channel
       \/ /\ handler[r] # "done"
          /\ channel' = IF Len(channel[r]) < ChanCap
                        THEN [channel EXCEPT ![r] = @ \o callback[r]] ELSE channel
          /\ UNCHANGED crashed
    /\ UNCHANGED <<requestVars, runtimeVars, sub, pending, held, buffer, received>>

------------------------------------------------------------------------------
(* The runtime, and its coming and going with the deployment. *)

Boot ==
    /\ runtime = "down"
    /\ runtime' = "starting"
    /\ UNCHANGED <<inbox, running, executed, requestVars, answerVars, crashed>>

(* The repository is synced; only now the consumer subscribes. *)
Listen ==
    /\ runtime = "starting"
    /\ runtime' = "up"
    /\ UNCHANGED <<inbox, running, executed, requestVars, answerVars, crashed>>

Stop ==
    /\ runtime # "down"
    /\ runtime' = "down"
    /\ inbox' = <<>>
    /\ running' = {}
    /\ UNCHANGED <<executed, requestVars, answerVars, crashed>>

(* Variant: the consumer does not wait for an event to end. *)
StartEventUnawaited ==
    /\ inbox # <<>>
    /\ LET e == Head(inbox) IN
          /\ running' = running \cup {[req |-> e.req, event |-> e.event, next |-> 1]}
          /\ executed' = executed \cup {e}
    /\ inbox' = Tail(inbox)
    /\ UNCHANGED <<runtime, requestVars, answerVars, crashed>>

(* The consumer takes the next event. *)
StartEvent ==
    /\ inbox # <<>>
    /\ Serial => running = {}
    /\ LET e == Head(inbox) IN
          /\ running' = running \cup {[req |-> e.req, event |-> e.event, next |-> 1]}
          /\ executed' = executed \cup {e}
    /\ inbox' = Tail(inbox)
    /\ UNCHANGED <<runtime, requestVars, answerVars, crashed>>

(* NATS hands an answer to the subscription, if there is one. *)
Answer(x) ==
    /\ x.next <= MaxAnswers
    /\ running' = (running \ {x}) \cup {[x EXCEPT !.next = @ + 1]}
    /\ pending' = IF sub[x.req] = "open" /\ ~crashed
                  THEN [pending EXCEPT ![x.req] =
                           Append(@, [event |-> x.event, n |-> x.next])]
                  ELSE pending
    /\ UNCHANGED <<runtime, inbox, executed, requestVars, sub, callback, channel, held, buffer,
                   received, crashed>>

(* The function returns, throws, or its stream ends. *)
EndEvent(x) ==
    /\ running' = running \ {x}
    /\ UNCHANGED <<runtime, inbox, executed, requestVars, answerVars, crashed>>

Disconnect(r) ==
    /\ conn[r] = "open"
    /\ conn' = [conn EXCEPT ![r] = "gone"]
    /\ UNCHANGED <<handler, reader, published, runtimeVars, answerVars, crashed>>

------------------------------------------------------------------------------

HandlerStep(r) ==
    \/ Activated(r) \/ Rejected(r)
    \/ Submit(r) \/ SubmitFails(r) \/ Subscribe(r) \/ SubscribeFails(r)
    \/ Take(r) \/ WriteStream(r) \/ WriteSocket(r)
    \/ ContextDone(r) \/ Unsubscribe(r) \/ CloseChannel(r)

ConsumerStep ==
    \/ StartEvent
    \/ \E x \in running : Answer(x) \/ EndEvent(x)

Next ==
    \/ /\ ~crashed
       /\ \E r \in Requests :
             \/ HandlerStep(r)
             \/ Produce(r) \/ ProduceFails(r) \/ ReaderEnds(r)
             \/ Dispatch(r) \/ Deliver(r)
    \/ ConsumerStep
    \/ Boot \/ Listen \/ Stop
    \/ \E r \in Requests : Disconnect(r)

Spec == Init /\ [][Next]_vars

(* The goroutines of the ingestor are scheduled, and the activation call    *)
(* times out; but a client may be slow to read, so a write need not end     *)
(* while the connection is open.  Nothing is assumed of the runtime.        *)
Fairness ==
    \A r \in Requests :
       /\ WF_vars(~crashed /\ HandlerStep(r) /\ (handler[r] = "write" => conn[r] # "open"))
       /\ WF_vars(~crashed /\ Deliver(r))

FairSpec == Spec /\ Fairness

------------------------------------------------------------------------------
(* The answers on their way to the client of r, the oldest first. *)
Pipeline(r) ==
    received[r] \o buffer[r] \o held[r] \o channel[r] \o callback[r] \o pending[r]

InPipeline(r) == {Pipeline(r)[i] : i \in 1..Len(Pipeline(r))}

(* The answers to one event reach the client in the order the function gave *)
(* them, each at most once, through two buffers, a callback and a handler;  *)
(* and if the runtime is serial so do the answers to successive events.     *)
AnswersInOrder ==
    \A r \in Requests : LET p == Pipeline(r) IN
        \A j \in 1..Len(p) : \A i \in 1..(j - 1) :
            \/ p[i].event = p[j].event /\ p[i].n < p[j].n
            \/ p[i].event < p[j].event
            \/ p[i].event > p[j].event /\ ~Serial

(* Once it is subscribed, a request loses an answer only because the        *)
(* channel is full, because its client has gone, or because NATS refused an *)
(* event of its websocket: then the read goroutine closes the connection    *)
(* (request.go:60-65), and what was on its way is lost on a client that is  *)
(* still there.                                                             *)
NoSilentLoss ==
    [][\A r \in Requests :
          ~(InPipeline(r) \subseteq InPipeline(r)') =>
             Len(channel[r]) = ChanCap \/ conn[r] \in {"gone", "refused"}]_vars

(* An event stream whose client has gone is cleaned up, however many        *)
(* answers are still coming.                                                *)
StreamHandlerEnds ==
    \A r \in {q \in Requests : Kind[q] = "sse"} :
        conn[r] = "gone" ~> (handler[r] = "done" \/ crashed)

(* The goroutine of a subscription is never held up by a slow client.       *)
CallbackNeverBlocks ==
    \A r \in Requests : callback[r] # <<>> ~> (callback[r] = <<>> \/ crashed)
==============================================================================
