-------------------------- MODULE EventDelivery_proofs --------------------------
(***************************************************************************)
(* Proofs about EventDelivery, for any requests, any capacities of the     *)
(* channel and the response buffer and any number of events and answers:   *)
(* types, that answers stay in order on their way to the client, and that  *)
(* only a full channel, a client that has gone or an event that NATS       *)
(* refused costs an answer.                                                *)
(***************************************************************************)
EXTENDS EventDelivery, SequenceTheorems, TLAPS

USE KindAssumption, BoundsAssumption, SerialAssumption

(* Answers may be lost on it: its client has gone, or NATS refused an event. *)
Lossy(r) == conn[r] \in {"gone", "refused"}

(* What is known of a request by where its handler is. *)
Stage(r) ==
    /\ handler[r] \in {"activate", "submit"} => published[r] = 0 /\ r \notin reader
    /\ handler[r] = "submit" => Kind[r] # "ws"
    /\ handler[r] \in {"activate", "submit", "subscribe"} => sub[r] = "none"
    /\ sub[r] = "none" => pending[r] = <<>> /\ callback[r] = <<>>
    /\ held[r] # <<>> => handler[r] = "write"
    /\ Kind[r] = "ws" => buffer[r] = <<>>
    /\ Kind[r] = "ws" /\ handler[r] \in {"subscribe", "loop", "write"} =>
          r \in reader \/ Lossy(r)
    /\ conn[r] = "closed" => handler[r] = "done"
    /\ handler[r] \in {"unsubscribe", "close"} => Lossy(r)
    /\ handler[r] = "done" => sub[r] = "none" \/ Lossy(r)
Stages == \A r \in Requests : Stage(r)

(* Events are consumed in the order of their publication, each once. *)
EventsInOrder ==
    /\ \A j \in 1..Len(inbox) :
          /\ inbox[j].event <= published[inbox[j].req]
          /\ \A i \in 1..(j - 1) : inbox[i].req = inbox[j].req => inbox[i].event < inbox[j].event
          /\ \A e \in executed : e.req = inbox[j].req => e.event < inbox[j].event
    /\ \A e \in executed : e.event <= published[e.req]

(* An event in execution is in it once and, if the runtime is serial, alone *)
(* and the last of its request.                                             *)
EventsRunOnce ==
    \A x \in running :
       /\ [req |-> x.req, event |-> x.event] \in executed
       /\ \A y \in running : (y.req = x.req /\ y.event = x.event) \/ Serial => y = x
       /\ Serial => \A e \in executed : e.req = x.req => e.event <= x.event

(* The answers on their way were given by events so far. *)
AnswersWereGiven ==
    \A r \in Requests : \A a \in InPipeline(r) :
       /\ [req |-> r, event |-> a.event] \in executed
       /\ \A x \in running : x.req = r /\ x.event = a.event => a.n < x.next

IInv == /\ TypeOK /\ Stages /\ EventsInOrder /\ EventsRunOnce
        /\ AnswersWereGiven /\ AnswersInOrder

------------------------------------------------------------------------------
(* Lemmas about sequences of answers *)

(* An answer may be before another on the way. *)
Before(a, b) ==
    \/ a.event = b.event /\ a.n < b.n
    \/ a.event < b.event
    \/ a.event > b.event /\ ~Serial
InOrder(s) == \A j \in 1..Len(s) : \A i \in 1..(j - 1) : Before(s[i], s[j])
Elements(s) == {s[i] : i \in 1..Len(s)}

(* A part of a sequence may get lost. *)
Loses(p, q) == \E s, t, u \in Seq(Answers) : p = (s \o t) \o u /\ q = s \o u

(* What is left is in order, and of what was there. *)
LEMMA LosesKeepsOrder ==
    ASSUME NEW p, NEW q, Loses(p, q)
    PROVE  /\ InOrder(p) => InOrder(q)
           /\ Elements(q) \subseteq Elements(p)
<1>1. PICK s \in Seq(Answers), t \in Seq(Answers), u \in Seq(Answers) :
         p = (s \o t) \o u /\ q = s \o u
  BY DEF Loses
<1>2. /\ Len(s) \in Nat /\ Len(t) \in Nat /\ Len(u) \in Nat
      /\ Len(q) = Len(s) + Len(u) /\ Len(p) = Len(s) + Len(t) + Len(u)
  BY <1>1, LenProperties, ConcatProperties
<1>3. \A i \in 1..Len(q) :
         /\ i <= Len(s) => i \in 1..Len(p) /\ q[i] = p[i]
         /\ i > Len(s) => i + Len(t) \in 1..Len(p) /\ q[i] = p[i + Len(t)]
  <2>1. \A i \in 1..Len(s) + Len(u) : q[i] = IF i <= Len(s) THEN s[i] ELSE u[i - Len(s)]
    BY <1>1, ConcatProperties
  <2>2. s \o t \in Seq(Answers) /\ Len(s \o t) = Len(s) + Len(t)
    BY ConcatProperties
  <2>3. \A i \in 1..Len(s) + Len(t) : (s \o t)[i] = IF i <= Len(s) THEN s[i] ELSE t[i - Len(s)]
    BY ConcatProperties
  <2>4. \A i \in 1..Len(s) + Len(t) + Len(u) :
           p[i] = IF i <= Len(s) + Len(t) THEN (s \o t)[i] ELSE u[i - (Len(s) + Len(t))]
    BY <1>1, <2>2, ConcatProperties
  <2>5. ASSUME NEW i \in 1..Len(q), i <= Len(s)
        PROVE  i \in 1..Len(p) /\ q[i] = p[i]
    <3>1. i \in 1..Len(s) + Len(u) /\ i \in 1..Len(s) + Len(t) /\ i <= Len(s) + Len(t)
          /\ i \in 1..Len(s) + Len(t) + Len(u)
      BY <1>2, <2>5
    <3>2. q[i] = s[i] /\ (s \o t)[i] = s[i] /\ p[i] = (s \o t)[i]
      BY <2>1, <2>3, <2>4, <2>5, <3>1
    <3> QED BY <1>2, <3>1, <3>2
  <2>6. ASSUME NEW i \in 1..Len(q), i > Len(s)
        PROVE  i + Len(t) \in 1..Len(p) /\ q[i] = p[i + Len(t)]
    <3>1. /\ i \in 1..Len(s) + Len(u) /\ ~(i <= Len(s))
          /\ i + Len(t) \in 1..Len(s) + Len(t) + Len(u) /\ ~(i + Len(t) <= Len(s) + Len(t))
          /\ i + Len(t) - (Len(s) + Len(t)) = i - Len(s)
      BY <1>2, <2>6
    <3>2. q[i] = u[i - Len(s)]
      BY <2>1, <3>1
    <3>3. p[i + Len(t)] = u[i - Len(s)]
      BY <2>4, <3>1
    <3> QED BY <1>2, <3>1, <3>2, <3>3
  <2> QED BY <2>5, <2>6
<1>4. ASSUME InOrder(p), NEW j \in 1..Len(q), NEW i \in 1..(j - 1)
      PROVE  Before(q[i], q[j])
  <2>1. i \in 1..Len(q) /\ i < j
    BY <1>2
  <2>2. PICK k \in 1..Len(p) : q[j] = p[k] /\ k = IF j <= Len(s) THEN j ELSE j + Len(t)
    BY <1>2, <1>3
  <2>3. PICK l \in 1..Len(p) : q[i] = p[l] /\ l = IF i <= Len(s) THEN i ELSE i + Len(t)
    BY <1>2, <1>3, <2>1
  <2>4. l \in 1..(k - 1)
    BY <1>2, <2>1, <2>2, <2>3
  <2> QED BY <1>4, <2>2, <2>3, <2>4 DEF InOrder
<1>5. ASSUME NEW i \in 1..Len(q) PROVE q[i] \in Elements(p)
  BY <1>2, <1>3 DEF Elements
<1> QED
  BY <1>4, <1>5 DEF InOrder, Elements

(* What stays as it is has lost nothing. *)
LEMMA NothingLost ==
    ASSUME NEW p \in Seq(Answers)
    PROVE  Loses(p, p)
<1>1. <<>> \in Seq(Answers) /\ p \o <<>> = p
  BY EmptySeq, ConcatEmptySeq
<1> QED
  BY <1>1 DEF Loses

(* One more answer, after all others. *)
LEMMA AppendKeepsOrder ==
    ASSUME NEW s \in Seq(Answers), NEW a \in Answers
    PROVE  /\ InOrder(s) /\ (\A b \in Elements(s) : Before(b, a)) => InOrder(Append(s, a))
           /\ Elements(Append(s, a)) = Elements(s) \cup {a}
<1>1. /\ Len(s) \in Nat /\ Len(Append(s, a)) = Len(s) + 1
      /\ \A i \in 1..Len(s) : Append(s, a)[i] = s[i]
      /\ Append(s, a)[Len(s) + 1] = a
  BY LenProperties, AppendProperties
<1>2. ASSUME InOrder(s), \A b \in Elements(s) : Before(b, a),
             NEW j \in 1..Len(Append(s, a)), NEW i \in 1..(j - 1)
      PROVE  Before(Append(s, a)[i], Append(s, a)[j])
  <2>1. i \in 1..Len(s) /\ Append(s, a)[i] = s[i]
    BY <1>1
  <2>2. CASE j = Len(s) + 1
    BY <1>1, <1>2, <2>1, <2>2 DEF Elements
  <2>3. CASE j \in 1..Len(s)
    BY <1>1, <1>2, <2>1, <2>3 DEF InOrder
  <2> QED BY <1>1, <2>2, <2>3
<1>3. Elements(Append(s, a)) = Elements(s) \cup {a}
  <2>1. ASSUME NEW b \in Elements(Append(s, a)) PROVE b \in Elements(s) \cup {a}
    <3>1. PICK i \in 1..Len(s) + 1 : b = Append(s, a)[i]
      BY <1>1, <2>1 DEF Elements
    <3>2. CASE i = Len(s) + 1
      BY <1>1, <3>1, <3>2
    <3>3. CASE i \in 1..Len(s)
      BY <1>1, <3>1, <3>3 DEF Elements
    <3> QED BY <1>1, <3>1, <3>2, <3>3
  <2>2. ASSUME NEW b \in Elements(s) PROVE b \in Elements(Append(s, a))
    <3>1. PICK i \in 1..Len(s) : b = s[i]
      BY <2>2 DEF Elements
    <3>2. i \in 1..Len(Append(s, a)) /\ Append(s, a)[i] = b
      BY <1>1, <3>1
    <3> QED BY <3>2 DEF Elements
  <2>3. a \in Elements(Append(s, a))
    <3>1. Len(s) + 1 \in 1..Len(Append(s, a))
      BY <1>1
    <3> QED BY <1>1, <3>1 DEF Elements
  <2> QED BY <2>1, <2>2, <2>3
<1> QED
  BY <1>2, <1>3 DEF InOrder

(* The first of a sequence moves on to an empty place before it. *)
LEMMA HeadMovesOn ==
    ASSUME NEW s \in Seq(Answers), NEW u \in Seq(Answers), u # <<>>
    PROVE  (s \o <<>>) \o u = (s \o <<Head(u)>>) \o Tail(u)
<1>1. Head(u) \in Answers /\ Tail(u) \in Seq(Answers) /\ <<Head(u)>> \in Seq(Answers)
  BY HeadTailProperties
<1>2. u = <<Head(u)>> \o Tail(u)
  <2>1. /\ Len(u) \in Nat \ {0} /\ Len(Tail(u)) = Len(u) - 1 /\ Len(<<Head(u)>>) = 1
        /\ \A i \in 1..Len(Tail(u)) : Tail(u)[i] = u[i + 1]
        /\ <<Head(u)>>[1] = u[1]
    BY HeadTailProperties, EmptySeq
  <2>2. /\ <<Head(u)>> \o Tail(u) \in Seq(Answers)
        /\ Len(<<Head(u)>> \o Tail(u)) = Len(u)
        /\ \A i \in 1..Len(u) : (<<Head(u)>> \o Tail(u))[i] =
              IF i <= 1 THEN <<Head(u)>>[i] ELSE Tail(u)[i - 1]
    BY <1>1, <2>1, ConcatProperties
  <2>3. \A i \in 1..Len(u) : (<<Head(u)>> \o Tail(u))[i] = u[i]
    BY <2>1, <2>2
  <2> QED BY <2>2, <2>3, SeqEqual
<1>3. s \o <<>> = s
  BY ConcatEmptySeq
<1> QED
  BY <1>1, <1>2, <1>3, ConcatAssociative

(* To append behind a sequence is to append to the whole. *)
LEMMA AppendBehind ==
    ASSUME NEW s \in Seq(Answers), NEW u \in Seq(Answers), NEW a \in Answers
    PROVE  s \o Append(u, a) = Append(s \o u, a)
<1>1. /\ Append(u, a) = u \o <<a>> /\ Append(s \o u, a) = (s \o u) \o <<a>>
      /\ <<a>> \in Seq(Answers)
  BY AppendIsConcat, ConcatProperties
<1> QED
  BY <1>1, ConcatAssociative

------------------------------------------------------------------------------
(* The types, in three parts. *)
RequestTypes ==
    /\ handler \in [Requests -> HandlerSteps]
    /\ conn \in [Requests -> ConnStates]
    /\ reader \subseteq Requests
    /\ published \in [Requests -> 0..MaxEvents]
RuntimeTypes ==
    /\ runtime \in {"down", "starting", "up"}
    /\ inbox \in Seq(Events)
    /\ running \subseteq [req: Requests, event: 1..MaxEvents, next: 1..MaxAnswers + 1]
    /\ executed \subseteq Events
AnswerTypes ==
    /\ sub \in [Requests -> {"none", "open", "closed"}]
    /\ pending \in [Requests -> Seq(Answers)]
    /\ callback \in [Requests -> AtMostOne(Answers)]
    /\ channel \in [Requests -> Seq(Answers)]
    /\ \A r \in Requests : Len(channel[r]) <= ChanCap
    /\ held \in [Requests -> AtMostOne(Answers)]
    /\ buffer \in [Requests -> Seq(Answers)]
    /\ received \in [Requests -> Seq(Answers)]

(* They are the whole. *)
LEMMA TypesAreParts ==
    /\ TypeOK <=> RequestTypes /\ RuntimeTypes /\ AnswerTypes /\ crashed \in BOOLEAN
    /\ TypeOK' <=> RequestTypes' /\ RuntimeTypes' /\ AnswerTypes' /\ (crashed \in BOOLEAN)'
BY DEF TypeOK, RequestTypes, RuntimeTypes, AnswerTypes

(* A place for one answer is a short sequence. *)
LEMMA AtMostOneIsSeq ==
    /\ AtMostOne(Answers) \subseteq Seq(Answers)
    /\ <<>> \in AtMostOne(Answers) /\ <<>> \in Seq(Answers)
<1>1. <<>> \in Seq(Answers)
  BY EmptySeq
<1>2. ASSUME NEW x \in Answers PROVE <<x>> \in Seq(Answers)
  OBVIOUS
<1> QED
  BY <1>1, <1>2 DEF AtMostOne

(* A step is one of the ingestor's, the runtime's or a client's. *)
IngestorStep(r) ==
    \/ Activated(r) \/ Rejected(r) \/ Submit(r) \/ SubmitFails(r) \/ Subscribe(r) \/ SubscribeFails(r) \/ Take(r) \/ WriteStream(r)
    \/ WriteSocket(r) \/ ContextDone(r) \/ Unsubscribe(r) \/ CloseChannel(r)
    \/ Produce(r) \/ ProduceFails(r) \/ ReaderEnds(r) \/ Dispatch(r) \/ Deliver(r)
RuntimeStep ==
    \/ StartEvent \/ Boot \/ Listen \/ Stop
    \/ \E x \in running : Answer(x) \/ EndEvent(x)

(* There are no others. *)
LEMMA NextSteps ==
    [Next]_vars => \/ \E r \in Requests : IngestorStep(r) \/ Disconnect(r)
                   \/ RuntimeStep \/ UNCHANGED vars
BY DEF Next, IngestorStep, RuntimeStep, HandlerStep, ConsumerStep

(* An event is published. *)
LEMMA PublishTyped ==
    ASSUME RequestTypes, RuntimeTypes, NEW r \in Requests, published[r] < MaxEvents, Publish(r)
    PROVE  /\ published' \in [Requests -> 0..MaxEvents]
           /\ inbox' \in Seq(Events)
<1>1. published[r] \in 0..MaxEvents
  BY DEF RequestTypes
<1>2. published[r] + 1 \in 1..MaxEvents
  BY <1>1
<1>3. [req |-> r, event |-> published[r] + 1] \in Events
  BY <1>2 DEF Events
<1>4. inbox' \in Seq(Events)
  BY <1>3, AppendProperties DEF Publish, RuntimeTypes
<1> QED
  BY <1>2, <1>4 DEF Publish, RequestTypes

(* Every step keeps the types of the requests... *)
LEMMA RequestsTyped ==
    ASSUME RequestTypes, RuntimeTypes, Stages, [Next]_vars
    PROVE  RequestTypes'
<1>1. ASSUME NEW r \in Requests, NEW s \in HandlerSteps, Goto(r, s)
      PROVE  handler' \in [Requests -> HandlerSteps]
  BY <1>1 DEF Goto, RequestTypes
<1>2. {"submit", "subscribe", "loop", "write", "unsubscribe", "close", "done"} \subseteq HandlerSteps
  BY DEF HandlerSteps
<1>3. ASSUME NEW r \in Requests, Activated(r) PROVE RequestTypes'
  BY <1>1, <1>2, <1>3 DEF Activated, RequestTypes
<1>4. ASSUME NEW r \in Requests, Submit(r) PROVE RequestTypes'
  <2>1. published[r] < MaxEvents
    BY <1>4 DEF Submit, Stages, Stage
  <2> QED BY <1>1, <1>2, <1>4, <2>1, PublishTyped DEF Submit, RequestTypes
<1>5. ASSUME NEW r \in Requests, Produce(r) PROVE RequestTypes'
  BY <1>5, PublishTyped DEF Produce, RequestTypes
<1>6. ASSUME NEW r \in Requests, ProduceFails(r) \/ ReaderEnds(r) \/ Disconnect(r)
      PROVE  RequestTypes'
  BY <1>6 DEF ProduceFails, ReaderEnds, Disconnect, RequestTypes, ConnStates
<1>9. ASSUME NEW r \in Requests, SubscribeFails(r) PROVE RequestTypes'
  <2>1. handler' \in [Requests -> HandlerSteps]
    BY <1>1, <1>2, <1>9 DEF SubscribeFails
  <2>2. conn' \in [Requests -> ConnStates]
    BY <1>9 DEF SubscribeFails, RequestTypes, ConnStates
  <2> QED BY <1>9, <2>1, <2>2 DEF SubscribeFails, RequestTypes
<1>7. ASSUME NEW r \in Requests,
             \/ Rejected(r) \/ SubmitFails(r) \/ Subscribe(r) \/ Take(r) \/ WriteStream(r)
             \/ WriteSocket(r) \/ ContextDone(r) \/ Unsubscribe(r) \/ CloseChannel(r)
      PROVE  RequestTypes'
  <2>1. handler' \in [Requests -> HandlerSteps]
    BY <1>1, <1>2, <1>7 DEF Rejected, SubmitFails, Subscribe, Take, WriteStream, WriteSocket, ContextDone,
                            Unsubscribe, CloseChannel
  <2>2. UNCHANGED <<conn, reader, published>>
    BY <1>7 DEF Rejected, SubmitFails, Subscribe, Take, WriteStream, WriteSocket, ContextDone,
                Unsubscribe, CloseChannel
  <2> QED BY <2>1, <2>2 DEF RequestTypes
<1>8. ASSUME (\E r \in Requests : Dispatch(r) \/ Deliver(r)) \/ RuntimeStep \/ UNCHANGED vars
      PROVE  RequestTypes'
  <2>1. UNCHANGED requestVars
    BY <1>8 DEF Dispatch, Deliver, RuntimeStep, StartEvent, Boot, Listen, Stop, Answer, EndEvent, vars
  <2> QED BY <2>1 DEF requestVars, RequestTypes
<1> QED
  BY <1>3, <1>4, <1>5, <1>6, <1>7, <1>8, <1>9, NextSteps DEF IngestorStep

(* ... of the runtime... *)
LEMMA RuntimeTyped ==
    ASSUME RequestTypes, RuntimeTypes, Stages, [Next]_vars
    PROVE  RuntimeTypes'
<1>1. ASSUME NEW r \in Requests, Submit(r) PROVE RuntimeTypes'
  <2>1. published[r] < MaxEvents
    BY <1>1 DEF Submit, Stages, Stage
  <2> QED BY <1>1, <2>1, PublishTyped DEF Submit, RuntimeTypes
<1>2. ASSUME NEW r \in Requests, Produce(r) PROVE RuntimeTypes'
  BY <1>2, PublishTyped DEF Produce, RuntimeTypes
<1>3. CASE StartEvent
  <2>1. inbox # <<>> /\ inbox' = Tail(inbox) /\ UNCHANGED runtime
    BY <1>3 DEF StartEvent
  <2>2. Head(inbox) \in Events /\ inbox' \in Seq(Events)
    BY <2>1, HeadTailProperties DEF RuntimeTypes
  <2>3. /\ running' = running \cup {[req |-> Head(inbox).req, event |-> Head(inbox).event, next |-> 1]}
        /\ executed' = executed \cup {Head(inbox)}
    BY <1>3 DEF StartEvent
  <2>4. [req |-> Head(inbox).req, event |-> Head(inbox).event, next |-> 1]
           \in [req: Requests, event: 1..MaxEvents, next: 1..MaxAnswers + 1]
    BY <2>2 DEF Events
  <2> QED BY <2>1, <2>2, <2>3, <2>4 DEF RuntimeTypes
<1>4. CASE Boot \/ Listen
  BY <1>4 DEF Boot, Listen, RuntimeTypes
<1>5. CASE Stop
  BY <1>5, EmptySeq DEF Stop, RuntimeTypes
<1>6. ASSUME NEW x \in running, Answer(x) PROVE RuntimeTypes'
  <2>1. /\ x \in [req: Requests, event: 1..MaxEvents, next: 1..MaxAnswers + 1]
        /\ x.next <= MaxAnswers
    BY <1>6 DEF Answer, RuntimeTypes
  <2>2. [x EXCEPT !.next = @ + 1] \in [req: Requests, event: 1..MaxEvents, next: 1..MaxAnswers + 1]
    BY <2>1
  <2> QED BY <1>6, <2>2 DEF Answer, RuntimeTypes
<1>7. ASSUME NEW x \in running, EndEvent(x) PROVE RuntimeTypes'
  BY <1>7 DEF EndEvent, RuntimeTypes
<1>8. ASSUME NEW r \in Requests,
             \/ Activated(r) \/ Rejected(r) \/ SubmitFails(r) \/ Subscribe(r) \/ SubscribeFails(r)
             \/ Take(r) \/ WriteStream(r) \/ WriteSocket(r) \/ ContextDone(r) \/ Unsubscribe(r)
             \/ CloseChannel(r) \/ ProduceFails(r) \/ ReaderEnds(r) \/ Dispatch(r) \/ Deliver(r) \/ Disconnect(r)
      PROVE  UNCHANGED runtimeVars
  BY <1>8 DEF Activated, Rejected, SubmitFails, Subscribe, SubscribeFails, Take, WriteStream, WriteSocket, ContextDone,
              Unsubscribe, CloseChannel, ProduceFails, ReaderEnds, Dispatch, Deliver, Disconnect
<1>9. ASSUME UNCHANGED runtimeVars PROVE RuntimeTypes'
  BY <1>9 DEF runtimeVars, RuntimeTypes
<1> QED
  BY <1>1, <1>2, <1>3, <1>4, <1>5, <1>6, <1>7, <1>8, <1>9, NextSteps DEF IngestorStep, RuntimeStep, vars

(* ... and of the answers. *)
LEMMA AnswersTyped ==
    ASSUME RequestTypes, RuntimeTypes, AnswerTypes, [Next]_vars
    PROVE  AnswerTypes'
<1>1. ASSUME UNCHANGED answerVars PROVE AnswerTypes'
  BY <1>1 DEF answerVars, AnswerTypes
<1>2. ASSUME NEW r \in Requests,
             \/ Activated(r) \/ Rejected(r) \/ Submit(r) \/ SubmitFails(r) \/ SubscribeFails(r)
             \/ ContextDone(r) \/ Produce(r) \/ ProduceFails(r) \/ ReaderEnds(r) \/ Disconnect(r)
      PROVE  UNCHANGED answerVars
  BY <1>2 DEF Activated, Rejected, Submit, SubmitFails, SubscribeFails, ContextDone, Produce,
              ProduceFails, ReaderEnds, Disconnect
<1>3. ASSUME \/ StartEvent \/ Boot \/ Listen \/ Stop \/ UNCHANGED vars
             \/ \E x \in running : EndEvent(x)
      PROVE  UNCHANGED answerVars
  BY <1>3 DEF StartEvent, Boot, Listen, Stop, EndEvent, vars
<1>4. ASSUME NEW r \in Requests, Subscribe(r) PROVE AnswerTypes'
  BY <1>4 DEF Subscribe, AnswerTypes
<1>5. ASSUME NEW r \in Requests, Take(r) PROVE AnswerTypes'
  <2>1. /\ channel[r] # <<>> /\ channel[r] \in Seq(Answers)
        /\ held' = [held EXCEPT ![r] = <<Head(channel[r])>>]
        /\ channel' = [channel EXCEPT ![r] = Tail(channel[r])]
        /\ UNCHANGED <<sub, pending, callback, buffer, received>>
    BY <1>5 DEF Take, AnswerTypes
  <2>2. /\ Head(channel[r]) \in Answers /\ Tail(channel[r]) \in Seq(Answers)
        /\ Len(Tail(channel[r])) <= ChanCap
    <3>1. /\ Head(channel[r]) \in Answers /\ Tail(channel[r]) \in Seq(Answers)
          /\ Len(Tail(channel[r])) = Len(channel[r]) - 1 /\ Len(channel[r]) \in Nat
      BY <2>1, HeadTailProperties, LenProperties
    <3>2. Len(channel[r]) <= ChanCap
      BY DEF AnswerTypes
    <3> QED BY <3>1, <3>2
  <2>3. held' \in [Requests -> AtMostOne(Answers)]
    <3>1. <<Head(channel[r])>> \in AtMostOne(Answers)
      BY <2>2 DEF AtMostOne
    <3> QED BY <2>1, <3>1 DEF AnswerTypes
  <2>4. channel' \in [Requests -> Seq(Answers)] /\ \A q \in Requests : Len(channel'[q]) <= ChanCap
    BY <2>1, <2>2 DEF AnswerTypes
  <2> QED BY <2>1, <2>3, <2>4 DEF AnswerTypes
<1>6. ASSUME NEW r \in Requests, WriteStream(r) \/ WriteSocket(r) PROVE AnswerTypes'
  <2>1. /\ held[r] \in Seq(Answers) /\ buffer[r] \in Seq(Answers) /\ received[r] \in Seq(Answers)
        /\ <<>> \in Seq(Answers) /\ <<>> \in AtMostOne(Answers)
    BY AtMostOneIsSeq DEF AnswerTypes
  <2>2. /\ buffer[r] \o held[r] \in Seq(Answers) /\ received[r] \o held[r] \in Seq(Answers)
        /\ received[r] \o (buffer[r] \o held[r]) \in Seq(Answers)
    BY <2>1, ConcatProperties
  <2>3. held' \in [Requests -> AtMostOne(Answers)]
    BY <1>6, <2>1 DEF WriteStream, WriteSocket, AnswerTypes
  <2>4. UNCHANGED <<sub, pending, callback, channel>>
    BY <1>6 DEF WriteStream, WriteSocket
  <2>5. CASE WriteStream(r)
    <3>1. received' = received \/ received' = [received EXCEPT ![r] = received[r] \o (buffer[r] \o held[r])]
      BY <2>5 DEF WriteStream
    <3>2. \/ buffer' = [buffer EXCEPT ![r] = buffer[r] \o held[r]]
          \/ buffer' = [buffer EXCEPT ![r] = <<>>]
      BY <2>5 DEF WriteStream
    <3>3. received' \in [Requests -> Seq(Answers)]
      BY <2>2, <3>1 DEF AnswerTypes
    <3>4. buffer' \in [Requests -> Seq(Answers)]
      BY <2>1, <2>2, <3>2 DEF AnswerTypes
    <3> QED BY <2>3, <2>4, <3>3, <3>4 DEF AnswerTypes
  <2>6. CASE WriteSocket(r)
    <3>1. received' = received \/ received' = [received EXCEPT ![r] = received[r] \o held[r]]
      BY <2>6 DEF WriteSocket
    <3>2. UNCHANGED buffer
      BY <2>6 DEF WriteSocket
    <3>3. received' \in [Requests -> Seq(Answers)]
      BY <2>2, <3>1 DEF AnswerTypes
    <3> QED BY <2>3, <2>4, <3>2, <3>3 DEF AnswerTypes
  <2> QED BY <1>6, <2>5, <2>6
<1>7. ASSUME NEW r \in Requests, Unsubscribe(r) PROVE AnswerTypes'
  BY <1>7, AtMostOneIsSeq DEF Unsubscribe, AnswerTypes
<1>8. ASSUME NEW r \in Requests, CloseChannel(r) PROVE AnswerTypes'
  <2>1. Len(<<>>) <= ChanCap
    BY EmptySeq
  <2> QED BY <1>8, <2>1, AtMostOneIsSeq DEF CloseChannel, AnswerTypes
<1>9. ASSUME NEW r \in Requests, Dispatch(r) PROVE AnswerTypes'
  <2>1. /\ pending[r] # <<>> /\ pending[r] \in Seq(Answers)
        /\ callback' = [callback EXCEPT ![r] = <<Head(pending[r])>>]
        /\ pending' = [pending EXCEPT ![r] = Tail(pending[r])]
        /\ UNCHANGED <<sub, channel, held, buffer, received>>
    BY <1>9 DEF Dispatch, AnswerTypes
  <2>2. Head(pending[r]) \in Answers /\ Tail(pending[r]) \in Seq(Answers)
    BY <2>1, HeadTailProperties
  <2>3. callback' \in [Requests -> AtMostOne(Answers)]
    <3>1. <<Head(pending[r])>> \in AtMostOne(Answers)
      BY <2>2 DEF AtMostOne
    <3> QED BY <2>1, <3>1 DEF AnswerTypes
  <2>4. pending' \in [Requests -> Seq(Answers)]
    BY <2>1, <2>2 DEF AnswerTypes
  <2> QED BY <2>1, <2>3, <2>4 DEF AnswerTypes
<1>10. ASSUME NEW r \in Requests, Deliver(r) PROVE AnswerTypes'
  <2>1. callback' \in [Requests -> AtMostOne(Answers)]
    BY <1>10, AtMostOneIsSeq DEF Deliver, AnswerTypes
  <2>2. /\ UNCHANGED <<sub, pending, held, buffer, received>>
        /\ \/ UNCHANGED channel
           \/ /\ Len(channel[r]) < ChanCap
              /\ channel' = [channel EXCEPT ![r] = channel[r] \o callback[r]]
    BY <1>10 DEF Deliver
  <2>3. channel[r] \in Seq(Answers) /\ callback[r] \in Seq(Answers) /\ Len(callback[r]) \in {0, 1}
    <3>1. callback[r] \in AtMostOne(Answers)
      BY DEF AnswerTypes
    <3>2. \A x : Len(<<x>>) = 1
      OBVIOUS
    <3>3. callback[r] = <<>> \/ \E x \in Answers : callback[r] = <<x>>
      BY <3>1 DEF AtMostOne
    <3>4. Len(<<>>) = 0
      BY EmptySeq
    <3>5. Len(callback[r]) \in {0, 1}
      BY <3>2, <3>3, <3>4
    <3> QED BY <3>1, <3>5, AtMostOneIsSeq DEF AnswerTypes
  <2>4. /\ channel[r] \o callback[r] \in Seq(Answers)
        /\ Len(channel[r]) < ChanCap => Len(channel[r] \o callback[r]) <= ChanCap
    <3>1. Len(channel[r]) \in Nat /\ Len(callback[r]) \in Nat
      BY <2>3, LenProperties
    <3>2. /\ channel[r] \o callback[r] \in Seq(Answers)
          /\ Len(channel[r] \o callback[r]) = Len(channel[r]) + Len(callback[r])
      BY <2>3, ConcatProperties
    <3>3. \A m, n \in Nat : m < ChanCap /\ n \in {0, 1} => m + n <= ChanCap
      OBVIOUS
    <3> QED BY <2>3, <3>1, <3>2, <3>3
  <2>5. channel' \in [Requests -> Seq(Answers)] /\ \A q \in Requests : Len(channel'[q]) <= ChanCap
    BY <2>2, <2>4 DEF AnswerTypes
  <2> QED BY <2>1, <2>2, <2>5 DEF AnswerTypes
<1>11. ASSUME NEW x \in running, Answer(x) PROVE AnswerTypes'
  <2>1. /\ x \in [req: Requests, event: 1..MaxEvents, next: 1..MaxAnswers + 1]
        /\ x.next <= MaxAnswers
    BY <1>11 DEF Answer, RuntimeTypes
  <2>2. [event |-> x.event, n |-> x.next] \in Answers
    BY <2>1 DEF Answers
  <2>3. Append(pending[x.req], [event |-> x.event, n |-> x.next]) \in Seq(Answers)
    BY <2>1, <2>2, AppendProperties DEF AnswerTypes
  <2>4. pending' \in [Requests -> Seq(Answers)]
    BY <1>11, <2>3 DEF Answer, AnswerTypes
  <2> QED BY <1>11, <2>4 DEF Answer, AnswerTypes
<1> QED
  BY <1>1, <1>2, <1>3, <1>4, <1>5, <1>6, <1>7, <1>8, <1>9, <1>10, <1>11, NextSteps
     DEF IngestorStep, RuntimeStep

(* Every step keeps the types. *)
LEMMA NextTyped ==
    ASSUME TypeOK, Stages, [Next]_vars
    PROVE  TypeOK'
<1>1. crashed' \in BOOLEAN
  <2>1. ASSUME NEW r \in Requests, IngestorStep(r) PROVE crashed' \in {TRUE, crashed}
    BY <2>1 DEF IngestorStep, Activated, Rejected, Submit, SubmitFails, Subscribe, SubscribeFails, Take, WriteStream, WriteSocket,
                ContextDone, Unsubscribe, CloseChannel, Produce, ProduceFails, ReaderEnds, Dispatch, Deliver
  <2>2. ASSUME RuntimeStep \/ UNCHANGED vars \/ \E r \in Requests : Disconnect(r)
        PROVE  UNCHANGED crashed
    BY <2>2 DEF RuntimeStep, StartEvent, Boot, Listen, Stop, Answer, EndEvent, vars, Disconnect
  <2> QED BY <2>1, <2>2, NextSteps DEF TypeOK
<1> QED
  BY <1>1, TypesAreParts, RequestsTyped, RuntimeTyped, AnswersTyped

------------------------------------------------------------------------------
(* What a stage is about is unchanged. *)
Same(q) ==
    /\ handler'[q] = handler[q] /\ conn'[q] = conn[q] /\ published'[q] = published[q]
    /\ q \in reader' <=> q \in reader
    /\ sub'[q] = sub[q] /\ pending'[q] = pending[q] /\ callback'[q] = callback[q]
    /\ held'[q] = held[q] /\ buffer'[q] = buffer[q]

(* The stages of the requests that a step is not about stay. *)
LEMMA OthersStay ==
    ASSUME Stages, NEW r \in Requests, Stage(r)', \A q \in Requests \ {r} : Same(q)
    PROVE  Stages'
BY DEF Stages, Stage, Lossy, Same

(* Every step keeps the stages. *)
LEMMA NextStages ==
    ASSUME TypeOK, Stages, [Next]_vars
    PROVE  Stages'
<1>1. /\ handler \in [Requests -> HandlerSteps] /\ conn \in [Requests -> ConnStates]
      /\ reader \subseteq Requests /\ published \in [Requests -> 0..MaxEvents]
      /\ sub \in [Requests -> {"none", "open", "closed"}]
      /\ pending \in [Requests -> Seq(Answers)] /\ callback \in [Requests -> AtMostOne(Answers)]
      /\ held \in [Requests -> AtMostOne(Answers)] /\ buffer \in [Requests -> Seq(Answers)]
  BY DEF TypeOK
<1>2. ASSUME NEW r \in Requests PROVE Stage(r) /\ Kind[r] \in {"async", "sse", "ws"}
  BY DEF Stages
<1>3. ASSUME NEW r \in Requests, Activated(r) \/ Rejected(r) \/ SubmitFails(r) PROVE Stages'
  <2>1. \A q \in Requests \ {r} : Same(q)
    BY <1>1, <1>3 DEF Activated, Rejected, SubmitFails, Goto, Same, answerVars
  <2>2. Stage(r)'
    BY <1>1, <1>2, <1>3 DEF Activated, Rejected, SubmitFails, Goto, Stage, Lossy, answerVars
  <2> QED BY <2>1, <2>2, OthersStay
<1>4. ASSUME NEW r \in Requests, Submit(r) \/ Produce(r) PROVE Stages'
  <2>1. \A q \in Requests \ {r} : Same(q)
    BY <1>1, <1>4 DEF Submit, Produce, Publish, Goto, Same, answerVars
  <2>2. CASE Submit(r)
    BY <1>1, <1>2, <2>1, <2>2, OthersStay DEF Submit, Publish, Goto, Stage, Lossy, answerVars
  <2>3. CASE Produce(r)
    BY <1>1, <1>2, <2>1, <2>3, OthersStay DEF Produce, Publish, Stage, Lossy, answerVars
  <2> QED BY <1>4, <2>2, <2>3
<1>5. ASSUME NEW r \in Requests,
             ProduceFails(r) \/ ReaderEnds(r) \/ Disconnect(r) \/ SubscribeFails(r)
      PROVE  Stages'
  <2>1. \A q \in Requests \ {r} : Same(q)
    BY <1>1, <1>5 DEF ProduceFails, ReaderEnds, Disconnect, SubscribeFails, Goto, Same, answerVars
  <2>2. Stage(r)'
    <3>1. CASE ProduceFails(r)
      BY <1>1, <1>2, <3>1 DEF ProduceFails, Stage, Lossy, answerVars
    <3>2. CASE ReaderEnds(r)
      BY <1>1, <1>2, <3>2 DEF ReaderEnds, Stage, Lossy, ConnStates, answerVars
    <3>3. CASE Disconnect(r)
      BY <1>1, <1>2, <3>3 DEF Disconnect, Stage, Lossy, answerVars
    <3>4. CASE SubscribeFails(r)
      BY <1>1, <1>2, <3>4 DEF SubscribeFails, Goto, Stage, Lossy, ConnStates, answerVars
    <3> QED BY <1>5, <3>1, <3>2, <3>3, <3>4
  <2> QED BY <2>1, <2>2, OthersStay
<1>6. ASSUME NEW r \in Requests, Subscribe(r) \/ ContextDone(r) \/ Unsubscribe(r) PROVE Stages'
  <2>1. \A q \in Requests \ {r} : Same(q)
    BY <1>1, <1>6 DEF Subscribe, ContextDone, Unsubscribe, Goto, Same, answerVars
  <2>2. Stage(r)'
    BY <1>1, <1>2, <1>6 DEF Subscribe, ContextDone, Unsubscribe, Goto, Stage, Lossy, ConnStates, answerVars
  <2> QED BY <2>1, <2>2, OthersStay
<1>7. ASSUME NEW r \in Requests, Take(r) \/ CloseChannel(r) PROVE Stages'
  <2>1. \A q \in Requests \ {r} : Same(q)
    BY <1>1, <1>7 DEF Take, CloseChannel, Goto, Same
  <2>2. Stage(r)'
    BY <1>1, <1>2, <1>7 DEF Take, CloseChannel, Goto, Stage, Lossy, ConnStates
  <2> QED BY <2>1, <2>2, OthersStay
<1>8. ASSUME NEW r \in Requests, WriteStream(r) \/ WriteSocket(r) PROVE Stages'
  <2>1. \A q \in Requests \ {r} : Same(q)
    BY <1>1, <1>8 DEF WriteStream, WriteSocket, Goto, Same
  <2>2. Stage(r)'
    <3>1. /\ handler[r] = "write" /\ held'[r] = <<>>
          /\ UNCHANGED <<conn, reader, published, sub, pending, callback>>
      BY <1>1, <1>8 DEF WriteStream, WriteSocket
    <3>2. handler'[r] = "loop" \/ (handler'[r] = "unsubscribe" /\ Kind[r] = "ws" /\ conn[r] # "open")
      BY <1>1, <1>8 DEF WriteStream, WriteSocket, Goto
    <3>3. Kind[r] = "ws" => buffer' = buffer
      BY <1>8 DEF WriteStream, WriteSocket
    <3> QED BY <1>1, <1>2, <3>1, <3>2, <3>3 DEF Stage, Lossy, ConnStates
  <2> QED BY <2>1, <2>2, OthersStay
<1>9. ASSUME NEW r \in Requests, Dispatch(r) \/ Deliver(r) PROVE Stages'
  <2>1. \A q \in Requests \ {r} : Same(q)
    BY <1>1, <1>9 DEF Dispatch, Deliver, Same, requestVars
  <2>2. sub[r] # "none"
    BY <1>2, <1>9 DEF Dispatch, Deliver, Stage
  <2>3. Stage(r)'
    BY <1>1, <1>2, <1>9, <2>2 DEF Dispatch, Deliver, Stage, Lossy, requestVars
  <2> QED BY <2>1, <2>3, OthersStay
<1>10. ASSUME NEW x \in running, Answer(x) PROVE Stages'
  <2>1. x.req \in Requests
    BY DEF TypeOK
  <2>2. \A q \in Requests \ {x.req} : Same(q)
    BY <1>1, <1>10, <2>1 DEF Answer, Same, requestVars
  <2>3. Stage(x.req)'
    BY <1>1, <1>2, <1>10, <2>1 DEF Answer, Stage, Lossy, requestVars
  <2> QED BY <2>1, <2>2, <2>3, OthersStay
<1>11. ASSUME \/ StartEvent \/ Boot \/ Listen \/ Stop \/ UNCHANGED vars
              \/ \E x \in running : EndEvent(x)
       PROVE  Stages'
  <2>1. UNCHANGED <<requestVars, answerVars>>
    BY <1>11 DEF StartEvent, Boot, Listen, Stop, EndEvent, vars
  <2> QED BY <2>1 DEF requestVars, answerVars, Stages, Stage, Lossy
<1> QED
  BY <1>3, <1>4, <1>5, <1>6, <1>7, <1>8, <1>9, <1>10, <1>11, NextSteps DEF IngestorStep, RuntimeStep

------------------------------------------------------------------------------
(* One more event is published. *)
LEMMA PublishKeepsOrder ==
    ASSUME TypeOK, EventsInOrder, NEW r \in Requests, published[r] < MaxEvents, Publish(r),
           UNCHANGED executed
    PROVE  EventsInOrder'
<1> DEFINE e == [req |-> r, event |-> published[r] + 1]
<1>1. /\ published \in [Requests -> 0..MaxEvents] /\ inbox \in Seq(Events) /\ executed \subseteq Events
      /\ Len(inbox) \in Nat
  BY LenProperties DEF TypeOK
<1>2. /\ published'[r] = published[r] + 1
      /\ \A q \in Requests : published[q] <= published'[q] /\ published[q] \in Nat /\ published'[q] \in Nat
  BY <1>1 DEF Publish
<1>3. /\ e.req = r /\ e.event = published[r] + 1
      /\ \A d \in Events : d.req \in Requests /\ d.event \in Nat
  BY DEF Events
<1>4. \A d \in executed : d.event <= published'[d.req]
  BY <1>1, <1>2, <1>3 DEF EventsInOrder
<1>5. ASSUME NEW j \in 1..Len(inbox)
      PROVE  /\ inbox[j] \in Events /\ inbox[j].event <= published'[inbox[j].req]
             /\ \A i \in 1..(j - 1) : inbox[i].req = inbox[j].req => inbox[i].event < inbox[j].event
             /\ \A d \in executed : d.req = inbox[j].req => d.event < inbox[j].event
  <2>1. inbox[j] \in Events
    BY <1>1, ElementOfSeq
  <2> QED BY <1>2, <1>3, <2>1 DEF EventsInOrder
<1>6. CASE UNCHANGED inbox
  BY <1>4, <1>5, <1>6 DEF EventsInOrder
<1>7. CASE inbox' = Append(inbox, e)
  <2>1. e \in Events
    BY <1>1, <1>2 DEF Events
  <2>2. /\ Len(inbox') = Len(inbox) + 1 /\ \A i \in 1..Len(inbox) : inbox'[i] = inbox[i]
        /\ inbox'[Len(inbox) + 1] = e
    BY <1>1, <1>7, <2>1, AppendProperties
  <2> HIDE DEF e
  <2>3. ASSUME NEW j \in 1..Len(inbox')
        PROVE  /\ inbox'[j].event <= published'[inbox'[j].req]
               /\ \A i \in 1..(j - 1) :
                     inbox'[i].req = inbox'[j].req => inbox'[i].event < inbox'[j].event
               /\ \A d \in executed : d.req = inbox'[j].req => d.event < inbox'[j].event
    <3>1. CASE j \in 1..Len(inbox)
      <4>1. \A i \in 1..(j - 1) : i \in 1..Len(inbox)
        BY <1>1, <3>1
      <4> QED BY <1>5, <2>2, <3>1, <4>1
    <3>2. CASE j = Len(inbox) + 1
      <4>1. inbox'[j] = e /\ e.event <= published'[r]
        BY <1>2, <1>3, <2>2, <3>2
      <4>2. ASSUME NEW i \in 1..(j - 1), inbox'[i].req = r PROVE inbox'[i].event < e.event
        <5>1. i \in 1..Len(inbox) /\ inbox'[i] = inbox[i]
          BY <1>1, <2>2, <3>2
        <5>2. inbox[i].event <= published[r] /\ inbox[i].event \in Nat
          BY <1>3, <1>5, <4>2, <5>1 DEF EventsInOrder
        <5> QED BY <1>2, <1>3, <5>1, <5>2
      <4>3. ASSUME NEW d \in executed, d.req = r PROVE d.event < e.event
        <5>1. d.event <= published[r] /\ d.event \in Nat
          BY <1>1, <1>3, <4>3 DEF EventsInOrder
        <5> QED BY <1>2, <1>3, <5>1
      <4> QED BY <1>3, <4>1, <4>2, <4>3
    <3> QED BY <1>1, <2>2, <3>1, <3>2
  <2> QED BY <1>4, <2>3 DEF EventsInOrder
<1> QED
  BY <1>6, <1>7 DEF Publish

(* The next event is consumed: those after it stay in order. *)
LEMMA StartKeepsOrder ==
    ASSUME TypeOK, EventsInOrder, StartEvent
    PROVE  /\ EventsInOrder'
           /\ Head(inbox) \in Events /\ 1 \in 1..Len(inbox) /\ Head(inbox) = inbox[1]
<1>1. /\ inbox \in Seq(Events) /\ executed \subseteq Events /\ inbox # <<>>
      /\ inbox' = Tail(inbox) /\ executed' = executed \cup {Head(inbox)} /\ UNCHANGED published
  BY DEF TypeOK, StartEvent, requestVars
<1>2. /\ Len(inbox) \in Nat \ {0} /\ Head(inbox) = inbox[1] /\ Head(inbox) \in Events
      /\ Len(inbox') = Len(inbox) - 1 /\ \A i \in 1..Len(inbox') : inbox'[i] = inbox[i + 1]
  BY <1>1, HeadTailProperties, EmptySeq
<1>3. 1 \in 1..Len(inbox)
  BY <1>2
<1>4. ASSUME NEW d \in executed' PROVE d.event <= published'[d.req]
  BY <1>1, <1>2, <1>3, <1>4 DEF EventsInOrder
<1>5. ASSUME NEW j \in 1..Len(inbox')
      PROVE  /\ inbox'[j].event <= published'[inbox'[j].req]
             /\ \A i \in 1..(j - 1) :
                   inbox'[i].req = inbox'[j].req => inbox'[i].event < inbox'[j].event
             /\ \A d \in executed' : d.req = inbox'[j].req => d.event < inbox'[j].event
  <2>1. j + 1 \in 1..Len(inbox) /\ inbox'[j] = inbox[j + 1] /\ 1 \in 1..((j + 1) - 1)
    BY <1>2
  <2>2. /\ inbox[j + 1].event <= published[inbox[j + 1].req]
        /\ \A i \in 1..((j + 1) - 1) :
              inbox[i].req = inbox[j + 1].req => inbox[i].event < inbox[j + 1].event
        /\ \A d \in executed : d.req = inbox[j + 1].req => d.event < inbox[j + 1].event
    BY <2>1 DEF EventsInOrder
  <2>3. \A i \in 1..(j - 1) : i + 1 \in 1..((j + 1) - 1) /\ inbox'[i] = inbox[i + 1]
    BY <1>2
  <2>4. \A d \in executed' : d.req = inbox[j + 1].req => d.event < inbox[j + 1].event
    BY <1>1, <1>2, <2>1, <2>2
  <2> QED BY <1>1, <2>1, <2>2, <2>3, <2>4
<1> QED
  BY <1>2, <1>3, <1>4, <1>5 DEF EventsInOrder

(* Every step keeps the order of the events. *)
LEMMA NextEvents ==
    ASSUME TypeOK, Stages, EventsInOrder, [Next]_vars
    PROVE  EventsInOrder'
<1>1. ASSUME NEW r \in Requests, Submit(r) PROVE EventsInOrder'
  <2>1. published[r] < MaxEvents
    BY <1>1 DEF Submit, Stages, Stage
  <2> QED BY <1>1, <2>1, PublishKeepsOrder DEF Submit
<1>2. ASSUME NEW r \in Requests, Produce(r) PROVE EventsInOrder'
  BY <1>2, PublishKeepsOrder DEF Produce
<1>3. CASE StartEvent
  BY <1>3, StartKeepsOrder
<1>4. CASE Stop
  <2>1. inbox' = <<>> /\ UNCHANGED <<executed, published>> /\ Len(<<>>) = 0
    BY <1>4, EmptySeq DEF Stop, requestVars
  <2> QED BY <2>1 DEF EventsInOrder
<1>5. ASSUME NEW r \in Requests,
             \/ Activated(r) \/ Rejected(r) \/ SubmitFails(r) \/ Subscribe(r) \/ SubscribeFails(r)
             \/ Take(r) \/ WriteStream(r) \/ WriteSocket(r) \/ ContextDone(r) \/ Unsubscribe(r)
             \/ CloseChannel(r) \/ ProduceFails(r) \/ ReaderEnds(r) \/ Dispatch(r) \/ Deliver(r) \/ Disconnect(r)
      PROVE  UNCHANGED <<runtimeVars, published>>
  BY <1>5 DEF Activated, Rejected, SubmitFails, Subscribe, SubscribeFails, Take, WriteStream, WriteSocket, ContextDone,
              Unsubscribe, CloseChannel, ProduceFails, ReaderEnds, Dispatch, Deliver, Disconnect, requestVars
<1>6. ASSUME Boot \/ Listen \/ UNCHANGED vars \/ \E x \in running : Answer(x) \/ EndEvent(x)
      PROVE  UNCHANGED <<inbox, executed, published>>
  BY <1>6 DEF Boot, Listen, Answer, EndEvent, vars, requestVars, runtimeVars
<1>7. ASSUME UNCHANGED <<inbox, executed, published>> PROVE EventsInOrder'
  BY <1>7 DEF EventsInOrder
<1> QED
  BY <1>1, <1>2, <1>3, <1>4, <1>5, <1>6, <1>7, NextSteps DEF IngestorStep, RuntimeStep, runtimeVars

(* Every step keeps each event to one execution. *)
LEMMA NextRunning ==
    ASSUME TypeOK, EventsInOrder, EventsRunOnce, [Next]_vars
    PROVE  EventsRunOnce'
<1>1. \A x \in running : x \in [req: Requests, event: 1..MaxEvents, next: 1..MaxAnswers + 1]
  BY DEF TypeOK
<1>2. CASE StartEvent
  <2> DEFINE e == Head(inbox)
             x == [req |-> e.req, event |-> e.event, next |-> 1]
  <2>1. /\ e \in Events /\ running' = running \cup {x} /\ executed' = executed \cup {e}
        /\ Serial => running = {}
    BY <1>2, StartKeepsOrder DEF StartEvent
  <2>2. x.req = e.req /\ x.event = e.event /\ [req |-> e.req, event |-> e.event] = e /\ e.event \in Nat
    BY <2>1 DEF Events
  <2>3. \A d \in executed : d.req = e.req => d.event < e.event
    BY <1>2, StartKeepsOrder DEF EventsInOrder
  <2>4. \A d \in executed : d.event \in Nat
    BY DEF TypeOK, Events
  <2> HIDE DEF e, x
  <2>5. \A y \in running : ~(y.req = x.req /\ y.event = x.event)
    <3>1. ASSUME NEW y \in running, y.req = x.req, y.event = x.event PROVE FALSE
      <4>1. [req |-> y.req, event |-> y.event] \in executed
        BY DEF EventsRunOnce
      <4>2. e \in executed
        BY <2>2, <3>1, <4>1
      <4> QED BY <2>2, <2>3, <4>2
    <3> QED BY <3>1
  <2>6. ASSUME NEW y \in running
        PROVE  /\ [req |-> y.req, event |-> y.event] \in executed'
               /\ \A z \in running' : (z.req = y.req /\ z.event = y.event) \/ Serial => z = y
               /\ Serial => \A d \in executed' : d.req = y.req => d.event <= y.event
    BY <2>1, <2>5, <2>6 DEF EventsRunOnce
  <2>7. /\ [req |-> x.req, event |-> x.event] \in executed'
        /\ \A z \in running' : (z.req = x.req /\ z.event = x.event) \/ Serial => z = x
        /\ Serial => \A d \in executed' : d.req = x.req => d.event <= x.event
    BY <2>1, <2>2, <2>3, <2>4, <2>5
  <2> QED BY <2>1, <2>6, <2>7 DEF EventsRunOnce
<1>3. CASE Stop
  BY <1>3 DEF Stop, EventsRunOnce
<1>4. ASSUME NEW x \in running, Answer(x) PROVE EventsRunOnce'
  <2> DEFINE w == [x EXCEPT !.next = @ + 1]
  <2>1. w.req = x.req /\ w.event = x.event
    BY <1>1
  <2>2. running' = (running \ {x}) \cup {w} /\ executed' = executed
    BY <1>4 DEF Answer
  <2> HIDE DEF w
  <2>3. \A y \in running' : \E z \in running : z.req = y.req /\ z.event = y.event /\ (y = w <=> z = x)
                                               /\ (y # w => y = z)
    <3>1. ASSUME NEW y \in running', y = w
          PROVE  \E z \in running : z.req = y.req /\ z.event = y.event /\ (y = w <=> z = x) /\ (y # w => y = z)
      BY <2>1, <3>1
    <3>2. ASSUME NEW y \in running', y # w
          PROVE  \E z \in running : z.req = y.req /\ z.event = y.event /\ (y = w <=> z = x) /\ (y # w => y = z)
      BY <2>2, <3>2
    <3> QED BY <3>1, <3>2
  <2>4. ASSUME NEW y \in running'
        PROVE  /\ [req |-> y.req, event |-> y.event] \in executed
               /\ \A z \in running' : (z.req = y.req /\ z.event = y.event) \/ Serial => z = y
               /\ Serial => \A d \in executed : d.req = y.req => d.event <= y.event
    <3>1. PICK y1 \in running : y1.req = y.req /\ y1.event = y.event /\ (y = w <=> y1 = x)
                                /\ (y # w => y = y1)
      BY <2>3
    <3>2. ASSUME NEW z \in running', (z.req = y.req /\ z.event = y.event) \/ Serial PROVE z = y
      <4>1. PICK z1 \in running : z1.req = z.req /\ z1.event = z.event /\ (z = w <=> z1 = x)
                                  /\ (z # w => z = z1)
        BY <2>3
      <4>2. z1 = y1
        BY <3>1, <3>2, <4>1 DEF EventsRunOnce
      <4> QED BY <3>1, <4>1, <4>2
    <3> QED BY <3>1, <3>2 DEF EventsRunOnce
  <2> QED BY <2>2, <2>4 DEF EventsRunOnce
<1>5. ASSUME NEW x \in running, EndEvent(x) PROVE EventsRunOnce'
  BY <1>5 DEF EndEvent, EventsRunOnce
<1>6. ASSUME NEW r \in Requests, IngestorStep(r) \/ Disconnect(r) PROVE UNCHANGED <<running, executed>>
  BY <1>6 DEF IngestorStep, Activated, Rejected, Submit, SubmitFails, Subscribe, SubscribeFails, Take, WriteStream, WriteSocket,
              ContextDone, Unsubscribe, CloseChannel, Produce, ProduceFails, ReaderEnds, Dispatch, Deliver,
              Disconnect, runtimeVars
<1>7. ASSUME Boot \/ Listen \/ UNCHANGED vars PROVE UNCHANGED <<running, executed>>
  BY <1>7 DEF Boot, Listen, vars, runtimeVars
<1>8. ASSUME UNCHANGED <<running, executed>> PROVE EventsRunOnce'
  BY <1>8 DEF EventsRunOnce
<1> QED
  BY <1>2, <1>3, <1>4, <1>5, <1>6, <1>7, <1>8, NextSteps DEF RuntimeStep

------------------------------------------------------------------------------
(* What is lost of a part is lost of the whole. *)
LEMMA LosesInFront ==
    ASSUME NEW p, NEW q, Loses(p, q), NEW v \in Seq(Answers)
    PROVE  Loses(p \o v, q \o v)
<1>1. PICK s \in Seq(Answers), t \in Seq(Answers), u \in Seq(Answers) :
         p = (s \o t) \o u /\ q = s \o u
  BY DEF Loses
<1>2. s \o t \in Seq(Answers) /\ u \o v \in Seq(Answers)
  BY ConcatProperties
<1>3. ((s \o t) \o u) \o v = (s \o t) \o (u \o v)
  <2> DEFINE w == s \o t
  <2>1. w \in Seq(Answers)
    BY <1>2
  <2> HIDE DEF w
  <2>2. (w \o u) \o v = w \o (u \o v)
    BY <2>1, ConcatAssociative, SMTT(60)
  <2> QED BY <2>2 DEF w
<1>4. (s \o u) \o v = s \o (u \o v)
  BY ConcatAssociative
<1> QED
  BY <1>1, <1>2, <1>3, <1>4 DEF Loses

(* A part behind another is lost. *)
LEMMA LosesPart ==
    ASSUME NEW s \in Seq(Answers), NEW t \in Seq(Answers)
    PROVE  Loses(s \o t, s \o <<>>)
<1>1. <<>> \in Seq(Answers) /\ (s \o t) \o <<>> = s \o t
  BY EmptySeq, ConcatProperties, ConcatEmptySeq
<1> QED
  BY <1>1 DEF Loses

(* The handler takes, buffers and writes answers; the callback is handed one *)
(* and sends it: none of it changes what is on the way...                    *)
LEMMA PartsMoveOn ==
    ASSUME NEW a \in Seq(Answers), NEW b \in Seq(Answers), NEW c \in Seq(Answers)
    PROVE  /\ (a \o b) \o c = (a \o (b \o c)) \o <<>>
           /\ (a \o b) \o c = ((a \o (b \o c)) \o <<>>) \o <<>>
<1>1. /\ b \o c \in Seq(Answers) /\ a \o (b \o c) \in Seq(Answers)
      /\ (a \o b) \o c = a \o (b \o c)
  BY ConcatProperties, ConcatAssociative
<1>2. (a \o (b \o c)) \o <<>> = a \o (b \o c)
  BY <1>1, ConcatEmptySeq
<1> QED
  BY <1>1, <1>2

(* ... and a write to a client that has gone loses what is in the buffer    *)
(* and in hand.                                                             *)
LEMMA LosesTwo ==
    ASSUME NEW a \in Seq(Answers), NEW b \in Seq(Answers), NEW c \in Seq(Answers)
    PROVE  Loses((a \o b) \o c, (a \o <<>>) \o <<>>)
<1>1. /\ b \o c \in Seq(Answers) /\ (a \o b) \o c = a \o (b \o c)
      /\ (a \o <<>>) \o <<>> = a \o <<>>
  BY ConcatProperties, ConcatAssociative, ConcatEmptySeq
<1> QED
  BY <1>1, LosesPart

(* The parts of the pipeline are sequences. *)
LEMMA PartsTyped ==
    ASSUME TypeOK, NEW r \in Requests
    PROVE  /\ received[r] \in Seq(Answers) /\ buffer[r] \in Seq(Answers)
           /\ held[r] \in Seq(Answers) /\ channel[r] \in Seq(Answers)
           /\ callback[r] \in Seq(Answers) /\ pending[r] \in Seq(Answers)
           /\ received[r] \o buffer[r] \in Seq(Answers)
           /\ received[r] \o buffer[r] \o held[r] \in Seq(Answers)
           /\ received[r] \o buffer[r] \o held[r] \o channel[r] \in Seq(Answers)
           /\ received[r] \o buffer[r] \o held[r] \o channel[r] \o callback[r] \in Seq(Answers)
           /\ Pipeline(r) \in Seq(Answers)
<1>1. /\ received[r] \in Seq(Answers) /\ buffer[r] \in Seq(Answers)
      /\ held[r] \in Seq(Answers) /\ channel[r] \in Seq(Answers)
      /\ callback[r] \in Seq(Answers) /\ pending[r] \in Seq(Answers)
  BY AtMostOneIsSeq DEF TypeOK
<1>2. received[r] \o buffer[r] \in Seq(Answers)
  BY <1>1, ConcatProperties
<1>3. received[r] \o buffer[r] \o held[r] \in Seq(Answers)
  BY <1>1, <1>2, ConcatProperties
<1>4. received[r] \o buffer[r] \o held[r] \o channel[r] \in Seq(Answers)
  BY <1>1, <1>3, ConcatProperties
<1>5. received[r] \o buffer[r] \o held[r] \o channel[r] \o callback[r] \in Seq(Answers)
  BY <1>1, <1>4, ConcatProperties
<1> QED
  BY <1>1, <1>2, <1>3, <1>4, <1>5, ConcatProperties DEF Pipeline

(* What a step does to the answers on the way: nothing, a loss for one of   *)
(* two reasons, or one more answer at the end.                              *)
MayLose(r) == Len(channel[r]) = ChanCap \/ Lossy(r)
Gains(r) ==
    \E x \in running :
       /\ Answer(x) /\ x.req = r
       /\ Pipeline(r)' = Append(Pipeline(r), [event |-> x.event, n |-> x.next])
Flows(r) ==
    \/ Pipeline(r)' = Pipeline(r)
    \/ MayLose(r) /\ Loses(Pipeline(r), Pipeline(r)')
    \/ Gains(r)

(* The handler takes an answer from the channel. *)
LEMMA TakeFlows ==
    ASSUME TypeOK, Stages, NEW r \in Requests, Take(r)
    PROVE  Flows(r)
<1>1. held[r] = <<>> /\ channel[r] # <<>>
  BY DEF Take, Stages, Stage
<1>2. /\ held'[r] = <<Head(channel[r])>> /\ channel'[r] = Tail(channel[r])
      /\ UNCHANGED <<received, buffer, callback, pending>>
  BY DEF Take, TypeOK
<1>3. (received[r] \o buffer[r] \o <<>>) \o channel[r]
      = (received[r] \o buffer[r] \o <<Head(channel[r])>>) \o Tail(channel[r])
  BY <1>1, PartsTyped, HeadMovesOn
<1>4. received'[r] \o buffer'[r] \o held'[r] \o channel'[r] \o callback'[r] \o pending'[r]
      = received[r] \o buffer[r] \o held[r] \o channel[r] \o callback[r] \o pending[r]
  BY <1>1, <1>2, <1>3
<1> QED
  BY <1>4 DEF Flows, Pipeline

(* It writes to an event stream or a websocket... *)
LEMMA WriteFlows ==
    ASSUME TypeOK, Stages, NEW r \in Requests, WriteStream(r) \/ WriteSocket(r)
    PROVE  Flows(r)
<1> DEFINE rest(p) == p \o channel[r] \o callback[r] \o pending[r]
<1>1. Pipeline(r) = rest((received[r] \o buffer[r]) \o held[r])
  BY DEF Pipeline
<1>2. UNCHANGED <<channel, callback, pending>> /\ held'[r] = <<>>
  BY DEF WriteStream, WriteSocket, TypeOK
<1>3. Pipeline(r)' = rest((received'[r] \o buffer'[r]) \o <<>>)
  BY <1>2 DEF Pipeline
<1>4. \/ received'[r] = received[r] /\ buffer'[r] = buffer[r] \o held[r]
      \/ received'[r] = received[r] \o (buffer[r] \o held[r]) /\ buffer'[r] = <<>>
      \/ received'[r] = received[r] /\ buffer'[r] = <<>> /\ Lossy(r)
  <2> USE DEF Lossy
  <2>3. conn[r] = "open" \/ Lossy(r)
    BY DEF WriteStream, WriteSocket, TypeOK, ConnStates, Stages, Stage
  <2>1. CASE WriteStream(r)
    BY <2>1, <2>3 DEF WriteStream, TypeOK
  <2>2. CASE WriteSocket(r)
    <3>1. buffer[r] = <<>> /\ buffer' = buffer /\ <<>> \o held[r] = held[r]
      BY <2>2, PartsTyped, ConcatEmptySeq DEF WriteSocket, Stages, Stage
    <3>2. \/ conn[r] = "open" /\ received'[r] = received[r] \o held[r]
          \/ Lossy(r) /\ received'[r] = received[r]
      BY <2>2, <2>3 DEF WriteSocket, TypeOK
    <3> QED BY <3>1, <3>2
  <2> QED BY <2>1, <2>2
<1> HIDE DEF rest
<1>5. received[r] \in Seq(Answers) /\ buffer[r] \in Seq(Answers) /\ held[r] \in Seq(Answers)
  BY PartsTyped
<1>6. CASE received'[r] = received[r] /\ buffer'[r] = buffer[r] \o held[r]
  <2>1. (received[r] \o buffer[r]) \o held[r] = (received[r] \o (buffer[r] \o held[r])) \o <<>>
    BY <1>5, PartsMoveOn
  <2> QED BY <1>1, <1>3, <1>6, <2>1 DEF Flows
<1>7. CASE received'[r] = received[r] \o (buffer[r] \o held[r]) /\ buffer'[r] = <<>>
  <2>1. (received[r] \o buffer[r]) \o held[r]
        = ((received[r] \o (buffer[r] \o held[r])) \o <<>>) \o <<>>
    BY <1>5, PartsMoveOn
  <2> QED BY <1>1, <1>3, <1>7, <2>1 DEF Flows
<1>8. CASE received'[r] = received[r] /\ buffer'[r] = <<>> /\ Lossy(r)
  <2>1. Loses((received[r] \o buffer[r]) \o held[r], (received[r] \o <<>>) \o <<>>)
    BY PartsTyped, LosesTwo
  <2>2. Loses(rest((received[r] \o buffer[r]) \o held[r]), rest((received[r] \o <<>>) \o <<>>))
    BY <2>1, PartsTyped, LosesInFront DEF rest
  <2> QED BY <1>1, <1>3, <1>8, <2>2 DEF Flows, MayLose
<1> QED
  BY <1>4, <1>6, <1>7, <1>8

(* ... and cleans up after a client that has gone. *)
LEMMA CleanupFlows ==
    ASSUME TypeOK, Stages, NEW r \in Requests, Unsubscribe(r) \/ CloseChannel(r)
    PROVE  Flows(r)
<1>1. Lossy(r)
  BY DEF Unsubscribe, CloseChannel, Stages, Stage
<1>2. CASE Unsubscribe(r)
  <2>1. pending'[r] = <<>> /\ UNCHANGED <<received, buffer, held, channel, callback>>
    BY <1>2 DEF Unsubscribe, TypeOK
  <2>2. Loses((received[r] \o buffer[r] \o held[r] \o channel[r] \o callback[r]) \o pending[r],
              (received[r] \o buffer[r] \o held[r] \o channel[r] \o callback[r]) \o <<>>)
    BY PartsTyped, LosesPart
  <2> QED BY <1>1, <2>1, <2>2 DEF Flows, MayLose, Pipeline
<1>3. CASE CloseChannel(r)
  <2>1. channel'[r] = <<>> /\ UNCHANGED <<received, buffer, held, callback, pending>>
    BY <1>3 DEF CloseChannel, TypeOK
  <2>2. Loses((received[r] \o buffer[r] \o held[r]) \o channel[r],
              (received[r] \o buffer[r] \o held[r]) \o <<>>)
    BY PartsTyped, LosesPart
  <2>3. Loses(((received[r] \o buffer[r] \o held[r]) \o channel[r]) \o callback[r] \o pending[r],
              ((received[r] \o buffer[r] \o held[r]) \o <<>>) \o callback[r] \o pending[r])
    BY <2>2, PartsTyped, LosesInFront
  <2> QED BY <1>1, <2>1, <2>3 DEF Flows, MayLose, Pipeline
<1> QED
  BY <1>2, <1>3

(* The subscription hands its callback an answer, and that sends it. *)
LEMMA CallbackFlows ==
    ASSUME TypeOK, Stages, NEW r \in Requests, Dispatch(r) \/ Deliver(r)
    PROVE  Flows(r)
<1> DEFINE front == received[r] \o buffer[r] \o held[r]
<1>1. front \in Seq(Answers) /\ front \o channel[r] \in Seq(Answers)
  BY PartsTyped
<1>2. UNCHANGED <<received, buffer, held>> /\ Pipeline(r) = front \o channel[r] \o callback[r] \o pending[r]
  BY DEF Dispatch, Deliver, Pipeline
<1>3. Pipeline(r)' = front \o channel'[r] \o callback'[r] \o pending'[r]
  BY <1>2 DEF Pipeline
<1> HIDE DEF front
<1>4. CASE Dispatch(r)
  <2>1. /\ callback[r] = <<>> /\ pending[r] # <<>> /\ UNCHANGED channel
        /\ callback'[r] = <<Head(pending[r])>> /\ pending'[r] = Tail(pending[r])
    BY <1>4 DEF Dispatch, TypeOK
  <2>2. ((front \o channel[r]) \o <<>>) \o pending[r]
        = ((front \o channel[r]) \o <<Head(pending[r])>>) \o Tail(pending[r])
    BY <1>1, <2>1, PartsTyped, HeadMovesOn
  <2> QED BY <1>2, <1>3, <2>1, <2>2 DEF Flows
<1>5. CASE Deliver(r)
  <2>1. callback'[r] = <<>> /\ UNCHANGED pending /\ callback[r] # <<>>
    BY <1>5 DEF Deliver, TypeOK
  <2>2. \/ channel'[r] = channel[r] \o callback[r]
        \/ channel' = channel /\ MayLose(r)
    <3>1. handler[r] = "done" => Lossy(r)
      BY <2>1 DEF Stages, Stage
    <3>2. channel[r] \in Seq(Answers) /\ Len(channel[r]) \in Nat /\ Len(channel[r]) <= ChanCap
      BY LenProperties DEF TypeOK
    <3>3. Len(channel[r]) < ChanCap \/ Len(channel[r]) = ChanCap
      BY <3>2
    <3> QED BY <1>5, <3>1, <3>3 DEF Deliver, MayLose, TypeOK
  <2>3. CASE channel'[r] = channel[r] \o callback[r]
    <3>1. (front \o channel[r]) \o callback[r] = (front \o (channel[r] \o callback[r])) \o <<>>
      <4>1. channel[r] \in Seq(Answers) /\ callback[r] \in Seq(Answers)
        BY PartsTyped
      <4> QED BY <1>1, <4>1, PartsMoveOn
    <3> QED BY <1>2, <1>3, <2>1, <2>3, <3>1 DEF Flows
  <2>4. CASE channel' = channel /\ MayLose(r)
    <3>1. Loses((front \o channel[r]) \o callback[r], (front \o channel[r]) \o <<>>)
      BY <1>1, PartsTyped, LosesPart
    <3>2. Loses((front \o channel[r]) \o callback[r] \o pending[r],
                (front \o channel[r]) \o <<>> \o pending[r])
      BY <3>1, PartsTyped, LosesInFront
    <3> QED BY <1>2, <1>3, <2>1, <2>4, <3>2 DEF Flows
  <2> QED BY <2>2, <2>3, <2>4
<1> QED
  BY <1>4, <1>5

(* The function gives an answer. *)
LEMMA AnswerFlows ==
    ASSUME TypeOK, NEW x \in running, Answer(x)
    PROVE  \A r \in Requests : Flows(r)
<1>1. /\ x.req \in Requests /\ x.event \in 1..MaxEvents /\ x.next \in 1..MaxAnswers
      /\ UNCHANGED <<received, buffer, held, channel, callback>>
  BY DEF Answer, TypeOK
<1>2. [event |-> x.event, n |-> x.next] \in Answers
  BY <1>1 DEF Answers
<1>3. \/ UNCHANGED pending
      \/ pending' = [pending EXCEPT ![x.req] = Append(pending[x.req], [event |-> x.event, n |-> x.next])]
  BY DEF Answer
<1>4. ASSUME NEW r \in Requests, pending'[r] = pending[r] PROVE Flows(r)
  BY <1>1, <1>4 DEF Flows, Pipeline
<1>5. ASSUME pending'[x.req] = Append(pending[x.req], [event |-> x.event, n |-> x.next])
      PROVE  Flows(x.req)
  <2>1. Pipeline(x.req)' = Append(Pipeline(x.req), [event |-> x.event, n |-> x.next])
    <3> DEFINE front == received[x.req] \o buffer[x.req] \o held[x.req] \o channel[x.req]
                           \o callback[x.req]
               a == [event |-> x.event, n |-> x.next]
    <3>1. front \in Seq(Answers) /\ pending[x.req] \in Seq(Answers) /\ a \in Answers
      BY <1>1, <1>2, PartsTyped
    <3>2. Pipeline(x.req) = front \o pending[x.req] /\ Pipeline(x.req)' = front \o Append(pending[x.req], a)
      BY <1>1, <1>5 DEF Pipeline
    <3> HIDE DEF front, a
    <3>3. front \o Append(pending[x.req], a) = Append(front \o pending[x.req], a)
      BY <3>1, AppendBehind
    <3> QED BY <3>2, <3>3 DEF a
  <2> QED BY <2>1 DEF Flows, Gains
<1> QED
  BY <1>1, <1>3, <1>4, <1>5 DEF TypeOK

(* No other step touches the answers. *)
LEMMA NextFlows ==
    ASSUME TypeOK, Stages, [Next]_vars
    PROVE  \A r \in Requests : Flows(r)
<1>1. ASSUME NEW r \in Requests, Flows(r),
             \A q \in Requests \ {r} : /\ received'[q] = received[q] /\ buffer'[q] = buffer[q]
                                      /\ held'[q] = held[q] /\ channel'[q] = channel[q]
                                      /\ callback'[q] = callback[q] /\ pending'[q] = pending[q]
      PROVE  \A q \in Requests : Flows(q)
  BY <1>1 DEF Flows, Pipeline
<1>2. ASSUME NEW r \in Requests,
             \/ Take(r) \/ WriteStream(r) \/ WriteSocket(r) \/ Unsubscribe(r) \/ CloseChannel(r)
             \/ Dispatch(r) \/ Deliver(r)
      PROVE  \A q \in Requests : Flows(q)
  <2>1. Flows(r)
    BY <1>2, TakeFlows, WriteFlows, CleanupFlows, CallbackFlows
  <2>2. \A q \in Requests \ {r} : /\ received'[q] = received[q] /\ buffer'[q] = buffer[q]
                                  /\ held'[q] = held[q] /\ channel'[q] = channel[q]
                                  /\ callback'[q] = callback[q] /\ pending'[q] = pending[q]
    BY <1>2 DEF Take, WriteStream, WriteSocket, Unsubscribe, CloseChannel, Dispatch, Deliver, TypeOK
  <2> QED BY <1>1, <2>1, <2>2
<1>3. ASSUME NEW r \in Requests,
             \/ Activated(r) \/ Rejected(r) \/ Submit(r) \/ SubmitFails(r) \/ SubscribeFails(r)
             \/ ContextDone(r) \/ Produce(r) \/ ProduceFails(r) \/ ReaderEnds(r) \/ Disconnect(r) \/ Subscribe(r)
      PROVE  UNCHANGED <<received, buffer, held, channel, callback, pending>>
  BY <1>3 DEF Activated, Rejected, Submit, SubmitFails, SubscribeFails, ContextDone, Produce,
              ProduceFails, ReaderEnds, Disconnect, Subscribe,
              answerVars
<1>4. ASSUME \/ StartEvent \/ Boot \/ Listen \/ Stop \/ UNCHANGED vars
             \/ \E x \in running : EndEvent(x)
      PROVE  UNCHANGED <<received, buffer, held, channel, callback, pending>>
  BY <1>4 DEF StartEvent, Boot, Listen, Stop, EndEvent, vars, answerVars
<1>5. ASSUME UNCHANGED <<received, buffer, held, channel, callback, pending>>
      PROVE  \A q \in Requests : Flows(q)
  BY <1>5 DEF Flows, Pipeline
<1> QED
  BY <1>2, <1>3, <1>4, <1>5, AnswerFlows, NextSteps DEF IngestorStep, RuntimeStep

------------------------------------------------------------------------------
(* An event in execution was so, with fewer answers, or is a new one. *)
LEMMA RunningGoesOn ==
    ASSUME TypeOK, EventsInOrder, EventsRunOnce, [Next]_vars
    PROVE  /\ executed \subseteq executed'
           /\ \A y \in running' :
                 \/ \E x \in running : x.req = y.req /\ x.event = y.event /\ x.next <= y.next
                 \/ [req |-> y.req, event |-> y.event] \notin executed
<1> DEFINE Goal == /\ executed \subseteq executed'
                   /\ \A y \in running' :
                         \/ \E x \in running : x.req = y.req /\ x.event = y.event /\ x.next <= y.next
                         \/ [req |-> y.req, event |-> y.event] \notin executed
<1>1. \A x \in running : x.next \in Nat /\ x.next <= x.next
  BY DEF TypeOK
<1>2. CASE StartEvent
  <2> DEFINE e == Head(inbox)
             x == [req |-> e.req, event |-> e.event, next |-> 1]
  <2>1. /\ e \in Events /\ running' = running \cup {x} /\ executed' = executed \cup {e}
    BY <1>2, StartKeepsOrder DEF StartEvent
  <2>2. x.req = e.req /\ x.event = e.event /\ [req |-> e.req, event |-> e.event] = e /\ e.event \in Nat
    BY <2>1 DEF Events
  <2>3. \A d \in executed : d.req = e.req => d.event < e.event
    BY <1>2, StartKeepsOrder DEF EventsInOrder
  <2> HIDE DEF e, x
  <2>4. [req |-> x.req, event |-> x.event] \notin executed
    BY <2>2, <2>3
  <2> QED BY <1>1, <2>1, <2>4
<1>3. CASE Stop
  BY <1>3 DEF Stop
<1>4. ASSUME NEW x \in running, Answer(x) PROVE Goal
  <2> DEFINE w == [x EXCEPT !.next = @ + 1]
  <2>1. x \in [req: Requests, event: 1..MaxEvents, next: 1..MaxAnswers + 1]
    BY DEF TypeOK
  <2>2. w.req = x.req /\ w.event = x.event /\ x.next <= w.next
    BY <2>1
  <2>3. running' = (running \ {x}) \cup {w} /\ executed' = executed
    BY <1>4 DEF Answer
  <2> HIDE DEF w
  <2> QED BY <1>1, <2>2, <2>3
<1>5. ASSUME NEW x \in running, EndEvent(x) PROVE Goal
  BY <1>1, <1>5 DEF EndEvent
<1>6. ASSUME NEW r \in Requests, IngestorStep(r) \/ Disconnect(r) PROVE UNCHANGED <<running, executed>>
  BY <1>6 DEF IngestorStep, Activated, Rejected, Submit, SubmitFails, Subscribe, SubscribeFails, Take, WriteStream, WriteSocket,
              ContextDone, Unsubscribe, CloseChannel, Produce, ProduceFails, ReaderEnds, Dispatch, Deliver,
              Disconnect, runtimeVars
<1>7. ASSUME Boot \/ Listen \/ UNCHANGED vars PROVE UNCHANGED <<running, executed>>
  BY <1>7 DEF Boot, Listen, vars, runtimeVars
<1>8. ASSUME UNCHANGED <<running, executed>> PROVE Goal
  BY <1>1, <1>8
<1> QED
  BY <1>2, <1>3, <1>4, <1>5, <1>6, <1>7, <1>8, NextSteps DEF RuntimeStep

(* The order and the pipeline in terms of sequences. *)
LEMMA OrderOfPipeline ==
    /\ AnswersInOrder <=> \A r \in Requests : InOrder(Pipeline(r))
    /\ AnswersInOrder' <=> \A r \in Requests : InOrder(Pipeline(r)')
    /\ \A r \in Requests : InPipeline(r) = Elements(Pipeline(r))
    /\ \A r \in Requests : InPipeline(r)' = Elements(Pipeline(r)')
BY DEF AnswersInOrder, InOrder, Before, InPipeline, Elements

(* Elements of a sequence of answers are answers. *)
LEMMA ElementsTyped ==
    ASSUME NEW s \in Seq(Answers)
    PROVE  Elements(s) \subseteq Answers
BY ElementOfSeq DEF Elements

(* So is what a running function answers. *)
LEMMA AnswerTyped ==
    ASSUME TypeOK, NEW x \in running, Answer(x)
    PROVE  /\ x \in [req: Requests, event: 1..MaxEvents, next: 1..MaxAnswers + 1]
           /\ [event |-> x.event, n |-> x.next] \in Answers
<1>1. x \in [req: Requests, event: 1..MaxEvents, next: 1..MaxAnswers + 1]
  BY DEF TypeOK
<1>2. x.next <= MaxAnswers
  BY DEF Answer
<1>3. x.event \in 1..MaxEvents /\ x.next \in 1..MaxAnswers
  BY <1>1, <1>2, BoundsAssumption
<1> QED
  BY <1>1, <1>3 DEF Answers

(* What was given was given before... *)
LEMMA NextGiven ==
    ASSUME TypeOK, Stages, EventsInOrder, EventsRunOnce, AnswersWereGiven, [Next]_vars
    PROVE  AnswersWereGiven'
<1> SUFFICES ASSUME NEW r \in Requests, NEW a \in Elements(Pipeline(r)')
             PROVE  /\ [req |-> r, event |-> a.event] \in executed'
                    /\ \A y \in running' : y.req = r /\ y.event = a.event => a.n < y.next
  BY OrderOfPipeline DEF AnswersWereGiven
<1>1. CASE a \in Elements(Pipeline(r))
  <2>1. /\ [req |-> r, event |-> a.event] \in executed
        /\ \A x \in running : x.req = r /\ x.event = a.event => a.n < x.next
    BY <1>1, OrderOfPipeline DEF AnswersWereGiven
  <2>2. a.n \in Nat
    <3>1. Pipeline(r) \in Seq(Answers)
      BY PartsTyped
    <3>2. a \in Answers
      BY <1>1, <3>1, ElementsTyped
    <3> QED BY <3>2 DEF Answers
  <2>3. ASSUME NEW y \in running', y.req = r, y.event = a.event PROVE a.n < y.next
    <3>1. PICK x \in running : x.req = y.req /\ x.event = y.event /\ x.next <= y.next
      BY <2>1, <2>3, RunningGoesOn
    <3>2. x.next \in Nat /\ y.next \in Nat /\ a.n < x.next
      <4>1. y \in [req: Requests, event: 1..MaxEvents, next: 1..MaxAnswers + 1]
        BY NextTyped DEF TypeOK
      <4>2. x \in [req: Requests, event: 1..MaxEvents, next: 1..MaxAnswers + 1]
        BY DEF TypeOK
      <4> QED BY <2>1, <2>3, <3>1, <4>1, <4>2
    <3> QED BY <2>2, <3>1, <3>2
  <2> QED BY <2>1, <2>3, RunningGoesOn
<1>2. CASE a \notin Elements(Pipeline(r))
  <2>1. Gains(r)
    BY <1>2, NextFlows, LosesKeepsOrder DEF Flows
  <2>2. PICK x \in running :
           /\ Answer(x) /\ x.req = r
           /\ Pipeline(r)' = Append(Pipeline(r), [event |-> x.event, n |-> x.next])
    BY <2>1 DEF Gains
  <2>3. /\ x \in [req: Requests, event: 1..MaxEvents, next: 1..MaxAnswers + 1]
        /\ [event |-> x.event, n |-> x.next] \in Answers
    BY <2>2, AnswerTyped
  <2>4. a = [event |-> x.event, n |-> x.next]
    BY <1>2, <2>2, <2>3, PartsTyped, AppendKeepsOrder
  <2>5. running' = (running \ {x}) \cup {[x EXCEPT !.next = @ + 1]} /\ executed' = executed
    BY <2>2 DEF Answer
  <2>6. [req |-> r, event |-> x.event] \in executed
    BY <2>2 DEF EventsRunOnce
  <2>7. ASSUME NEW y \in running', y.req = r, y.event = x.event PROVE x.next < y.next
    <3>1. y \notin running \ {x}
      BY <2>2, <2>7 DEF EventsRunOnce
    <3>2. y = [x EXCEPT !.next = @ + 1]
      BY <2>5, <3>1
    <3> QED BY <2>3, <3>2
  <2> QED BY <2>4, <2>5, <2>6, <2>7
<1> QED
  BY <1>1, <1>2

(* ... and stays in order. *)
LEMMA NextOrder ==
    ASSUME TypeOK, Stages, EventsRunOnce, AnswersWereGiven, AnswersInOrder, [Next]_vars
    PROVE  AnswersInOrder'
<1> SUFFICES ASSUME NEW r \in Requests PROVE InOrder(Pipeline(r)')
  BY OrderOfPipeline
<1>1. InOrder(Pipeline(r)) /\ Pipeline(r) \in Seq(Answers)
  BY OrderOfPipeline, PartsTyped
<1>2. CASE Pipeline(r)' = Pipeline(r)
  BY <1>1, <1>2
<1>3. CASE Loses(Pipeline(r), Pipeline(r)')
  BY <1>1, <1>3, LosesKeepsOrder
<1>4. CASE Gains(r)
  <2>1. PICK x \in running :
           /\ Answer(x) /\ x.req = r
           /\ Pipeline(r)' = Append(Pipeline(r), [event |-> x.event, n |-> x.next])
    BY <1>4 DEF Gains
  <2> DEFINE a == [event |-> x.event, n |-> x.next]
  <2>2. a \in Answers /\ a.event = x.event /\ a.n = x.next
    BY <2>1, AnswerTyped
  <2>3. ASSUME NEW b \in Elements(Pipeline(r)) PROVE Before(b, a)
    <3>1. /\ [req |-> r, event |-> b.event] \in executed
          /\ x.event = b.event => b.n < x.next
      BY <2>1, OrderOfPipeline DEF AnswersWereGiven
    <3>2. Serial => b.event <= x.event
      BY <2>1, <3>1 DEF EventsRunOnce
    <3>3. b.event \in Nat /\ x.event \in Nat
      <4>1. b \in Answers /\ x \in [req: Requests, event: 1..MaxEvents, next: 1..MaxAnswers + 1]
        BY <1>1, ElementsTyped DEF TypeOK
      <4> QED BY <4>1 DEF Answers
    <3>4. b.event = x.event \/ b.event < x.event \/ (b.event > x.event /\ ~Serial)
      BY <3>2, <3>3
    <3> QED BY <2>2, <3>1, <3>4 DEF Before
  <2> HIDE DEF a
  <2>4. InOrder(Append(Pipeline(r), a))
    BY <1>1, <2>2, <2>3, AppendKeepsOrder
  <2> QED BY <2>1, <2>4 DEF a
<1> QED
  BY <1>2, <1>3, <1>4, NextFlows DEF Flows

------------------------------------------------------------------------------
(* At first nothing is on its way. *)
LEMMA InitInv == Init => IInv
<1> SUFFICES ASSUME Init PROVE IInv
  OBVIOUS
<1>1. <<>> \in Seq(Answers) /\ <<>> \in Seq(Events) /\ <<>> \in AtMostOne(Answers) /\ Len(<<>>) = 0
  BY EmptySeq, AtMostOneIsSeq
<1>2. TypeOK
  <2>1. RequestTypes
    BY DEF Init, RequestTypes, HandlerSteps, ConnStates
  <2>2. RuntimeTypes
    BY <1>1 DEF Init, RuntimeTypes
  <2>3. AnswerTypes
    BY <1>1 DEF Init, AnswerTypes
  <2>4. crashed \in BOOLEAN
    BY DEF Init
  <2> QED BY <2>1, <2>2, <2>3, <2>4, TypesAreParts
<1>3. Stages
  BY DEF Init, Stages, Stage, Lossy
<1>4. EventsInOrder /\ EventsRunOnce
  BY <1>1 DEF Init, EventsInOrder, EventsRunOnce
<1>5. \A r \in Requests : Len(Pipeline(r)) = 0
  BY <1>1, ConcatEmptySeq DEF Init, Pipeline
<1>6. AnswersWereGiven /\ AnswersInOrder
  BY <1>5 DEF AnswersWereGiven, AnswersInOrder, InPipeline
<1> QED
  BY <1>2, <1>3, <1>4, <1>6 DEF IInv

(* Every step keeps it all. *)
LEMMA NextInv == IInv /\ [Next]_vars => IInv'
BY NextTyped, NextStages, NextEvents, NextRunning, NextGiven, NextOrder DEF IInv

(* The invariant holds in every reachable state. *)
THEOREM Invariance == Spec => []IInv
BY InitInv, NextInv, PTL DEF Spec

(* The types, in every reachable state. *)
THEOREM Types == Spec => []TypeOK
<1>1. IInv => TypeOK
  BY DEF IInv
<1> QED
  BY <1>1, Invariance, PTL

(* Through two buffers, a callback and a handler the answers to one event   *)
(* stay in the order they were given in, each at most once; and a serial    *)
(* runtime's to successive events.                                          *)
THEOREM AnswersStayInOrder == Spec => []AnswersInOrder
<1>1. IInv => AnswersInOrder
  BY DEF IInv
<1> QED
  BY <1>1, Invariance, PTL

(* A step loses an answer on its way only if the channel is full, the       *)
(* client has gone, or NATS refused an event and the connection was closed. *)
THEOREM LossesHaveAReason == Spec => NoSilentLoss
<1> DEFINE A == \A r \in Requests :
                   ~(InPipeline(r) \subseteq InPipeline(r)') =>
                      Len(channel[r]) = ChanCap \/ conn[r] \in {"gone", "refused"}
<1>1. IInv /\ [Next]_vars => [A]_vars
  <2> SUFFICES ASSUME IInv, [Next]_vars, NEW r \in Requests, ~MayLose(r)
               PROVE  Elements(Pipeline(r)) \subseteq Elements(Pipeline(r)')
    BY OrderOfPipeline DEF MayLose, Lossy
  <2>1. CASE Pipeline(r)' = Pipeline(r)
    BY <2>1
  <2>2. CASE Gains(r)
    <3>1. PICK x \in running :
             /\ Answer(x) /\ x.req = r
             /\ Pipeline(r)' = Append(Pipeline(r), [event |-> x.event, n |-> x.next])
      BY <2>2 DEF Gains
    <3>2. [event |-> x.event, n |-> x.next] \in Answers
      BY <3>1 DEF IInv, TypeOK, Answer, Answers
    <3> QED BY <3>1, <3>2, PartsTyped, AppendKeepsOrder DEF IInv
  <2> QED BY <2>1, <2>2, NextFlows DEF IInv, Flows
<1> QED
  BY <1>1, Invariance, PTL DEF Spec, NoSilentLoss
===============================================================================
