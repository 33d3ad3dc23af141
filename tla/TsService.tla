------------------------------ MODULE TsService ------------------------------
(***************************************************************************)
(* The TypeScript runtime with what it is for: requests that the ingestor  *)
(* passes on over HTTP, and events that a consumer task per function takes *)
(* from NATS, while TsRuntime boots and refreshes the code under them.     *)
(*                                                                         *)
(* A request or a task invokes a function: it has the module loaded, calls *)
(* its handle, and takes what that returns, one value or many items that   *)
(* come one after another.  A request is answered with the first item, once *)
(* what yields them has been told to stop; a task publishes every item on  *)
(* the subject of its event, and only then takes the next event.  The      *)
(* module, handle and what it returns are the user's: they may throw, and  *)
(* they may leave what awaits them waiting for ever.                       *)
(***************************************************************************)
EXTENDS TsRuntime, Sequences

CONSTANTS
    Clients,    \* HTTP requests
    MaxTasks,   \* consumer tasks of a function that have not ended yet
    MaxEvents,  \* events that are published
    MaxItems    \* items that a handle yields for an event

(* The tasks of a function: the one that is subscribed, and cancelled ones *)
(* that have not ended yet.                                                *)
Tasks == Functions \X (1..MaxTasks)

ASSUME LoadsAssumption == Loads = Clients \cup Tasks /\ Clients \cap Tasks = {}
ASSUME LimitsAssumption ==
    MaxTasks \in Nat \ {0} /\ MaxEvents \in Nat /\ MaxItems \in Nat \ {0}

VARIABLES
    live,     \* tasks whose subscription is open
    inbox,    \* events pending at the subscription of each task
    calls,    \* the invocation each request or task has under way; n counts the
              \* items after which another one was asked for
    sent,     \* how many events were published
    answers,  \* the answers published to each event, by number
    asked     \* requests that were made

taskVars == <<live, inbox, sent>>
serviceVars == <<taskVars, calls, answers, asked>>
allVars == <<vars, serviceVars>>

Events == 1..MaxEvents
NoCall == [step |-> "idle", fn |-> NoFunction, event |-> 0, n |-> 0]

ServiceTypeOK ==
    /\ TypeOK
    /\ live \subseteq Tasks
    /\ inbox \in [Tasks -> Seq(Events)]
    /\ calls \in [Loads -> {NoCall} \cup
                     [step: {"load", "run", "return", "hung"}, fn: Functions,
                      event: 0..MaxEvents, n: 0..MaxItems]]
    /\ sent \in 0..MaxEvents
    /\ answers \in [Events -> Seq(1..MaxItems)]
    /\ asked \subseteq Clients

ServiceInit ==
    /\ Init
    /\ live = {}
    /\ inbox = [t \in Tasks |-> <<>>]
    /\ calls = [l \in Loads |-> NoCall]
    /\ sent = 0
    /\ answers = [e \in Events |-> <<>>]
    /\ asked = {}

------------------------------------------------------------------------------
(* invokeModule: the module is in the cache, or has to be loaded. *)

Goto(l, step) == calls' = [calls EXCEPT ![l].step = step]

Begin(l, f, e) ==
    LET call(step) == [step |-> step, fn |-> f, event |-> e, n |-> 0] IN
    /\ calls[l] = NoCall
    /\ \/ /\ modules[f] # NoModule
          /\ calls' = [calls EXCEPT ![l] = call("run")]
          /\ UNCHANGED vars
       \/ /\ Invoke(l, f)
          /\ calls' = [calls EXCEPT ![l] = call("load")]

(* A request has been answered, or a task goes on to its next event. *)
End(l) == calls' = [calls EXCEPT ![l] = NoCall]

(* Variant: an error ends the loop over the events. *)
FailsForGood(l) == IF l \in Clients THEN End(l) ELSE Goto(l, "ended")

(* An error is the answer to a request, with the status 404 if its text has *)
(* the words "not found" in it and else 500; a task logs it.                *)
Fails(l) == End(l)

LoadGoesOn(l) == Resolve(l) /\ UNCHANGED serviceVars

LoadNotFound(l) == NotFound(l) /\ Fails(l) /\ UNCHANGED <<taskVars, answers, asked>>

LoadImports(l) ==
    /\ Import(l)
    /\ IF loads'[l] = NoLoad THEN Fails(l) ELSE UNCHANGED calls
    /\ UNCHANGED <<taskVars, answers, asked>>

(* Evaluating the module throws, or waits at its top level for ever. *)
LoadFails(l) ==
    /\ ImportFails(l)
    /\ Fails(l) \/ Goto(l, "hung")
    /\ UNCHANGED <<taskVars, answers, asked>>

Loaded(l) == StoreModule(l) /\ Goto(l, "run") /\ UNCHANGED <<taskVars, answers, asked>>

Publish(t) ==
    LET e == calls[t].event IN answers' = [answers EXCEPT ![e] = Append(@, calls[t].n + 1)]

(* handle returned nothing, a Response or a value: one item. *)
ReturnsOne(l) ==
    /\ calls[l].step = "run" /\ calls[l].n = 0
    /\ IF l \in Clients THEN UNCHANGED answers ELSE Publish(l)
    /\ End(l)
    /\ UNCHANGED <<vars, taskVars, asked>>

(* Variant: a request, too, goes through all the items. *)
ItemTaken(l) ==
    /\ calls[l].step = "run" /\ calls[l].n < MaxItems
    /\ IF l \in Clients THEN UNCHANGED answers ELSE Publish(l)
    /\ calls' = [calls EXCEPT ![l].n = @ + 1]
    /\ UNCHANGED <<vars, taskVars, asked>>

(* handle returned something to iterate over: one item of many.  It will be *)
(* the answer to a request, which breaks off the iteration and waits for    *)
(* the iterator's return, where the user's finally blocks run.              *)
NextItem(l) ==
    /\ calls[l].step = "run" /\ calls[l].n < MaxItems
    /\ IF l \in Clients
       THEN Goto(l, "return") /\ UNCHANGED answers
       ELSE Publish(l) /\ calls' = [calls EXCEPT ![l].n = @ + 1]
    /\ UNCHANGED <<vars, taskVars, asked>>

Answered(c) ==
    /\ calls[c].step = "return"
    /\ End(c)
    /\ UNCHANGED <<vars, taskVars, answers, asked>>

(* A request that got no item has an empty answer. *)
ItemsEnd(l) ==
    /\ calls[l].step = "run"
    /\ End(l)
    /\ UNCHANGED <<vars, taskVars, answers, asked>>

(* Also when the module exports no handle. *)
Throws(l) ==
    /\ calls[l].step \in {"run", "return"}
    /\ Fails(l)
    /\ UNCHANGED <<vars, taskVars, answers, asked>>

(* A handle that never returns, an item that never comes, or a finally that *)
(* does not end.                                                            *)
Hangs(l) ==
    /\ calls[l].step \in {"run", "return"}
    /\ Goto(l, "hung")
    /\ UNCHANGED <<vars, taskVars, answers, asked>>

------------------------------------------------------------------------------
(* Requests and events. *)

(* Without a name, in the header or in NAME, the answer is 400. *)
NoName(c) ==
    /\ watching
    /\ c \notin asked
    /\ "NAME" \notin Env
    /\ asked' = asked \cup {c}
    /\ UNCHANGED <<vars, taskVars, calls, answers>>

Request(c, f) ==
    /\ watching
    /\ c \notin asked
    /\ asked' = asked \cup {c}
    /\ Begin(c, f, 0)
    /\ UNCHANGED <<taskVars, answers>>

(* Core NATS: every open subscription gets the event.  One that nobody is    *)
(* subscribed to is as good as not sent.                                     *)
Event(f) ==
    /\ sent < MaxEvents
    /\ \E t \in live : t[1] = f
    /\ sent' = sent + 1
    /\ inbox' = [t \in Tasks |-> IF t \in live /\ t[1] = f THEN Append(inbox[t], sent + 1)
                                 ELSE inbox[t]]
    /\ UNCHANGED <<vars, live, calls, answers, asked>>

TakeEvent(t) ==
    /\ inbox[t] # <<>>
    /\ Begin(t, t[1], Head(inbox[t]))
    /\ inbox' = [inbox EXCEPT ![t] = Tail(@)]
    /\ UNCHANGED <<live, sent, answers, asked>>

(* A subscription that is cancelled may or may not hand out what it has. *)
DropInbox(t) ==
    /\ t \notin live
    /\ inbox[t] # <<>>
    /\ inbox' = [inbox EXCEPT ![t] = <<>>]
    /\ UNCHANGED <<vars, live, calls, sent, answers, asked>>

------------------------------------------------------------------------------
(* TsRuntime, and what its steps do to tasks and calls. *)

Ended(t) == t \notin live /\ inbox[t] = <<>> /\ calls[t] = NoCall

FreeTasks(f) == {t \in Tasks : t[1] = f /\ Ended(t)}

(* consumeFunction subscribes and starts a task. *)
NewTask(f) == CHOOSE t \in FreeTasks(f) : TRUE

(* cancel() unsubscribes, and leaves the task to what it has. *)
Reconcile ==
    LET started == {f \in Functions : consumers'[f] > consumers[f]}
        kept == {t \in live : consumers'[t[1]] # 0} IN
    /\ ReconcileConsumers
    /\ \A f \in started : FreeTasks(f) # {}
    /\ live' = kept \cup {NewTask(f) : f \in started}
    /\ UNCHANGED <<inbox, calls, sent, answers, asked>>

Dies ==
    /\ Killed
    /\ live' = {}
    /\ inbox' = [t \in Tasks |-> <<>>]
    /\ calls' = [l \in Loads |-> NoCall]
    /\ UNCHANGED <<sent, answers, asked>>

RuntimeStep ==
    /\ \/ Boot \/ Connect \/ AddStream
       \/ HookReceived \/ CloneRepo \/ FetchRepo \/ ResetMain \/ ResetMaster
       \/ StartCopy \/ ClearModuleCache
       \/ \E f \in Functions : RemoveFile(f) \/ CopyFile(f)
    /\ UNCHANGED serviceVars

Outside ==
    /\ \/ \E f \in Functions : Commit(f) \/ Remove(f)
       \/ RunFails \/ FilesFail
    /\ UNCHANGED serviceVars

Hook == RuntimeHook /\ UNCHANGED serviceVars

CallLoads(l) ==
    LoadGoesOn(l) \/ LoadNotFound(l) \/ LoadImports(l) \/ LoadFails(l) \/ Loaded(l)

HandleStep(l) ==
    ReturnsOne(l) \/ NextItem(l) \/ Answered(l) \/ ItemsEnd(l) \/ Throws(l) \/ Hangs(l)

ServiceNext ==
    \/ RuntimeStep \/ Reconcile \/ Outside \/ Hook \/ Dies
    \/ \E l \in Loads : CallLoads(l) \/ HandleStep(l)
    \/ \E c \in Clients : NoName(c) \/ \E f \in Functions : Request(c, f)
    \/ \E f \in Functions : Event(f)
    \/ \E t \in Tasks : TakeEvent(t) \/ DropInbox(t)

ServiceSpec == ServiceInit /\ [][ServiceNext]_allVars

EventLoop ==
    \/ RuntimeStep \/ Reconcile
    \/ \E l \in Loads : CallLoads(l) \/ HandleStep(l)
    \/ \E t \in Tasks : TakeEvent(t)

(* The event loop turns while there is something to do, and the workflow    *)
(* calls the hook: together they do not stop before both are done.          *)
ServiceFairness == WF_allVars(EventLoop \/ Hook)

FairServiceSpec == ServiceSpec /\ ServiceFairness

------------------------------------------------------------------------------
(* What is published to an event is the answers of one execution, in order. *)
(* Two subscriptions for one function would execute it twice.               *)
AnswersAreOneRun ==
    \A e \in Events : answers[e] = [i \in 1..Len(answers[e]) |-> i]

(* A request is answered unless the function hangs: in its module, in       *)
(* handle, before the first item or in the clean-up after it.  No second    *)
(* item is asked for, an error becomes a status, and neither a refresh nor  *)
(* the invocations of others hold the answer up.                            *)
RequestIsAnswered ==
    \A c \in Clients :
       []<>(calls[c] = NoCall \/ (calls[c].step = "hung" /\ calls[c].n = 0))

(* The events of a function go on being taken unless it hangs on one: an    *)
(* error does not end the task, and neither a refresh, nor a request or a   *)
(* cancelled task that hangs, holds up a task.                              *)
EventsGoOn ==
    \A f \in Functions :
       []<>(\A t \in Tasks : t[1] = f => inbox[t] = <<>> \/ calls[t].step = "hung")
==============================================================================
