-------------------------- MODULE TsService_proofs --------------------------
(***************************************************************************)
(* Proofs about TsService: whatever requests and events do, the runtime    *)
(* under them behaves as TsRuntime says, so that what is proved there      *)
(* holds here; and the answers to an event are those of one execution.     *)
(***************************************************************************)
EXTENDS TsService, TsRuntime_proofs

(* A step of the service is a step of the runtime, or none. *)
LEMMA ServiceStepIsRuntimeStep == ServiceNext => [Next]_vars
<1>1. RuntimeStep \/ Reconcile => SyncStep
  BY DEF RuntimeStep, Reconcile, SyncStep
<1>2. Outside \/ Hook \/ Dies => Next
  BY DEF Outside, Hook, Dies, Next
<1>3. ASSUME NEW l \in Loads, CallLoads(l) PROVE LoadStep(l)
  BY <1>3 DEF CallLoads, LoadGoesOn, LoadNotFound, LoadImports, LoadFails, Loaded, LoadStep
<1>4. ASSUME NEW l \in Loads, HandleStep(l) PROVE UNCHANGED vars
  BY <1>4 DEF HandleStep, ReturnsOne, NextItem, Answered, ItemsEnd, Throws, Hangs
<1>5. ASSUME NEW l, NEW f, NEW e, Begin(l, f, e) PROVE UNCHANGED vars \/ Invoke(l, f)
  BY <1>5 DEF Begin
<1>6. ASSUME NEW c \in Clients, NEW f \in Functions, Request(c, f) PROVE [Next]_vars
  BY <1>5, <1>6, LoadsAssumption DEF Request, Next
<1>7. ASSUME NEW t \in Tasks, TakeEvent(t) PROVE [Next]_vars
  <2>1. t \in Loads /\ t[1] \in Functions
    BY LoadsAssumption DEF Tasks
  <2> QED
    BY <1>5, <1>7, <2>1 DEF TakeEvent, Next
<1>8. /\ \A c \in Clients : NoName(c) => UNCHANGED vars
      /\ \A f \in Functions : Event(f) => UNCHANGED vars
      /\ \A t \in Tasks : DropInbox(t) => UNCHANGED vars
  BY DEF NoName, Event, DropInbox
<1> QED
  BY <1>1, <1>2, <1>3, <1>4, <1>6, <1>7, <1>8 DEF ServiceNext, Next

(* Requests and events leave the runtime to its own steps: the service      *)
(* implements TsRuntime.                                                    *)
THEOREM ServiceIsRuntime == ServiceSpec => Spec
<1>1. ServiceInit => Init
  BY DEF ServiceInit
<1>2. [ServiceNext]_allVars => [Next]_vars
  BY ServiceStepIsRuntimeStep DEF allVars
<1> QED
  BY <1>1, <1>2, PTL DEF ServiceSpec, Spec

(* So the modules that requests and events run are fresh after a refresh,   *)
(* every function has one consumer exactly if it has a file, and a request  *)
(* or an event that finds no function was right not to, or came while the   *)
(* files were replaced.                                                     *)
THEOREM ServedCodeCorrect ==
    ServiceSpec => [](NewModulesAreFresh /\ ConsumersMatchFiles) /\ NotFoundIsExplained
<1>1. Spec => [](NewModulesAreFresh /\ ConsumersMatchFiles)
  BY NewModulesAreFreshCorrect, ConsumersMatchFilesCorrect, PTL
<1> QED
  BY <1>1, NotFoundIsExplainedCorrect, ServiceIsRuntime
------------------------------------------------------------------------------
(* The types need the types of the runtime under them, and that a call      *)
(* waits for its module exactly while a load is in progress for it.         *)
CallType == {NoCall} \cup [step: {"load", "run", "return", "hung"}, fn: Functions,
                           event: 0..MaxEvents, n: 0..MaxItems]

CallsMatchLoads == \A l \in Loads : calls[l].step = "load" <=> loads[l].step # "idle"

ServiceTypeInv == TypeInv /\ ServiceTypeOK /\ CallsMatchLoads

LEMMA InitServiceTypeInv == ServiceInit => ServiceTypeInv
<1>1. ServiceInit => TypeInv
  BY InitTypeInv DEF ServiceInit
<1>2. ServiceInit => ServiceTypeOK
  <2>1. \A S : <<>> \in Seq(S)
    OBVIOUS
  <2> QED
    BY <1>1, <2>1, LimitsAssumption DEF ServiceInit, ServiceTypeOK, TypeInv, Events
<1>3. ServiceInit => CallsMatchLoads
  BY DEF ServiceInit, Init, CallsMatchLoads, NoCall, NoLoad
<1> QED
  BY <1>1, <1>2, <1>3 DEF ServiceTypeInv

(* Every step keeps the runtime's types. *)
LEMMA RuntimeTypeInv == ASSUME TypeInv, [ServiceNext]_allVars PROVE TypeInv'
BY ServiceStepIsRuntimeStep, StepTypeInv DEF allVars

(* A load ends with its call: the call goes on, or has failed. *)
LEMMA CallLoadsTypeInv ==
    ASSUME ServiceTypeInv, TypeInv', NEW l \in Loads, CallLoads(l)
    PROVE  ServiceTypeInv'
<1>1. /\ calls \in [Loads -> CallType] /\ loads \in [Loads -> LoadType]
      /\ UNCHANGED <<taskVars, answers, asked>>
  BY DEF ServiceTypeInv, ServiceTypeOK, TypeOK, CallType, CallLoads, LoadGoesOn, LoadNotFound,
         LoadImports, LoadFails, Loaded, serviceVars
<1>2. calls[l].step = "load" /\ calls[l] \in CallType \ {NoCall}
  <2>1. loads[l].step # "idle"
    BY DEF CallLoads, LoadGoesOn, LoadNotFound, LoadImports, LoadFails, Loaded, NotFound, Resolve, Import,
           StoreModule, LoadFails, ImportFails
  <2> QED
    BY <1>1, <2>1 DEF ServiceTypeInv, CallsMatchLoads, NoCall
<1> DEFINE Both ==
      \E load, call :
         /\ loads' = [loads EXCEPT ![l] = load] /\ calls' = [calls EXCEPT ![l] = call]
         /\ call \in CallType
         /\ call.step = "load" <=> load.step # "idle"
<1>0. NoCall \in CallType /\ NoCall.step # "load" /\ NoLoad.step = "idle"
  BY DEF NoLoad, NoCall, CallType
<1>3. Both
  <2>1. CASE LoadGoesOn(l)
    <3> DEFINE load == [loads[l] EXCEPT !.step = "import", !.v = version]
    <3>1. loads' = [loads EXCEPT ![l] = load]
      BY <1>1, <2>1 DEF LoadGoesOn, Resolve
    <3>2. calls' = [calls EXCEPT ![l] = calls[l]]
      BY <1>1, <2>1 DEF LoadGoesOn, serviceVars
    <3>3. load.step = "import"
      BY <1>1, <2>1 DEF LoadGoesOn, Resolve, LoadType, NoLoad
    <3> HIDE DEF load
    <3> QED
      BY <1>2, <3>1, <3>2, <3>3
  <2>2. CASE LoadNotFound(l)
    <3>1. calls' = [calls EXCEPT ![l] = NoCall] /\ loads' = [loads EXCEPT ![l] = NoLoad]
      BY <2>2 DEF LoadNotFound, NotFound, Fails, End
    <3> QED
      BY <1>0, <3>1
  <2>3. CASE LoadImports(l)
    <3>1. CASE loads' = [loads EXCEPT ![l] = NoLoad]
      <4>1. calls' = [calls EXCEPT ![l] = NoCall]
        BY <1>1, <2>3, <3>1 DEF LoadImports, Fails, End
      <4> QED
        BY <1>0, <3>1, <4>1
    <3>2. ASSUME NEW c, loads' = [loads EXCEPT ![l].step = "store", ![l].code = c]
          PROVE  Both
      <4> DEFINE load == [loads[l] EXCEPT !.step = "store", !.code = c]
      <4>1. loads' = [loads EXCEPT ![l] = load]
        BY <1>1, <3>2
      <4>2. load.step = "store"
        BY <1>1, <2>3 DEF LoadImports, Import, LoadType, NoLoad
      <4>3. loads'[l] # NoLoad
        BY <1>1, <4>1, <4>2 DEF NoLoad
      <4>4. calls' = [calls EXCEPT ![l] = calls[l]]
        BY <1>1, <2>3, <4>3 DEF LoadImports
      <4> HIDE DEF load
      <4> QED
        BY <1>2, <4>1, <4>2, <4>4
    <3> QED
      BY <2>3, <3>1, <3>2 DEF LoadImports, Import
  <2>5. CASE LoadFails(l)
    <3>1. loads' = [loads EXCEPT ![l] = NoLoad]
      BY <2>5 DEF LoadFails, ImportFails
    <3>2. CASE Fails(l)
      BY <1>0, <3>1, <3>2 DEF Fails, End
    <3>3. CASE Goto(l, "hung")
      <4> DEFINE call == [calls[l] EXCEPT !.step = "hung"]
      <4>1. calls' = [calls EXCEPT ![l] = call]
        BY <1>1, <3>3 DEF Goto
      <4>2. call \in CallType /\ call.step = "hung"
        BY <1>2 DEF CallType
      <4> HIDE DEF call
      <4> QED
        BY <3>1, <4>1, <4>2 DEF NoLoad
    <3> QED
      BY <2>5, <3>2, <3>3 DEF LoadFails
  <2>4. CASE Loaded(l)
    <3> DEFINE call == [calls[l] EXCEPT !.step = "run"]
    <3>1. calls' = [calls EXCEPT ![l] = call] /\ loads' = [loads EXCEPT ![l] = NoLoad]
      BY <1>1, <2>4 DEF Loaded, Goto, StoreModule
    <3>2. call \in CallType /\ call.step = "run"
      BY <1>2 DEF CallType
    <3> HIDE DEF call
    <3> QED
      BY <3>1, <3>2 DEF NoLoad
  <2> QED
    BY <2>1, <2>2, <2>3, <2>4, <2>5 DEF CallLoads
<1>4. calls' \in [Loads -> CallType] /\ CallsMatchLoads'
  BY <1>1, <1>3 DEF ServiceTypeInv, CallsMatchLoads
<1> QED
  BY <1>1, <1>4 DEF ServiceTypeInv, ServiceTypeOK, TypeInv, taskVars, CallType

(* A handler publishes what it returns, or goes on to its next item. *)
LEMMA HandleTypeInv ==
    ASSUME ServiceTypeInv, TypeInv', NEW l \in Loads, HandleStep(l)
    PROVE  ServiceTypeInv'
<1>0. calls[l].step \in {"run", "return"} /\ UNCHANGED <<vars, taskVars, asked>>
  BY DEF HandleStep, ReturnsOne, NextItem, Answered, ItemsEnd, Throws, Hangs
<1>1. /\ calls \in [Loads -> CallType] /\ answers \in [Events -> Seq(1..MaxItems)]
      /\ calls[l].step \in {"run", "return"} /\ UNCHANGED <<vars, taskVars, asked>>
      /\ MaxItems \in Nat \ {0} /\ MaxEvents \in Nat
  BY <1>0, LimitsAssumption DEF ServiceTypeInv, ServiceTypeOK, CallType
<1>2. calls[l] \in CallType \ {NoCall} /\ calls[l].n \in 0..MaxItems
  BY <1>1 DEF CallType, NoCall
<1> DEFINE Changed == \E call \in CallType : call.step # "load" /\ calls' = [calls EXCEPT ![l] = call]
<1>3. NoCall \in CallType /\ NoCall.step # "load"
  BY DEF NoCall, CallType
<1>4. End(l) => Changed
  BY <1>3 DEF End
<1>5. calls' = [calls EXCEPT ![l].n = @ + 1] /\ calls[l].n < MaxItems => Changed
  <2> DEFINE call == [calls[l] EXCEPT !.n = calls[l].n + 1]
  <2>1. calls' = [calls EXCEPT ![l].n = @ + 1] => calls' = [calls EXCEPT ![l] = call]
    BY <1>1
  <2>2. calls[l].n < MaxItems => call \in CallType /\ call.step # "load"
    BY <1>1, <1>2 DEF CallType
  <2> HIDE DEF call
  <2> QED
    BY <2>1, <2>2
<1>6. ASSUME NEW step \in {"return", "hung"}, Goto(l, step) PROVE Changed
  <2> DEFINE call == [calls[l] EXCEPT !.step = step]
  <2>1. calls' = [calls EXCEPT ![l] = call]
    BY <1>1, <1>6 DEF Goto
  <2>2. call \in CallType /\ call.step # "load"
    BY <1>2 DEF CallType
  <2> HIDE DEF call
  <2> QED
    BY <2>1, <2>2
<1>7. Changed
  BY <1>4, <1>5, <1>6 DEF HandleStep, ReturnsOne, NextItem, Answered, ItemsEnd, Throws, Hangs, Fails
<1>8. calls' \in [Loads -> CallType] /\ CallsMatchLoads'
  <2>1. calls' \in [Loads -> CallType] /\ UNCHANGED loads
    BY <1>1, <1>7 DEF vars, runtimeVars, moduleVars
  <2>2. calls[l].step # "load"
    BY <1>1
  <2>3. \A m \in Loads : calls'[m].step = "load" <=> calls[m].step = "load"
    BY <1>1, <1>7, <2>2
  <2> QED
    BY <2>1, <2>3 DEF ServiceTypeInv, CallsMatchLoads
<1>9. answers' \in [Events -> Seq(1..MaxItems)]
  <2>1. CASE UNCHANGED answers
    BY <1>1, <2>1
  <2>2. CASE Publish(l) /\ calls[l].n < MaxItems
    <3>1. calls[l].n + 1 \in 1..MaxItems
      BY <1>1, <1>2, <2>2
    <3>2. ASSUME NEW e \in Events PROVE Append(answers[e], calls[l].n + 1) \in Seq(1..MaxItems)
      BY <1>1, <3>1
    <3> QED
      BY <1>1, <2>2, <3>2 DEF Publish
  <2> QED
    BY <1>1, <1>2, <2>1, <2>2 DEF HandleStep, ReturnsOne, NextItem, Answered, ItemsEnd, Throws, Hangs
<1> QED
  BY <1>1, <1>8, <1>9 DEF ServiceTypeInv, ServiceTypeOK, TypeInv, taskVars, CallType

(* A call begins as its module is found, or as its load begins. *)
LEMMA BeginTypes ==
    ASSUME ServiceTypeInv, NEW l \in Loads, NEW f \in Functions, NEW e \in 0..MaxEvents,
           Begin(l, f, e)
    PROVE  calls' \in [Loads -> CallType] /\ CallsMatchLoads'
<1> DEFINE call(step) == [step |-> step, fn |-> f, event |-> e, n |-> 0]
<1>1. /\ calls \in [Loads -> CallType] /\ loads \in [Loads -> LoadType]
      /\ calls[l].step = "idle" /\ loads[l].step = "idle"
  BY DEF ServiceTypeInv, ServiceTypeOK, TypeOK, CallType, CallsMatchLoads, Begin, NoCall, NoLoad,
         LoadType
<1>2. \A step \in {"load", "run"} : call(step) \in CallType /\ call(step).step = step
  BY LimitsAssumption DEF CallType
<1>3. CASE calls' = [calls EXCEPT ![l] = call("run")] /\ UNCHANGED loads
  <2> HIDE DEF call
  <2> QED
    BY <1>1, <1>2, <1>3 DEF ServiceTypeInv, CallsMatchLoads
<1>4. ASSUME NEW load, load.step = "resolve", loads' = [loads EXCEPT ![l] = load],
             calls' = [calls EXCEPT ![l] = call("load")]
      PROVE  calls' \in [Loads -> CallType] /\ CallsMatchLoads'
  <2> HIDE DEF call
  <2> QED
    BY <1>1, <1>2, <1>4 DEF ServiceTypeInv, CallsMatchLoads
<1>5. \/ calls' = [calls EXCEPT ![l] = call("run")] /\ UNCHANGED loads
      \/ /\ calls' = [calls EXCEPT ![l] = call("load")]
         /\ loads' = [loads EXCEPT ![l] = [step |-> "resolve", fn |-> f, v |-> 0, code |-> 0]]
  BY DEF Begin, Invoke, vars, runtimeVars, moduleVars
<1> QED
  BY <1>3, <1>4, <1>5

(* Requests, events and what becomes of tasks. *)
LEMMA RequestTypeInv ==
    ASSUME ServiceTypeInv, TypeInv', NEW c \in Clients,
           NoName(c) \/ \E f \in Functions : Request(c, f)
    PROVE  ServiceTypeInv'
<1>1. asked' \subseteq Clients /\ UNCHANGED <<taskVars, answers>>
  BY DEF NoName, Request, ServiceTypeInv, ServiceTypeOK
<1>2. calls' \in [Loads -> CallType] /\ CallsMatchLoads'
  <2>1. CASE NoName(c)
    BY <2>1 DEF NoName, ServiceTypeInv, ServiceTypeOK, CallsMatchLoads, CallType, vars,
                runtimeVars, moduleVars
  <2>2. ASSUME NEW f \in Functions, Request(c, f)
        PROVE  calls' \in [Loads -> CallType] /\ CallsMatchLoads'
    BY <2>2, BeginTypes, LoadsAssumption, LimitsAssumption DEF Request
  <2> QED
    BY <2>1, <2>2
<1> QED
  BY <1>1, <1>2 DEF ServiceTypeInv, ServiceTypeOK, TypeInv, taskVars, CallType

LEMMA EventTypeInv ==
    ASSUME ServiceTypeInv, TypeInv',
           \/ \E f \in Functions : Event(f)
           \/ \E t \in Tasks : TakeEvent(t) \/ DropInbox(t)
    PROVE  ServiceTypeInv'
<1>1. /\ inbox \in [Tasks -> Seq(Events)] /\ sent \in 0..MaxEvents /\ MaxEvents \in Nat
      /\ Tasks \subseteq Loads
  BY LoadsAssumption, LimitsAssumption DEF ServiceTypeInv, ServiceTypeOK
<1>2. CASE \E f \in Functions : Event(f)
  <2> PICK f \in Functions : Event(f)
    BY <1>2
  <2>1. sent + 1 \in Events /\ sent' \in 0..MaxEvents
    BY <1>1 DEF Event, Events
  <2>2. ASSUME NEW t \in Tasks PROVE Append(inbox[t], sent + 1) \in Seq(Events)
    BY <1>1, <2>1
  <2>3. inbox' \in [Tasks -> Seq(Events)]
    BY <1>1, <2>2 DEF Event
  <2>4. CallsMatchLoads'
    BY DEF ServiceTypeInv, CallsMatchLoads, Event, vars, runtimeVars, moduleVars
  <2> QED
    BY <2>1, <2>3, <2>4 DEF Event, ServiceTypeInv, ServiceTypeOK, TypeInv
<1>3. ASSUME NEW t \in Tasks, TakeEvent(t) PROVE ServiceTypeInv'
  <2>1. Head(inbox[t]) \in Events /\ Tail(inbox[t]) \in Seq(Events)
    BY <1>1, <1>3 DEF TakeEvent
  <2>2. Head(inbox[t]) \in 0..MaxEvents /\ t[1] \in Functions /\ t \in Loads
    BY <1>1, <2>1 DEF Events, Tasks
  <2>3. calls' \in [Loads -> CallType] /\ CallsMatchLoads'
    BY <1>3, <2>2, BeginTypes DEF TakeEvent
  <2>4. inbox' \in [Tasks -> Seq(Events)]
    BY <1>1, <1>3, <2>1 DEF TakeEvent
  <2> QED
    BY <1>3, <2>3, <2>4 DEF TakeEvent, ServiceTypeInv, ServiceTypeOK, TypeInv, CallType
<1>4. ASSUME NEW t \in Tasks, DropInbox(t) PROVE ServiceTypeInv'
  <2>1. inbox' \in [Tasks -> Seq(Events)]
    BY <1>1, <1>4 DEF DropInbox
  <2>2. CallsMatchLoads'
    BY <1>4 DEF ServiceTypeInv, CallsMatchLoads, DropInbox, vars, runtimeVars, moduleVars
  <2> QED
    BY <1>4, <2>1, <2>2 DEF DropInbox, ServiceTypeInv, ServiceTypeOK, TypeInv
<1> QED
  BY <1>2, <1>3, <1>4

(* A task that is started is one that had ended. *)
LEMMA NewTaskIsFree ==
    ASSUME NEW f, FreeTasks(f) # {}
    PROVE  NewTask(f) \in Tasks /\ NewTask(f)[1] = f /\ Ended(NewTask(f))
<1>1. NewTask(f) \in FreeTasks(f)
  BY DEF NewTask
<1> QED
  BY <1>1 DEF FreeTasks

LEMMA RuntimeStepTypeInv ==
    ASSUME ServiceTypeInv, TypeInv',
           RuntimeStep \/ Reconcile \/ Outside \/ Hook \/ Dies \/ UNCHANGED allVars
    PROVE  ServiceTypeInv'
<1>1. CASE RuntimeStep \/ Outside \/ Hook \/ UNCHANGED allVars
  <2>1. UNCHANGED <<serviceVars, loads>>
    <3>1. CASE RuntimeStep
      BY <3>1 DEF RuntimeStep, Boot, Connect, AddStream, HookReceived, CloneRepo, FetchRepo,
                  ResetMain, ResetMaster, StartCopy, ClearModuleCache, Forget, RemoveFile,
                  CopyFile, moduleVars
    <3>2. CASE Outside \/ Hook \/ UNCHANGED allVars
      BY <3>2 DEF Outside, Commit, Remove, RunFails, FilesFail, Abandon, Hook, RuntimeHook,
                  allVars, vars, runtimeVars, moduleVars
    <3> QED
      BY <1>1, <3>1, <3>2
  <2> QED
    BY <2>1 DEF ServiceTypeInv, ServiceTypeOK, TypeInv, CallsMatchLoads, serviceVars, taskVars
<1>2. CASE Reconcile
  <2>1. live' \subseteq Tasks
    BY <1>2, NewTaskIsFree DEF Reconcile, ServiceTypeInv, ServiceTypeOK
  <2>2. CallsMatchLoads'
    BY <1>2 DEF Reconcile, ReconcileConsumers, ServiceTypeInv, CallsMatchLoads, moduleVars
  <2> QED
    BY <1>2, <2>1, <2>2 DEF Reconcile, ServiceTypeInv, ServiceTypeOK, TypeInv
<1>3. CASE Dies
  <2>1. inbox' \in [Tasks -> Seq(Events)] /\ calls' \in [Loads -> CallType]
    <3>1. <<>> \in Seq(Events)
      OBVIOUS
    <3> QED
      BY <1>3, <3>1 DEF Dies, CallType
  <2>2. CallsMatchLoads'
    BY <1>3 DEF Dies, Killed, CallsMatchLoads, NoCall, NoLoad
  <2> QED
    BY <1>3, <2>1, <2>2 DEF Dies, ServiceTypeInv, ServiceTypeOK, TypeInv, CallType
<1> QED
  BY <1>1, <1>2, <1>3

LEMMA StepServiceTypeInv == ASSUME ServiceTypeInv, [ServiceNext]_allVars PROVE ServiceTypeInv'
<1>1. TypeInv'
  BY RuntimeTypeInv DEF ServiceTypeInv
<1> QED
  BY <1>1, CallLoadsTypeInv, HandleTypeInv, RequestTypeInv, EventTypeInv, RuntimeStepTypeInv
     DEF ServiceNext

(* The state of requests, tasks and the runtime stays within its types. *)
THEOREM ServiceTypeCorrect == ServiceSpec => []ServiceTypeOK
<1>1. ServiceSpec => []ServiceTypeInv
  BY InitServiceTypeInv, StepServiceTypeInv, PTL DEF ServiceSpec
<1>2. ServiceTypeInv => ServiceTypeOK
  BY DEF ServiceTypeInv
<1> QED
  BY <1>1, <1>2, PTL
------------------------------------------------------------------------------
(* A function has at most one open subscription, and one only if the        *)
(* runtime counts a consumer for it.                                        *)
TasksInv ==
    /\ \A s, t \in live : s[1] = t[1] => s = t
    /\ \A t \in live : consumers[t[1]] # 0

(* A pending event has no answers, is nowhere pending a second time, and    *)
(* no task has it under way.                                                *)
PendingInv ==
    \A t \in Tasks : \A i \in 1..Len(inbox[t]) :
       /\ inbox[t][i] <= sent
       /\ answers[inbox[t][i]] = <<>>
       /\ \A s \in Tasks : \A j \in 1..Len(inbox[s]) :
             inbox[s][j] = inbox[t][i] => s = t /\ j = i
       /\ \A s \in Tasks : calls[s] # NoCall => calls[s].event # inbox[t][i]

(* An event that a task has under way has the answers that the task counts, *)
(* and no other task has it.                                                *)
UnderWayInv ==
    \A t \in Tasks : calls[t] # NoCall =>
       /\ calls[t].event \in 1..sent
       /\ answers[calls[t].event] = [i \in 1..calls[t].n |-> i]
       /\ \A s \in Tasks : calls[s] # NoCall /\ calls[s].event = calls[t].event => s = t

NothingAhead == \A e \in Events : e > sent => answers[e] = <<>>

EventsInv == PendingInv /\ UnderWayInv /\ NothingAhead /\ AnswersAreOneRun

LEMMA InitTasksInv == ServiceInit => TasksInv /\ EventsInv
<1> SUFFICES ASSUME ServiceInit PROVE TasksInv /\ EventsInv
  OBVIOUS
<1>1. TasksInv
  BY DEF ServiceInit, TasksInv
<1>2. PendingInv
  BY DEF ServiceInit, PendingInv
<1>3. UnderWayInv
  BY LoadsAssumption DEF ServiceInit, UnderWayInv
<1>4. NothingAhead
  BY DEF ServiceInit, NothingAhead
<1>5. AnswersAreOneRun
  <2>1. <<>> = [i \in 1..Len(<<>>) |-> i]
    OBVIOUS
  <2> QED
    BY <2>1 DEF ServiceInit, AnswersAreOneRun
<1> QED
  BY <1>1, <1>2, <1>3, <1>4, <1>5 DEF EventsInv

LEMMA StepTasksInv ==
    ASSUME ServiceTypeInv, TasksInv, [ServiceNext]_allVars
    PROVE  TasksInv'
<1>1. CASE Reconcile
  <2> DEFINE started == {f \in Functions : consumers'[f] > consumers[f]}
             kept == {t \in live : consumers'[t[1]] # 0}
  <2>1. /\ live' = kept \cup {NewTask(f) : f \in started}
        /\ \A f \in started : NewTask(f)[1] = f
    BY <1>1, NewTaskIsFree DEF Reconcile
  <2>2. \A f \in started : consumers[f] = 0 /\ consumers'[f] # 0
    BY <1>1 DEF Reconcile, ReconcileConsumers, ServiceTypeInv, ServiceTypeOK, TypeOK
  <2>3. \A t \in kept : t \in live /\ consumers[t[1]] # 0 /\ consumers'[t[1]] # 0
    BY DEF TasksInv
  <2> HIDE DEF started, kept
  <2>4. \A s, t \in live' : s[1] = t[1] => s = t
    BY <2>1, <2>2, <2>3 DEF TasksInv
  <2>5. \A t \in live' : consumers'[t[1]] # 0
    BY <2>1, <2>2, <2>3
  <2> QED
    BY <2>4, <2>5 DEF TasksInv
<1>2. CASE Dies
  BY <1>2 DEF Dies, TasksInv
<1>3. CASE UNCHANGED <<live, consumers>>
  BY <1>3 DEF TasksInv
<1>4. CASE RuntimeStep
  BY <1>3, <1>4 DEF RuntimeStep, Boot, Connect, AddStream, HookReceived, CloneRepo, FetchRepo,
     ResetMain, ResetMaster, StartCopy, ClearModuleCache, Forget, RemoveFile, CopyFile,
     serviceVars, taskVars
<1>5. CASE Outside \/ Hook
  BY <1>3, <1>5 DEF Outside, Commit, Remove, RunFails, FilesFail, Abandon, Hook, RuntimeHook,
     serviceVars, taskVars, runtimeVars
<1>6. ASSUME NEW l \in Loads, CallLoads(l) \/ HandleStep(l) PROVE TasksInv'
  BY <1>3, <1>6 DEF CallLoads, LoadGoesOn, LoadNotFound, LoadImports, LoadFails, Loaded, NotFound,
     Resolve, Import, StoreModule, ImportFails, HandleStep, ReturnsOne, NextItem, Answered,
     ItemsEnd, Throws, Hangs, loadFrame, serviceVars, taskVars, vars, runtimeVars
<1>7. ASSUME NEW l, NEW f, NEW e, Begin(l, f, e) PROVE UNCHANGED consumers
  BY <1>7 DEF Begin, Invoke, loadFrame, vars, runtimeVars
<1>8. ASSUME \/ \E c \in Clients : NoName(c) \/ \E f \in Functions : Request(c, f)
             \/ \E f \in Functions : Event(f)
             \/ \E t \in Tasks : TakeEvent(t) \/ DropInbox(t)
             \/ UNCHANGED allVars
      PROVE  TasksInv'
  BY <1>3, <1>7, <1>8 DEF NoName, Request, Event, TakeEvent, DropInbox, allVars, serviceVars,
     taskVars, vars, runtimeVars
<1> QED
  BY <1>1, <1>2, <1>4, <1>5, <1>6, <1>8 DEF ServiceNext

(* Steps that publish nothing and end calls or leave them where they are. *)
LEMMA QuietEventsInv ==
    ASSUME EventsInv, UNCHANGED <<sent, answers>>,
           \A t \in Tasks : inbox'[t] \in {inbox[t], <<>>},
           \A t \in Tasks : calls'[t] # NoCall =>
              calls[t] # NoCall /\ calls'[t].event = calls[t].event /\ calls'[t].n = calls[t].n
    PROVE  EventsInv'
<1>1. \A t \in Tasks : \A i \in 1..Len(inbox'[t]) : i \in 1..Len(inbox[t]) /\ inbox'[t] = inbox[t]
  OBVIOUS
<1>2. PendingInv'
  BY <1>1 DEF EventsInv, PendingInv
<1>3. UnderWayInv'
  BY DEF EventsInv, UnderWayInv
<1> QED
  BY <1>2, <1>3 DEF EventsInv, NothingAhead, AnswersAreOneRun

(* The event that is published goes to one subscription at most. *)
LEMMA EventEventsInv ==
    ASSUME ServiceTypeInv, TasksInv, EventsInv, NEW f \in Functions, Event(f)
    PROVE  EventsInv'
<1>1. /\ sent' = sent + 1 /\ sent' \in Events /\ sent \in Nat /\ UNCHANGED <<calls, answers>>
      /\ inbox \in [Tasks -> Seq(Events)] /\ MaxEvents \in Nat
  BY LimitsAssumption DEF Event, ServiceTypeInv, ServiceTypeOK, Events
<1>2. answers[sent'] = <<>>
  BY <1>1 DEF EventsInv, NothingAhead
<1>3. ASSUME NEW t \in Tasks, NEW i \in 1..Len(inbox'[t])
      PROVE  \/ i \in 1..Len(inbox[t]) /\ inbox'[t][i] = inbox[t][i]
             \/ /\ t \in live /\ t[1] = f
                /\ i = Len(inbox[t]) + 1 /\ inbox'[t][i] = sent'
  <2>1. inbox[t] \in Seq(Events)
    BY <1>1
  <2>2. CASE t \in live /\ t[1] = f
    <3>1. inbox'[t] = Append(inbox[t], sent')
      BY <1>1, <2>2 DEF Event
    <3> QED
      BY <1>1, <2>1, <2>2, <3>1
  <2>3. CASE ~(t \in live /\ t[1] = f)
    BY <2>3 DEF Event
  <2> QED
    BY <2>2, <2>3
<1>4. \A s, t \in Tasks : s \in live /\ t \in live /\ s[1] = f /\ t[1] = f => s = t
  BY DEF TasksInv
<1>5. /\ \A t \in Tasks : \A i \in 1..Len(inbox[t]) :
            /\ inbox[t][i] \in Nat /\ inbox[t][i] <= sent /\ inbox[t][i] # sent'
            /\ answers[inbox[t][i]] = <<>>
      /\ \A t \in Tasks : calls[t] # NoCall => calls[t].event # sent'
  <2>1. ASSUME NEW t \in Tasks, NEW i \in 1..Len(inbox[t])
        PROVE  /\ inbox[t][i] \in Nat /\ inbox[t][i] <= sent /\ inbox[t][i] # sent'
               /\ answers[inbox[t][i]] = <<>>
    <3>1. inbox[t] \in Seq(Events)
      BY <1>1
    <3>2. inbox[t][i] \in Events
      BY <3>1
    <3>3. inbox[t][i] \in Nat
      BY <1>1, <3>2 DEF Events
    <3> QED
      BY <1>1, <3>3 DEF EventsInv, PendingInv
  <2>2. ASSUME NEW t \in Tasks, calls[t] # NoCall PROVE calls[t].event # sent'
    <3>1. calls[t].event \in 1..sent
      BY <2>2 DEF EventsInv, UnderWayInv
    <3> QED
      BY <1>1, <3>1
  <2> QED
    BY <2>1, <2>2
<1>6. PendingInv'
  <2> SUFFICES ASSUME NEW t \in Tasks, NEW i \in 1..Len(inbox'[t])
               PROVE  /\ inbox'[t][i] <= sent'
                      /\ answers[inbox'[t][i]] = <<>>
                      /\ \A s \in Tasks : \A j \in 1..Len(inbox'[s]) :
                            inbox'[s][j] = inbox'[t][i] => s = t /\ j = i
                      /\ \A s \in Tasks : calls[s] # NoCall => calls[s].event # inbox'[t][i]
    BY <1>1 DEF PendingInv
  <2>1. inbox'[t][i] <= sent' /\ answers[inbox'[t][i]] = <<>>
    <3>1. CASE i \in 1..Len(inbox[t]) /\ inbox'[t][i] = inbox[t][i]
      BY <1>1, <1>5, <3>1
    <3>2. CASE inbox'[t][i] = sent'
      BY <1>1, <1>2, <3>2
    <3> QED
      BY <1>3, <3>1, <3>2
  <2>2. \A s \in Tasks : calls[s] # NoCall => calls[s].event # inbox'[t][i]
    <3>1. CASE i \in 1..Len(inbox[t]) /\ inbox'[t][i] = inbox[t][i]
      BY <3>1 DEF EventsInv, PendingInv
    <3>2. CASE inbox'[t][i] = sent'
      BY <1>5, <3>2
    <3> QED
      BY <1>3, <3>1, <3>2
  <2>3. ASSUME NEW s \in Tasks, NEW j \in 1..Len(inbox'[s]), inbox'[s][j] = inbox'[t][i]
        PROVE  s = t /\ j = i
    <3>1. CASE i \in 1..Len(inbox[t]) /\ inbox'[t][i] = inbox[t][i]
      <4>1. inbox'[s][j] # sent'
        BY <1>5, <2>3, <3>1
      <4>2. j \in 1..Len(inbox[s]) /\ inbox'[s][j] = inbox[s][j]
        BY <1>3, <4>1
      <4> QED
        BY <2>3, <3>1, <4>2 DEF EventsInv, PendingInv
    <3>2. CASE t \in live /\ t[1] = f /\ i = Len(inbox[t]) + 1 /\ inbox'[t][i] = sent'
      <4>1. s \in live /\ s[1] = f /\ j = Len(inbox[s]) + 1
        BY <1>3, <1>5, <2>3, <3>2
      <4> QED
        BY <1>4, <3>2, <4>1
    <3> QED
      BY <1>3, <3>1, <3>2
  <2> QED
    BY <2>1, <2>2, <2>3
<1>7. UnderWayInv'
  BY <1>1 DEF EventsInv, UnderWayInv
<1>8. NothingAhead'
  BY <1>1 DEF EventsInv, NothingAhead, Events
<1>9. AnswersAreOneRun'
  BY <1>1 DEF EventsInv, AnswersAreOneRun
<1> QED
  BY <1>6, <1>7, <1>8, <1>9 DEF EventsInv

(* The task that takes an event is the only one to have it. *)
LEMMA TakeEventsInv ==
    ASSUME ServiceTypeInv, EventsInv, NEW t \in Tasks, TakeEvent(t)
    PROVE  EventsInv'
<1> DEFINE e == Head(inbox[t])
<1>1. /\ inbox \in [Tasks -> Seq(Events)] /\ calls \in [Loads -> CallType] /\ t \in Loads
      /\ Tasks \subseteq Loads /\ sent \in Nat
      /\ inbox[t] # <<>> /\ inbox' = [inbox EXCEPT ![t] = Tail(@)]
      /\ calls[t] = NoCall
      /\ UNCHANGED <<sent, answers>>
  BY LoadsAssumption, LimitsAssumption
     DEF ServiceTypeInv, ServiceTypeOK, CallType, TakeEvent, Begin
<1>2. PICK call : call.event = e /\ call.n = 0 /\ calls' = [calls EXCEPT ![t] = call]
  BY DEF TakeEvent, Begin
<1>3. /\ 1 \in 1..Len(inbox[t]) /\ e = inbox[t][1] /\ e \in Events
      /\ Len(Tail(inbox[t])) = Len(inbox[t]) - 1 /\ Len(inbox[t]) \in Nat
      /\ \A i \in 1..Len(Tail(inbox[t])) : Tail(inbox[t])[i] = inbox[t][i + 1]
  BY <1>1
<1> HIDE DEF e
<1>4. e <= sent /\ answers[e] = <<>>
  BY <1>3 DEF EventsInv, PendingInv
<1>5. ASSUME NEW s \in Tasks, NEW i \in 1..Len(inbox'[s])
      PROVE  LET k == IF s = t THEN i + 1 ELSE i IN
             k \in 1..Len(inbox[s]) /\ inbox'[s][i] = inbox[s][k] /\ ~(s = t /\ k = 1)
  BY <1>1, <1>3
<1>6. ASSUME NEW s \in Tasks, NEW i \in 1..Len(inbox'[s]) PROVE inbox'[s][i] # e
  BY <1>3, <1>5 DEF EventsInv, PendingInv
<1>7. PendingInv'
  <2>1. ASSUME NEW s \in Tasks, NEW i \in 1..Len(inbox'[s])
        PROVE  /\ inbox'[s][i] <= sent
               /\ answers[inbox'[s][i]] = <<>>
               /\ \A u \in Tasks : calls[u] # NoCall => calls[u].event # inbox'[s][i]
    BY <1>5 DEF EventsInv, PendingInv
  <2>2. ASSUME NEW s \in Tasks, NEW i \in 1..Len(inbox'[s]),
               NEW u \in Tasks, NEW j \in 1..Len(inbox'[u]), inbox'[u][j] = inbox'[s][i]
        PROVE  u = s /\ j = i
    <3> DEFINE k == IF s = t THEN i + 1 ELSE i
               m == IF u = t THEN j + 1 ELSE j
    <3>1. /\ k \in 1..Len(inbox[s]) /\ inbox'[s][i] = inbox[s][k]
          /\ m \in 1..Len(inbox[u]) /\ inbox'[u][j] = inbox[u][m]
      BY <1>5
    <3> HIDE DEF k, m
    <3>2. u = s /\ m = k
      BY <2>2, <3>1 DEF EventsInv, PendingInv
    <3> QED
      BY <3>2 DEF k, m
  <2>3. ASSUME NEW s \in Tasks, NEW i \in 1..Len(inbox'[s]), NEW u \in Tasks, calls'[u] # NoCall
        PROVE  calls'[u].event # inbox'[s][i]
    BY <1>1, <1>2, <1>6, <2>1, <2>3
  <2> QED
    BY <1>1, <2>1, <2>2, <2>3 DEF PendingInv
<1>8. UnderWayInv'
  <2>1. answers[e] = [i \in 1..0 |-> i]
    <3>1. <<>> = [i \in 1..0 |-> i]
      OBVIOUS
    <3> QED
      BY <1>4, <3>1
  <2>2. e \in 1..sent
    BY <1>1, <1>3, <1>4 DEF Events
  <2>3. ASSUME NEW s \in Tasks, calls[s] # NoCall PROVE calls[s].event # e /\ s # t
    BY <1>1, <1>3, <2>3 DEF EventsInv, PendingInv
  <2>4. ASSUME NEW s \in Tasks, calls'[s] # NoCall
        PROVE  /\ calls'[s].event \in 1..sent
               /\ answers[calls'[s].event] = [i \in 1..calls'[s].n |-> i]
    <3>1. CASE s = t
      BY <1>1, <1>2, <2>1, <2>2, <3>1
    <3>2. CASE s # t
      BY <1>1, <1>2, <2>4, <3>2 DEF EventsInv, UnderWayInv
    <3> QED
      BY <3>1, <3>2
  <2>5. ASSUME NEW s \in Tasks, calls'[s] # NoCall, NEW u \in Tasks, calls'[u] # NoCall,
               calls'[u].event = calls'[s].event
        PROVE  u = s
    <3>1. CASE u = t \/ s = t
      BY <1>1, <1>2, <2>3, <2>5, <3>1
    <3>2. CASE u # t /\ s # t
      BY <1>1, <1>2, <2>5, <3>2 DEF EventsInv, UnderWayInv
    <3> QED
      BY <3>1, <3>2
  <2> QED
    BY <1>1, <2>4, <2>5 DEF UnderWayInv
<1> QED
  BY <1>1, <1>7, <1>8 DEF EventsInv, NothingAhead, AnswersAreOneRun

(* An answer continues those that its task counts. *)
LEMMA PublishEventsInv ==
    ASSUME ServiceTypeInv, EventsInv, NEW t \in Tasks, calls[t] # NoCall,
           Publish(t), UNCHANGED <<inbox, sent>>,
           NEW call, calls' = [calls EXCEPT ![t] = call],
           call # NoCall => call.event = calls[t].event /\ call.n = calls[t].n + 1
    PROVE  EventsInv'
<1> DEFINE e == calls[t].event
           n == calls[t].n
<1>1. /\ calls \in [Loads -> CallType] /\ t \in Loads /\ Tasks \subseteq Loads
      /\ answers \in [Events -> Seq(1..MaxItems)] /\ sent \in 0..MaxEvents
      /\ MaxEvents \in Nat /\ MaxItems \in Nat
  BY LoadsAssumption, LimitsAssumption DEF ServiceTypeInv, ServiceTypeOK, CallType
<1>2. n \in Nat
  BY <1>1 DEF CallType
<1>3. /\ e \in 1..sent /\ answers[e] = [i \in 1..n |-> i]
      /\ \A s \in Tasks : calls[s] # NoCall /\ calls[s].event = e => s = t
  BY DEF EventsInv, UnderWayInv
<1>4. e \in Events
  BY <1>1, <1>3 DEF Events
<1>5. answers' = [answers EXCEPT ![e] = Append(answers[e], n + 1)]
  BY DEF Publish
<1> HIDE DEF e, n
<1>6. Append(answers[e], n + 1) = [i \in 1..(n + 1) |-> i]
  <2> DEFINE old == [i \in 1..n |-> i]
             new == [i \in 1..(n + 1) |-> i]
  <2>1. old \in Seq(Nat) /\ Len(old) = n /\ new \in Seq(Nat) /\ Len(new) = n + 1
    BY <1>2
  <2>2. Append(old, n + 1) = new
    BY <1>2, <2>1
  <2> QED
    BY <1>3, <2>2
<1>7. answers'[e] = [i \in 1..(n + 1) |-> i] /\ \A d \in Events \ {e} : answers'[d] = answers[d]
  BY <1>1, <1>4, <1>5, <1>6
<1>8. PendingInv'
  <2>1. \A s \in Tasks : \A i \in 1..Len(inbox[s]) : inbox[s][i] # e /\ inbox[s][i] \in Events
    <3>1. ASSUME NEW s \in Tasks, NEW i \in 1..Len(inbox[s]) PROVE inbox[s][i] \in Events
      <4>1. inbox[s] \in Seq(Events)
        BY DEF ServiceTypeInv, ServiceTypeOK
      <4> QED
        BY <4>1
    <3>2. ASSUME NEW s \in Tasks, NEW i \in 1..Len(inbox[s]) PROVE inbox[s][i] # e
      BY DEF EventsInv, PendingInv, e
    <3> QED
      BY <3>1, <3>2
  <2>2. \A s \in Tasks : calls'[s] # NoCall => calls[s] # NoCall /\ calls'[s].event = calls[s].event
    BY <1>1
  <2> QED
    BY <1>7, <2>1, <2>2 DEF EventsInv, PendingInv
<1>9. UnderWayInv'
  <2>1. ASSUME NEW s \in Tasks, calls'[s] # NoCall
        PROVE  /\ calls[s] # NoCall /\ calls'[s].event = calls[s].event
               /\ s = t => calls'[s].event = e /\ calls'[s].n = n + 1
               /\ s # t => calls'[s] = calls[s] /\ calls[s].event # e
    BY <1>1, <1>3, <2>1 DEF e, n
  <2>2. ASSUME NEW s \in Tasks, calls'[s] # NoCall
        PROVE  /\ calls'[s].event \in 1..sent
               /\ answers'[calls'[s].event] = [i \in 1..calls'[s].n |-> i]
    <3>1. CASE s = t
      BY <1>3, <1>7, <2>1, <2>2, <3>1
    <3>2. CASE s # t
      <4>1. /\ calls'[s] = calls[s] /\ calls[s].event \in 1..sent /\ calls[s].event # e
            /\ answers[calls[s].event] = [i \in 1..calls[s].n |-> i]
        BY <2>1, <2>2, <3>2 DEF EventsInv, UnderWayInv
      <4>2. calls[s].event \in Events
        BY <1>1, <4>1 DEF Events
      <4>3. answers'[calls[s].event] = answers[calls[s].event]
        BY <1>7, <4>1, <4>2
      <4> QED
        BY <4>1, <4>3
    <3> QED
      BY <3>1, <3>2
  <2>3. ASSUME NEW s \in Tasks, calls'[s] # NoCall, NEW u \in Tasks, calls'[u] # NoCall,
               calls'[u].event = calls'[s].event
        PROVE  u = s
    <3>1. CASE u = t \/ s = t
      BY <2>1, <2>3, <3>1
    <3>2. CASE u # t /\ s # t
      <4>1. calls[u] # NoCall /\ calls[s] # NoCall /\ calls[u].event = calls[s].event
        BY <2>1, <2>3, <3>2
      <4> QED
        BY <4>1 DEF EventsInv, UnderWayInv
    <3> QED
      BY <3>1, <3>2
  <2> QED
    BY <2>2, <2>3 DEF UnderWayInv
<1>10. NothingAhead'
  BY <1>1, <1>3, <1>7 DEF EventsInv, NothingAhead, Events
<1>11. AnswersAreOneRun'
  <2>1. Len([i \in 1..(n + 1) |-> i]) = n + 1
    BY <1>2
  <2> QED
    BY <1>7, <2>1 DEF EventsInv, AnswersAreOneRun
<1> QED
  BY <1>8, <1>9, <1>10, <1>11 DEF EventsInv

LEMMA HandleEventsInv ==
    ASSUME ServiceTypeInv, EventsInv, NEW l \in Loads, HandleStep(l)
    PROVE  EventsInv'
<1>1. /\ calls \in [Loads -> CallType] /\ Tasks \subseteq Loads /\ MaxItems \in Nat \ {0}
      /\ calls[l].step \in {"run", "return"} /\ calls[l] # NoCall /\ UNCHANGED <<inbox, sent>>
  BY LoadsAssumption, LimitsAssumption
     DEF ServiceTypeInv, ServiceTypeOK, CallType, HandleStep, ReturnsOne, NextItem, Answered, ItemsEnd,
         Throws, Hangs, taskVars, NoCall
<1>2. ASSUME UNCHANGED answers, End(l) \/ \E step \in {"return", "hung"} : Goto(l, step)
      PROVE  EventsInv'
  <2>1. \A t \in Tasks : calls'[t] # NoCall =>
           calls[t] # NoCall /\ calls'[t].event = calls[t].event /\ calls'[t].n = calls[t].n
    <3>1. CASE End(l)
      BY <1>1, <3>1 DEF End
    <3>2. ASSUME NEW step, Goto(l, step), NEW t \in Tasks, calls'[t] # NoCall
          PROVE  calls[t] # NoCall /\ calls'[t].event = calls[t].event /\ calls'[t].n = calls[t].n
      <4> DEFINE call == [calls[l] EXCEPT !.step = step]
      <4>1. calls' = [calls EXCEPT ![l] = call]
        BY <1>1, <3>2 DEF Goto
      <4>2. call.event = calls[l].event /\ call.n = calls[l].n
        BY <1>1 DEF CallType
      <4> HIDE DEF call
      <4> QED
        BY <1>1, <3>2, <4>1, <4>2
    <3> QED
      BY <1>2, <3>1, <3>2
  <2> QED
    BY <1>1, <1>2, <2>1, QuietEventsInv
<1>3. ASSUME l \in Tasks, Publish(l),
             (End(l) /\ calls[l].n = 0) \/ calls' = [calls EXCEPT ![l].n = @ + 1]
      PROVE  EventsInv'
  <2>1. CASE End(l)
    BY <1>1, <1>3, <2>1, PublishEventsInv DEF End
  <2>2. CASE calls' = [calls EXCEPT ![l].n = @ + 1]
    <3> DEFINE call == [calls[l] EXCEPT !.n = calls[l].n + 1]
    <3>1. calls' = [calls EXCEPT ![l] = call]
      BY <1>1, <2>2
    <3>2. call.event = calls[l].event /\ call.n = calls[l].n + 1
      BY <1>1 DEF CallType
    <3> HIDE DEF call
    <3> QED
      BY <1>1, <1>3, <3>1, <3>2, PublishEventsInv
  <2> QED
    BY <1>3, <2>1, <2>2
<1>4. l \in Tasks \/ l \in Clients
  BY LoadsAssumption
<1> QED
  BY <1>2, <1>3, <1>4, LoadsAssumption
     DEF HandleStep, ReturnsOne, NextItem, Answered, ItemsEnd, Throws, Hangs, Fails

LEMMA StepEventsInv ==
    ASSUME ServiceTypeInv, TasksInv, EventsInv, [ServiceNext]_allVars
    PROVE  EventsInv'
<1>0. Tasks \subseteq Loads /\ Tasks \cap Clients = {} /\ calls \in [Loads -> CallType]
  BY LoadsAssumption DEF ServiceTypeInv, ServiceTypeOK, CallType
<1>1. CASE RuntimeStep \/ Outside \/ Hook \/ Reconcile \/ UNCHANGED allVars
  <2>1. UNCHANGED <<inbox, calls, sent, answers>>
    BY <1>1 DEF RuntimeStep, Outside, Hook, Reconcile, allVars, serviceVars, taskVars
  <2> QED
    BY <2>1, QuietEventsInv
<1>2. CASE Dies
  <2>1. \A t \in Tasks : calls'[t] = NoCall
    BY <1>0, <1>2 DEF Dies
  <2> QED
    BY <1>2, <2>1, QuietEventsInv DEF Dies
<1>3. ASSUME NEW l \in Loads, CallLoads(l) PROVE EventsInv'
  <2>1. UNCHANGED <<inbox, sent, answers>>
    BY <1>3 DEF CallLoads, LoadGoesOn, LoadNotFound, LoadImports, LoadFails, Loaded, serviceVars, taskVars
  <2>2. \/ End(l) \/ UNCHANGED calls
        \/ (Goto(l, "run") \/ Goto(l, "hung")) /\ calls[l].step = "load"
    <3>1. Loaded(l) \/ LoadFails(l) => calls[l].step = "load"
      BY DEF Loaded, StoreModule, LoadFails, ImportFails, ServiceTypeInv, CallsMatchLoads
    <3> QED
      BY <1>3, <3>1 DEF CallLoads, LoadGoesOn, LoadNotFound, LoadImports, LoadFails, Loaded, Fails,
         serviceVars
  <2>3. \A t \in Tasks : calls'[t] # NoCall =>
           calls[t] # NoCall /\ calls'[t].event = calls[t].event /\ calls'[t].n = calls[t].n
    <3>1. CASE End(l) \/ UNCHANGED calls
      BY <1>0, <3>1 DEF End
    <3>2. ASSUME NEW step, Goto(l, step), calls[l].step = "load", NEW t \in Tasks,
                 calls'[t] # NoCall
          PROVE  calls[t] # NoCall /\ calls'[t].event = calls[t].event /\ calls'[t].n = calls[t].n
      <4> DEFINE call == [calls[l] EXCEPT !.step = step]
      <4>1. calls' = [calls EXCEPT ![l] = call]
        BY <1>0, <3>2 DEF Goto
      <4>2. call.event = calls[l].event /\ call.n = calls[l].n /\ calls[l] # NoCall
        BY <1>0, <3>2 DEF CallType, NoCall
      <4> HIDE DEF call
      <4> QED
        BY <1>0, <3>2, <4>1, <4>2
    <3> QED
      BY <2>2, <3>1, <3>2
  <2> QED
    BY <2>1, <2>3, QuietEventsInv
<1>4. ASSUME NEW c \in Clients, NoName(c) \/ \E f \in Functions : Request(c, f) PROVE EventsInv'
  <2>1. UNCHANGED <<inbox, sent, answers>>
    BY <1>4 DEF NoName, Request, taskVars
  <2>2. UNCHANGED calls \/ \E call : calls' = [calls EXCEPT ![c] = call]
    BY <1>4 DEF NoName, Request, Begin
  <2>3. \A t \in Tasks : calls'[t] = calls[t]
    BY <1>0, <2>2
  <2> QED
    BY <2>1, <2>3, QuietEventsInv
<1>5. ASSUME NEW t \in Tasks, DropInbox(t) PROVE EventsInv'
  <2>1. UNCHANGED <<calls, sent, answers>> /\ \A s \in Tasks : inbox'[s] \in {inbox[s], <<>>}
    BY <1>5 DEF DropInbox, ServiceTypeInv, ServiceTypeOK
  <2> QED
    BY <2>1, QuietEventsInv
<1> QED
  BY <1>1, <1>2, <1>3, <1>4, <1>5, HandleEventsInv, EventEventsInv, TakeEventsInv DEF ServiceNext

(* What is published to an event is the answers of one execution, in the    *)
(* order of its items, however often the code is refreshed, consumers are   *)
(* cancelled and started, and the process ends.                             *)
THEOREM AnswersAreOneRunCorrect == ServiceSpec => []AnswersAreOneRun
<1> DEFINE Inv == ServiceTypeInv /\ TasksInv /\ EventsInv
<1>1. ServiceInit => Inv
  BY InitServiceTypeInv, InitTasksInv
<1>2. Inv /\ [ServiceNext]_allVars => Inv'
  BY StepServiceTypeInv, StepTasksInv, StepEventsInv
<1>3. Inv => AnswersAreOneRun
  BY DEF EventsInv
<1> QED
  BY <1>1, <1>2, <1>3, PTL DEF ServiceSpec
=============================================================================
