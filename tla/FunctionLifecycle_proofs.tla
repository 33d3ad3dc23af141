---------------------- MODULE FunctionLifecycle_proofs ----------------------
(***************************************************************************)
(* Proofs about FunctionLifecycle, for every set of functions, calls and   *)
(* cleanup jobs, every keep-warm duration and any number of faults.        *)
(***************************************************************************)
EXTENDS FunctionLifecycle, TLAPS

USE CallsAssumption, FunctionsAssumption, KeepWarmAssumption, MaxFaultsAssumption
    DEF Informer, Worker, Absent, Inactive, Active, Unset, Lapsed, Unlimited,
        Deployment, Service

------------------------------------------------------------------------------
(* The runtime of a function is one of the runtimes. *)
LEMMA RuntimeOfType == \A f \in Functions : RuntimeOf(f) \in Runtimes
BY DEF Runtimes

(* The initial state has the declared types. *)
LEMMA InitTypeOK == Init => TypeOK
BY DEF Init, TypeOK, Statuses, Holders, Kinds, IdleProcess, IdleJob

(* A call moves between the types of its record. *)
LEMMA CallTypeOK == ASSUME TypeOK, NEW c \in Calls, CallStep(c), NoFault PROVE TypeOK'
<1> USE DEF TypeOK, Statuses, Holders, CallSteps, IdleProcess,
            functionVars, objectVars, NoFault
<1>1. ASSUME NEW f \in Functions, CreateCheck(c, f) PROVE TypeOK'
  BY <1>1 DEF CreateCheck, BeginCall
<1>2. ASSUME NEW f \in Functions, ActivateGet(c, f) PROVE TypeOK'
  BY <1>2 DEF ActivateGet, BeginCall, ReadCached
<1>3. ASSUME NEW f \in Functions, StatusGet(c, f) PROVE TypeOK'
  BY <1>3 DEF StatusGet, BeginCall, ReadCached
<1>4. CASE CreateFunction(c)
  BY <1>4 DEF CreateFunction, EndCall, Write
<1>5. CASE ActivateUpdate(c)
  BY <1>5 DEF ActivateUpdate, EndCall, Write
<1>6. CASE ExtendUpdate(c)
  BY <1>6 DEF ExtendUpdate, EndCall, Write
<1>7. QED
  BY <1>1, <1>2, <1>3, <1>4, <1>5, <1>6 DEF CallStep

(* A reconcile pass moves between the types of its record. *)
LEMMA WorkerTypeOK == ASSUME TypeOK, WorkerStep, NoFault PROVE TypeOK'
<1> USE DEF TypeOK, Statuses, Holders, Kinds, WorkerSteps, DropSteps, PutSteps, IdleProcess,
            functionVars, objectVars, NoFault, Advance, FinishPass, Requeue
<1>1. ASSUME NEW f \in Functions, StartPass(f) PROVE TypeOK'
  BY <1>1 DEF StartPass, ReadCached
<1>2. CASE CheckShared
  BY <1>2 DEF CheckShared
<1>3. CASE DropDeployment
  BY <1>3, RuntimeOfType DEF DropDeployment, DropObject, DeleteObject
<1>4. CASE DropService
  BY <1>4, RuntimeOfType DEF DropService, DropObject, DeleteObject
<1>5. CASE PutDeployment
  BY <1>5, RuntimeOfType DEF PutDeployment, PutObject, CreateObject, Forget
<1>6. CASE PutService
  BY <1>6, RuntimeOfType DEF PutService, PutObject, CreateObject, Forget
<1>7. CASE RenewLease
  BY <1>7 DEF RenewLease, Write
<1>8. QED
  BY <1>1, <1>2, <1>3, <1>4, <1>5, <1>6, <1>7 DEF WorkerStep

(* A cleanup job moves between the types of its record. *)
LEMMA JobTypeOK == ASSUME TypeOK, NEW j \in Jobs, JobStep(j), NoFault PROVE TypeOK'
<1> USE DEF TypeOK, Statuses, Holders, Kinds, JobSteps, DropSteps, IdleJob,
            functionVars, objectVars, NoFault, JobAt
<1>1. CASE JobList(j)
  BY <1>1 DEF JobList, Expired
<1>2. ASSUME NEW f \in Functions, JobPatch(j, f) PROVE TypeOK'
  BY <1>2 DEF JobPatch, Write
<1>3. CASE JobCheck(j)
  BY <1>3 DEF JobCheck
<1>4. CASE JobDropDeployment(j)
  BY <1>4, RuntimeOfType DEF JobDropDeployment, JobDrop, DeleteObject
<1>5. CASE JobDropService(j)
  BY <1>5, RuntimeOfType DEF JobDropService, JobDrop, DeleteObject
<1>6. CASE JobEnd(j)
  BY <1>6 DEF JobEnd
<1>7. QED
  BY <1>1, <1>2, <1>3, <1>4, <1>5, <1>6 DEF JobStep

(* Watches, rollouts and the clock keep the types. *)
LEMMA ClusterTypeOK == ASSUME TypeOK, ClusterStep, NoFault PROVE TypeOK'
<1> USE DEF TypeOK, Statuses, Holders, Kinds, functionVars, objectVars, NoFault
<1>1. CASE SyncFunctions
  BY <1>1 DEF SyncFunctions
<1>2. ASSUME NEW k \in Kinds, SyncObjects(k) PROVE TypeOK'
  BY <1>2 DEF SyncObjects
<1>3. ASSUME NEW r \in Runtimes, Rollout(r) PROVE TypeOK'
  BY <1>3 DEF Rollout
<1>4. CASE Tick
  BY <1>4 DEF Tick
<1>5. QED
  BY <1>1, <1>2, <1>3, <1>4 DEF ClusterStep

(* A fault leaves a count of faults, or no bound on them. *)
LEMMA FaultsType ==
    ASSUME faults \in Nat \cup {Unlimited}, Fault
    PROVE  faults' \in Nat \cup {Unlimited}
<1>1. CASE faults = Unlimited
  BY <1>1 DEF Fault
<1>2. CASE faults \in Nat
  <2>1. faults # Unlimited /\ faults # 0
    BY <1>2 DEF Fault
  <2>2. faults' = faults - 1
    BY <2>1 DEF Fault
  <2>3. QED
    BY <1>2, <2>1, <2>2
<1>3. QED
  BY <1>1, <1>2

(* Failures, crashes and restarts keep the types. *)
LEMMA FaultTypeOK == ASSUME TypeOK, FaultStep PROVE TypeOK'
<1> USE DEF TypeOK, Statuses, Holders, Kinds, IdleProcess, IdleJob,
            functionVars, objectVars
<1>0. Fault => faults' \in Nat \cup {Unlimited}
  BY FaultsType
<1>1. ASSUME NEW c \in Calls, CallFails(c) PROVE TypeOK'
  BY <1>0, <1>1 DEF CallFails, Forget, EndCall
<1>2. CASE WorkerFails
  BY <1>0, <1>2 DEF WorkerFails, Requeue, Forget
<1>3. ASSUME NEW j \in Jobs, JobFails(j) PROVE TypeOK'
  BY <1>0, <1>3 DEF JobFails, JobAt, JobSteps, DropSteps
<1>4. ASSUME NEW j \in Jobs, JobCrash(j) PROVE TypeOK'
  BY <1>0, <1>4 DEF JobCrash
<1>5. CASE Restart
  BY <1>0, <1>5 DEF Restart
<1>6. QED
  BY <1>1, <1>2, <1>3, <1>4, <1>5 DEF FaultStep

(* Every variable keeps its type: the records of calls, passes and jobs     *)
(* name a function exactly while they are busy, and the time left never     *)
(* leaves its range.                                                        *)
THEOREM TypeCorrect == Spec => []TypeOK
<1>1. TypeOK /\ [Next]_vars => TypeOK'
  <2> SUFFICES ASSUME TypeOK, [Next]_vars PROVE TypeOK'
    OBVIOUS
  <2>1. CASE Next
    BY <2>1, CallTypeOK, WorkerTypeOK, JobTypeOK, ClusterTypeOK, FaultTypeOK DEF Next
  <2>2. CASE UNCHANGED vars
    BY <2>2 DEF vars, TypeOK
  <2>3. QED
    BY <2>1, <2>2
<1>2. QED
  BY InitTypeOK, <1>1, PTL DEF Spec

------------------------------------------------------------------------------
(* Initially every copy is exact. *)
LEMMA InitCurrentCopy == Init => CurrentCopyIsExact
BY DEF Init, CurrentCopyIsExact, CacheIsExact, CallCopyIsExact, PassCopyIsExact,
       ObjectCacheIsExact, IdleProcess, Current, PutSteps

(* A copy that is current after a write was current before, and the         *)
(* function it shows is as it was.                                          *)
LEMMA WriteOutdates ==
    ASSUME TypeOK, NEW h, NEW f \in Functions, NEW s \in Statuses,
           NEW t \in Unset..KeepWarm, Write(h, f, s, t)
    PROVE  \A g \in Functions : \A x \in fresh'[g] :
              x \in fresh[g] /\ status'[g] = status[g]
BY DEF TypeOK, Write

(* Ending a call and writing keep the copies exact. *)
LEMMA WriteKeepsCopies ==
    ASSUME TypeOK, CurrentCopyIsExact, NEW c \in Calls,
           NEW f \in Functions, NEW s \in Statuses, NEW t \in Unset..KeepWarm,
           Write(c, f, s, t) \/ UNCHANGED functionVars,
           EndCall(c), UNCHANGED <<cached, objectVars, worker>>
    PROVE  CurrentCopyIsExact'
<1> USE DEF functionVars
<1>1. \A g \in Functions : \A x \in fresh'[g] : x \in fresh[g] /\ status'[g] = status[g]
  BY WriteOutdates
<1>2. CacheIsExact'
  BY <1>1 DEF CurrentCopyIsExact, CacheIsExact
<1>3. ASSUME NEW d \in Calls, calls'[d].step \in {"activate", "extend"}
      PROVE  calls'[d] = calls[d] /\ calls[d].fn \in Functions
  BY <1>3 DEF TypeOK, EndCall, IdleProcess
<1>4. CallCopyIsExact'
  BY <1>1, <1>3 DEF CurrentCopyIsExact, CallCopyIsExact, Current
<1>5. worker.step \in PutSteps => worker.fn \in Functions
  BY DEF TypeOK, IdleProcess, PutSteps
<1>6. PassCopyIsExact'
  BY <1>1, <1>5 DEF CurrentCopyIsExact, PassCopyIsExact, Current
<1>7. ObjectCacheIsExact'
  BY DEF CurrentCopyIsExact, ObjectCacheIsExact, objectVars
<1>8. QED
  BY <1>2, <1>4, <1>6, <1>7 DEF CurrentCopyIsExact

(* A call reads a current copy or one that its update will find outdated. *)
LEMMA CallCurrentCopy ==
    ASSUME TypeOK, CurrentCopyIsExact, NEW c \in Calls, CallStep(c)
    PROVE  CurrentCopyIsExact'
<1>0. calls[c].step # "idle" => calls[c].fn \in Functions
  BY DEF TypeOK, IdleProcess
<1>1. ASSUME NEW f \in Functions, CreateCheck(c, f) PROVE CurrentCopyIsExact'
  BY <1>1 DEF CreateCheck, BeginCall,
         TypeOK, CurrentCopyIsExact, CacheIsExact, CallCopyIsExact, PassCopyIsExact,
         ObjectCacheIsExact, Current, IdleProcess, functionVars, objectVars
<1>2. ASSUME NEW f \in Functions, ActivateGet(c, f) PROVE CurrentCopyIsExact'
  BY <1>2 DEF ActivateGet, BeginCall, ReadCached,
         TypeOK, CurrentCopyIsExact, CacheIsExact, CallCopyIsExact, PassCopyIsExact,
         ObjectCacheIsExact, Current, IdleProcess, functionVars, objectVars
<1>3. ASSUME NEW f \in Functions, StatusGet(c, f) PROVE CurrentCopyIsExact'
  BY <1>3 DEF StatusGet, BeginCall, ReadCached,
         TypeOK, CurrentCopyIsExact, CacheIsExact, CallCopyIsExact, PassCopyIsExact,
         ObjectCacheIsExact, Current, IdleProcess, functionVars, objectVars
<1>4. CASE CreateFunction(c)
  BY <1>4, <1>0, WriteKeepsCopies DEF CreateFunction, Statuses
<1>5. CASE ActivateUpdate(c)
  BY <1>5, <1>0, WriteKeepsCopies DEF ActivateUpdate, Statuses
<1>6. CASE ExtendUpdate(c)
  BY <1>6, <1>0, WriteKeepsCopies DEF ExtendUpdate, Statuses
<1>7. QED
  BY <1>1, <1>2, <1>3, <1>4, <1>5, <1>6 DEF CallStep

(* A pass that will write its copy back made it of an active function, and  *)
(* an object the pass touches is marked outdated in the cache.              *)
LEMMA WorkerCurrentCopy ==
    ASSUME TypeOK, CurrentCopyIsExact, WorkerStep
    PROVE  CurrentCopyIsExact'
<1> USE DEF TypeOK, CurrentCopyIsExact, CacheIsExact, CallCopyIsExact, PassCopyIsExact,
            ObjectCacheIsExact, Current, IdleProcess, functionVars, objectVars,
            PutSteps, Advance, FinishPass, Requeue
<1>1. ASSUME NEW f \in Functions, StartPass(f) PROVE CurrentCopyIsExact'
  BY <1>1 DEF StartPass, ReadCached
<1>2. CASE CheckShared
  BY <1>2 DEF CheckShared
<1>3. CASE DropDeployment
  BY <1>3, RuntimeOfType DEF DropDeployment, DropObject, DeleteObject, Kinds
<1>4. CASE DropService
  BY <1>4, RuntimeOfType DEF DropService, DropObject, DeleteObject, Kinds
<1>5. CASE PutDeployment
  BY <1>5, RuntimeOfType DEF PutDeployment, PutObject, CreateObject, Forget, Kinds
<1>6. CASE PutService
  BY <1>6, RuntimeOfType DEF PutService, PutObject, CreateObject, Forget, Kinds
<1>7. CASE RenewLease
  BY <1>7 DEF RenewLease, Write
<1>8. QED
  BY <1>1, <1>2, <1>3, <1>4, <1>5, <1>6, <1>7 DEF WorkerStep

(* A cleanup job reads no cache, and what it writes outdates every copy. *)
LEMMA JobCurrentCopy ==
    ASSUME TypeOK, CurrentCopyIsExact, NEW j \in Jobs, JobStep(j)
    PROVE  CurrentCopyIsExact'
<1> USE DEF TypeOK, CurrentCopyIsExact, CacheIsExact, CallCopyIsExact, PassCopyIsExact,
            ObjectCacheIsExact, Current, functionVars, objectVars, JobAt
<1>1. CASE JobList(j)
  BY <1>1 DEF JobList
<1>2. ASSUME NEW f \in Functions, JobPatch(j, f) PROVE CurrentCopyIsExact'
  BY <1>2 DEF JobPatch, Write
<1>3. CASE JobCheck(j)
  BY <1>3 DEF JobCheck
<1>4. CASE JobDropDeployment(j)
  BY <1>4, RuntimeOfType DEF JobDropDeployment, JobDrop, DeleteObject, Kinds
<1>5. CASE JobDropService(j)
  BY <1>5, RuntimeOfType DEF JobDropService, JobDrop, DeleteObject, Kinds
<1>6. CASE JobEnd(j)
  BY <1>6 DEF JobEnd
<1>7. QED
  BY <1>1, <1>2, <1>3, <1>4, <1>5, <1>6 DEF JobStep

(* A watch that catches up copies the stored state. *)
LEMMA ClusterCurrentCopy ==
    ASSUME TypeOK, CurrentCopyIsExact, ClusterStep
    PROVE  CurrentCopyIsExact'
<1> USE DEF TypeOK, CurrentCopyIsExact, CacheIsExact, CallCopyIsExact, PassCopyIsExact,
            ObjectCacheIsExact, Current, functionVars, objectVars, Kinds
<1>1. CASE SyncFunctions
  <2>1. CacheIsExact'
    BY <1>1 DEF SyncFunctions
  <2>2. \A h \in Calls \cup {Worker}, f \in Functions : h \in fresh'[f] => h \in fresh[f]
    BY <1>1 DEF SyncFunctions
  <2>3. \A c \in Calls : calls[c].step # "idle" => calls[c].fn \in Functions
    BY DEF IdleProcess
  <2>4. CallCopyIsExact'
    BY <1>1, <2>2, <2>3 DEF SyncFunctions
  <2>5. worker.step \in PutSteps => worker.fn \in Functions
    BY DEF PutSteps, IdleProcess
  <2>6. PassCopyIsExact'
    BY <1>1, <2>2, <2>5 DEF SyncFunctions
  <2>7. ObjectCacheIsExact'
    BY <1>1 DEF SyncFunctions
  <2>8. QED
    BY <2>1, <2>4, <2>6, <2>7
<1>2. ASSUME NEW k \in Kinds, SyncObjects(k) PROVE CurrentCopyIsExact'
  BY <1>2 DEF SyncObjects
<1>3. ASSUME NEW r \in Runtimes, Rollout(r) PROVE CurrentCopyIsExact'
  BY <1>3 DEF Rollout
<1>4. CASE Tick
  BY <1>4 DEF Tick
<1>5. QED
  BY <1>1, <1>2, <1>3, <1>4 DEF ClusterStep

(* Faults drop copies, or copy everything anew. *)
LEMMA FaultCurrentCopy ==
    ASSUME TypeOK, CurrentCopyIsExact, FaultStep
    PROVE  CurrentCopyIsExact'
<1> USE DEF TypeOK, CurrentCopyIsExact, CacheIsExact, CallCopyIsExact, PassCopyIsExact,
            ObjectCacheIsExact, Current, IdleProcess, functionVars, objectVars, PutSteps
<1>1. ASSUME NEW c \in Calls, CallFails(c) PROVE CurrentCopyIsExact'
  BY <1>1 DEF CallFails, Forget, EndCall
<1>2. CASE WorkerFails
  BY <1>2 DEF WorkerFails, Requeue, Forget
<1>3. ASSUME NEW j \in Jobs, JobFails(j) PROVE CurrentCopyIsExact'
  BY <1>3 DEF JobFails
<1>4. ASSUME NEW j \in Jobs, JobCrash(j) PROVE CurrentCopyIsExact'
  BY <1>4 DEF JobCrash
<1>5. CASE Restart
  BY <1>5 DEF Restart
<1>6. QED
  BY <1>1, <1>2, <1>3, <1>4, <1>5 DEF FaultStep

(* A copy that carries the stored version is never outdated in what its     *)
(* holder relies on, so no update of the gRPC server or of the reconciler   *)
(* writes back an old value.                                                *)
THEOREM CurrentCopyCorrect == Spec => []CurrentCopyIsExact
<1>1. TypeOK /\ CurrentCopyIsExact /\ [Next]_vars => CurrentCopyIsExact'
  <2> SUFFICES ASSUME TypeOK, CurrentCopyIsExact, [Next]_vars PROVE CurrentCopyIsExact'
    OBVIOUS
  <2>1. CASE Next
    BY <2>1, CallCurrentCopy, WorkerCurrentCopy, JobCurrentCopy, ClusterCurrentCopy,
       FaultCurrentCopy DEF Next
  <2>2. CASE UNCHANGED vars
    BY <2>2 DEF vars, CurrentCopyIsExact, CacheIsExact, CallCopyIsExact, PassCopyIsExact,
                ObjectCacheIsExact, Current
  <2>3. QED
    BY <2>1, <2>2
<1>2. QED
  BY InitCurrentCopy, TypeCorrect, <1>1, PTL DEF Spec

------------------------------------------------------------------------------
(* Two functions that share a runtime are dynamic and of one project. *)
LEMMA SharedRuntime ==
    ASSUME NEW f \in Functions, NEW g \in Functions, f # g, RuntimeOf(f) = RuntimeOf(g)
    PROVE  Dynamic(f) /\ Language[f] = Language[g] /\ Project[f] = Project[g]
BY DEF RuntimeOf, Dynamic

(* What a step must do to keep every pass that is still to come. *)
KeepsDue ==
    \A g \in Functions :
        /\ Due(g) => Due(g)'
        /\ status'[g] = Active => status[g] = Active \/ Due(g)'

(* A function that a write leaves active was so before, or has an event to  *)
(* come, and a write never takes an event away.                             *)
LEMMA WriteIsDue ==
    ASSUME TypeOK, NEW h, NEW f \in Functions, NEW s \in Statuses,
           NEW t \in Unset..KeepWarm, Write(h, f, s, t), queue \subseteq queue'
    PROVE  KeepsDue
BY DEF TypeOK, Write, Due, KeepsDue

(* Only the start of a pass takes a function off the workqueue. *)
LEMMA CallKeepsDue == ASSUME TypeOK, NEW c \in Calls, CallStep(c) PROVE KeepsDue
<1> USE DEF KeepsDue, functionVars, objectVars
<1>0. calls[c].step # "idle" => calls[c].fn \in Functions
  BY DEF TypeOK, IdleProcess
<1>1. ASSUME NEW f \in Functions, CreateCheck(c, f) PROVE KeepsDue
  BY <1>1 DEF CreateCheck, Due
<1>2. ASSUME NEW f \in Functions, ActivateGet(c, f) PROVE KeepsDue
  BY <1>2 DEF ActivateGet, ReadCached, Due, TypeOK
<1>3. ASSUME NEW f \in Functions, StatusGet(c, f) PROVE KeepsDue
  BY <1>3 DEF StatusGet, ReadCached, Due, TypeOK
<1>4. CASE UNCHANGED <<functionVars, queue>>
  BY <1>4 DEF Due
<1>5. CASE CreateFunction(c)
  BY <1>5, <1>0, <1>4, WriteIsDue DEF CreateFunction, Statuses
<1>6. CASE ActivateUpdate(c)
  BY <1>6, <1>0, <1>4, WriteIsDue DEF ActivateUpdate, Statuses
<1>7. CASE ExtendUpdate(c)
  BY <1>7, <1>0, <1>4, WriteIsDue DEF ExtendUpdate, Statuses
<1>8. QED
  BY <1>1, <1>2, <1>3, <1>5, <1>6, <1>7 DEF CallStep

LEMMA JobKeepsDue == ASSUME TypeOK, NEW j \in Jobs, JobStep(j) PROVE KeepsDue
<1> USE DEF KeepsDue, functionVars, objectVars
<1>1. ASSUME NEW f \in Functions, JobPatch(j, f) PROVE KeepsDue
  BY <1>1, WriteIsDue DEF JobPatch, Statuses
<1>2. CASE UNCHANGED <<functionVars, queue>>
  BY <1>2 DEF Due
<1>3. QED
  BY <1>1, <1>2 DEF JobStep, JobList, JobCheck, JobDropDeployment, JobDropService, JobDrop, JobEnd

LEMMA ClusterKeepsDue == ASSUME TypeOK, ClusterStep PROVE KeepsDue
<1> USE DEF KeepsDue, functionVars, objectVars
<1>1. CASE SyncFunctions
  BY <1>1 DEF SyncFunctions, Due
<1>2. CASE UNCHANGED <<status, fresh, queue>>
  BY <1>2 DEF Due
<1>3. QED
  BY <1>1, <1>2 DEF ClusterStep, SyncObjects, Rollout, Tick

(* No pass runs at first. *)
LEMMA InitDropIsRepaired == Init => DropIsRepaired
BY DEF Init, DropIsRepaired, DropSteps, IdleProcess

(* A step that leaves the pass alone and every due function due.            *)
LEMMA OthersKeepDrop ==
    ASSUME DropIsRepaired, KeepsDue, UNCHANGED worker
    PROVE  DropIsRepaired'
<1> SUFFICES ASSUME NEW f \in Functions, status'[f] = Active,
                    \/ worker.step = "check" /\ worker.fn = f
                    \/ worker.step \in DropSteps /\ RuntimeOf(worker.fn) = RuntimeOf(f)
             PROVE  Due(f)'
  BY DEF DropIsRepaired
<1>1. status[f] = Active \/ Due(f)'
  BY DEF KeepsDue
<1>2. CASE status[f] = Active
  BY <1>2 DEF DropIsRepaired, KeepsDue
<1>3. QED
  BY <1>1, <1>2

(* The pass goes on to take a runtime down only if the cache shows no other *)
(* active user; one that is active nevertheless has an event to come.       *)
LEMMA WorkerDrop ==
    ASSUME TypeOK, CurrentCopyIsExact, DropIsRepaired, WorkerStep
    PROVE  DropIsRepaired'
<1> USE DEF functionVars, objectVars
<1>1. worker.step # "idle" => worker.fn \in Functions
  BY DEF TypeOK, IdleProcess
<1>2. ASSUME worker'.step \notin {"check"} \cup DropSteps PROVE DropIsRepaired'
  BY <1>2 DEF DropIsRepaired
<1>3. ASSUME NEW f \in Functions, StartPass(f) PROVE DropIsRepaired'
  <2>1. CASE cached[f] = Active
    BY <1>2, <1>3, <2>1 DEF StartPass, Inactive, Active, DropSteps
  <2>2. CASE cached[f] = Inactive
    <3>1. worker' = [step |-> "check", fn |-> f] /\ UNCHANGED functionVars
      BY <1>3, <2>2 DEF StartPass
    <3>2. status[f] = Active => Informer \notin fresh[f]
      BY <2>2 DEF CurrentCopyIsExact, CacheIsExact
    <3>3. QED
      BY <3>1, <3>2 DEF DropIsRepaired, Due, DropSteps
  <2>3. QED
    BY <1>3, <2>1, <2>2 DEF StartPass
<1>4. CASE CheckShared
  <2>1. CASE SharedInUse(cached, worker.fn)
    BY <1>2, <1>4, <2>1 DEF CheckShared, FinishPass, IdleProcess, DropSteps
  <2>2. CASE ~SharedInUse(cached, worker.fn)
    <3> SUFFICES ASSUME NEW f \in Functions, status[f] = Active,
                        RuntimeOf(worker.fn) = RuntimeOf(f)
                 PROVE  Due(f)
      BY <1>4, <2>2 DEF CheckShared, Advance, DropIsRepaired, Due, DropSteps
    <3>1. worker.step = "check" /\ worker.fn \in Functions
      BY <1>1, <1>4 DEF CheckShared
    <3>2. CASE worker.fn = f
      BY <3>1, <3>2 DEF DropIsRepaired
    <3>3. CASE worker.fn # f
      <4>1. cached[f] # Active
        BY <2>2, <3>1, <3>3, SharedRuntime DEF SharedInUse
      <4>2. QED
        BY <4>1 DEF CurrentCopyIsExact, CacheIsExact, Due
    <3>4. QED
      BY <3>2, <3>3
  <2>3. QED
    BY <2>1, <2>2
<1>5. CASE DropDeployment
  <2>1. CASE worker' = [step |-> "dropService", fn |-> worker.fn] /\ UNCHANGED queue
    BY <1>5, <2>1 DEF DropDeployment, DropObject, DropIsRepaired, Due, DropSteps
  <2>2. CASE worker' = IdleProcess
    BY <1>2, <2>2 DEF IdleProcess, DropSteps
  <2>3. QED
    BY <1>5, <2>1, <2>2 DEF DropDeployment, DropObject, Advance, Requeue
<1>6. CASE DropService
  BY <1>2, <1>6 DEF DropService, DropObject, FinishPass, Requeue, IdleProcess, DropSteps
<1>7. CASE PutDeployment
  BY <1>2, <1>7 DEF PutDeployment, PutObject, Advance, Requeue, IdleProcess, DropSteps
<1>8. CASE PutService
  BY <1>2, <1>8 DEF PutService, PutObject, Advance, Requeue, IdleProcess, DropSteps
<1>9. CASE RenewLease
  BY <1>2, <1>9 DEF RenewLease, FinishPass, Requeue, IdleProcess, DropSteps
<1>10. QED
  BY <1>3, <1>4, <1>5, <1>6, <1>7, <1>8, <1>9 DEF WorkerStep

(* A fault ends the pass or has nothing to do with it. *)
LEMMA FaultDrop ==
    ASSUME TypeOK, DropIsRepaired, FaultStep
    PROVE  DropIsRepaired'
<1> USE DEF functionVars, objectVars
<1>1. ASSUME worker' = IdleProcess PROVE DropIsRepaired'
  BY <1>1 DEF DropIsRepaired, IdleProcess, DropSteps
<1>2. ASSUME NEW c \in Calls, CallFails(c) PROVE DropIsRepaired'
  <2>1. KeepsDue
    BY <1>2 DEF CallFails, Forget, KeepsDue, Due, TypeOK
  <2>2. QED
    BY <1>2, <2>1, OthersKeepDrop DEF CallFails
<1>3. CASE UNCHANGED <<functionVars, queue, worker>>
  BY <1>3, OthersKeepDrop DEF KeepsDue, Due
<1>4. QED
  BY <1>1, <1>2, <1>3 DEF FaultStep, WorkerFails, Requeue, JobFails, JobCrash, Restart

(* Whatever runtime the reconciler takes down, each active function that    *)
(* uses it will be looked at again.                                         *)
THEOREM DropRepaired == Spec => []DropIsRepaired
<1>1. TypeOK /\ CurrentCopyIsExact /\ DropIsRepaired /\ [Next]_vars => DropIsRepaired'
  <2> SUFFICES ASSUME TypeOK, CurrentCopyIsExact, DropIsRepaired, [Next]_vars
               PROVE  DropIsRepaired'
    OBVIOUS
  <2>1. ASSUME NEW c \in Calls, CallStep(c) PROVE DropIsRepaired'
    BY <2>1, CallKeepsDue, OthersKeepDrop DEF CallStep, CreateCheck, CreateFunction,
       ActivateGet, ActivateUpdate, StatusGet, ExtendUpdate
  <2>2. ASSUME NEW j \in Jobs, JobStep(j) PROVE DropIsRepaired'
    BY <2>2, JobKeepsDue, OthersKeepDrop DEF JobStep, JobList, JobPatch, JobCheck,
       JobDropDeployment, JobDropService, JobDrop, JobEnd
  <2>3. CASE ClusterStep
    BY <2>3, ClusterKeepsDue, OthersKeepDrop DEF ClusterStep, SyncFunctions, SyncObjects,
       Rollout, Tick
  <2>4. CASE UNCHANGED vars
    BY <2>4, OthersKeepDrop DEF vars, KeepsDue, Due
  <2>5. QED
    BY <2>1, <2>2, <2>3, <2>4, WorkerDrop, FaultDrop DEF Next
<1>2. QED
  BY InitDropIsRepaired, TypeCorrect, CurrentCopyCorrect, <1>1, PTL DEF Spec

------------------------------------------------------------------------------
(* A step that leaves the pass and f's object alone and every due function  *)
(* due keeps f covered.                                                     *)
LEMMA OthersKeepCovered ==
    ASSUME KeepsDue, UNCHANGED worker, NEW f \in Functions, NEW k \in Kinds,
           Covered(f, k), RuntimeOf(f) \in live[k] => RuntimeOf(f) \in live'[k]
    PROVE  Covered(f, k)'
BY DEF KeepsDue, Covered, Owed

(* A pass that starts for f now owes f its objects; a pass that takes a     *)
(* runtime down or fails leaves its users due; and a pass that goes on from *)
(* an object has found it or created it.                                    *)
LEMMA WorkerKeepsCovered ==
    ASSUME TypeOK, CurrentCopyIsExact, DropIsRepaired, WorkerStep,
           NEW f \in Functions, NEW k \in Kinds, Covered(f, k)
    PROVE  Covered(f, k)'
<1> USE DEF functionVars, objectVars
<1>1. worker.step # "idle" => worker.fn \in Functions
  BY DEF TypeOK, IdleProcess
<1>2. ASSUME NEW g \in Functions, StartPass(g) PROVE Covered(f, k)'
  <2>1. UNCHANGED <<live, status>>
    BY <1>2 DEF StartPass
  <2>2. CASE g = f /\ cached[f] = Active
    BY <1>2, <2>2, <2>1 DEF StartPass, Covered, Owed, Inactive, Active
  <2>3. CASE g = f /\ cached[f] = Inactive
    <3>1. status[f] = Active => Informer \notin fresh[f]
      BY <2>3 DEF CurrentCopyIsExact, CacheIsExact
    <3>2. QED
      BY <1>2, <2>3, <2>1, <3>1 DEF StartPass, Covered, Owed, Due
  <2>4. CASE g # f
    <3>1. f \in queue => f \in queue'
      BY <1>2, <2>4 DEF StartPass
    <3>2. fresh'[f] = fresh[f]
      BY <1>2, <2>4 DEF StartPass, ReadCached, TypeOK
    <3>3. ~(worker.fn = f /\ worker.step \in {"putDeployment", "putService"})
      BY <1>2 DEF StartPass
    <3>4. QED
      BY <2>1, <3>1, <3>2, <3>3 DEF Covered, Owed, Due
  <2>5. QED
    BY <1>2, <2>2, <2>3, <2>4 DEF StartPass
<1>3. CASE CheckShared
  BY <1>3 DEF CheckShared, FinishPass, Advance, Covered, Owed, Due
<1>4. ASSUME worker.step \in DropSteps, UNCHANGED <<status, fresh>>, queue \subseteq queue',
             RuntimeOf(worker.fn) # RuntimeOf(f)
                => (RuntimeOf(f) \in live[k] => RuntimeOf(f) \in live'[k])
      PROVE  Covered(f, k)'
  BY <1>4 DEF DropIsRepaired, Covered, Owed, Due, DropSteps
<1>5. CASE DropDeployment
  <2>1. RuntimeOf(worker.fn) # RuntimeOf(f)
           => (RuntimeOf(f) \in live[k] => RuntimeOf(f) \in live'[k])
    BY <1>5 DEF DropDeployment, DropObject, DeleteObject, TypeOK, Kinds
  <2>2. QED
    BY <1>4, <1>5, <2>1 DEF DropDeployment, DropObject, Requeue, DropSteps
<1>6. CASE DropService
  <2>1. RuntimeOf(worker.fn) # RuntimeOf(f)
           => (RuntimeOf(f) \in live[k] => RuntimeOf(f) \in live'[k])
    BY <1>6 DEF DropService, DropObject, DeleteObject, TypeOK, Kinds
  <2>2. QED
    BY <1>4, <1>6, <2>1 DEF DropService, DropObject, Requeue, FinishPass, DropSteps
<1>7. CASE PutDeployment
  BY <1>1, <1>7, RuntimeOfType
     DEF PutDeployment, PutObject, CreateObject, Forget, Requeue, Advance, TypeOK, Kinds,
         CurrentCopyIsExact, ObjectCacheIsExact, Covered, Owed, Due
<1>8. CASE PutService
  BY <1>1, <1>8, RuntimeOfType
     DEF PutService, PutObject, CreateObject, Forget, Requeue, Advance, TypeOK, Kinds,
         CurrentCopyIsExact, ObjectCacheIsExact, Covered, Owed, Due
<1>9. CASE RenewLease
  BY <1>1, <1>9
     DEF RenewLease, Write, FinishPass, Requeue, TypeOK, Kinds,
         CurrentCopyIsExact, PassCopyIsExact, PutSteps, Covered, Owed, Due
<1>10. QED
  BY <1>2, <1>3, <1>5, <1>6, <1>7, <1>8, <1>9 DEF WorkerStep

(* A failed pass is queued again, and a restart queues every function.      *)
LEMMA FaultKeepsCovered ==
    ASSUME TypeOK, FaultStep, NEW f \in Functions, NEW k \in Kinds, Covered(f, k)
    PROVE  Covered(f, k)'
<1> USE DEF functionVars, objectVars
<1>1. ASSUME NEW c \in Calls, CallFails(c) PROVE Covered(f, k)'
  BY <1>1 DEF CallFails, Forget, Covered, Owed, Due
<1>2. CASE WorkerFails
  BY <1>2 DEF WorkerFails, Requeue, Forget, Covered, Owed, Due
<1>3. ASSUME NEW j \in Jobs, JobFails(j) \/ JobCrash(j) PROVE Covered(f, k)'
  BY <1>3 DEF JobFails, JobCrash, Covered, Owed, Due
<1>4. CASE Restart
  BY <1>4 DEF Restart, Covered, Owed, Due, Absent, Active
<1>5. QED
  BY <1>1, <1>2, <1>3, <1>4 DEF FaultStep

(* A job uncovers a function only by deleting its object. *)
LEMMA JobUncovers ==
    ASSUME TypeOK, NEW j \in Jobs, JobStep(j), NEW f \in Functions, NEW k \in Kinds,
           Covered(f, k), ~Covered(f, k)'
    PROVE  /\ jobs[j].step = (IF k = Service THEN "dropService" ELSE "dropDeployment")
           /\ RuntimeOf(jobs[j].fn) = RuntimeOf(f)
           /\ jobs'[j] # jobs[j]
<1> USE DEF functionVars, objectVars
<1>1. RuntimeOf(f) \in live[k] /\ RuntimeOf(f) \notin live'[k]
  <2>1. UNCHANGED worker
    BY DEF JobStep, JobList, JobPatch, JobCheck, JobDropDeployment, JobDropService, JobDrop,
           JobEnd
  <2>2. QED
    BY <2>1, JobKeepsDue, OthersKeepCovered
<1>2. CASE JobDropDeployment(j)
  <2>1. k = Deployment /\ RuntimeOf(jobs[j].fn) = RuntimeOf(f)
    BY <1>1, <1>2 DEF JobDropDeployment, JobDrop, DeleteObject, TypeOK, Kinds
  <2>2. jobs[j].step = "dropDeployment" /\ jobs'[j].step = "dropService"
    BY <1>2 DEF JobDropDeployment, JobAt, TypeOK
  <2>3. QED
    BY <2>1, <2>2
<1>3. CASE JobDropService(j)
  <2>1. k = Service /\ RuntimeOf(jobs[j].fn) = RuntimeOf(f)
    BY <1>1, <1>3 DEF JobDropService, JobDrop, DeleteObject, TypeOK, Kinds
  <2>2. jobs[j].step = "dropService" /\ jobs'[j].step = "loop"
    BY <1>3 DEF JobDropService, JobAt, TypeOK
  <2>3. QED
    BY <2>1, <2>2
<1>4. QED
  BY <1>1, <1>2, <1>3 DEF JobStep, JobList, JobPatch, JobCheck, JobEnd

(* An active function loses its deployment or its service, with no pass to  *)
(* come that puts it back, only to a delete of a cleanup job: the           *)
(* reconciler never does it, whatever its caches show and whatever fails.   *)
THEOREM OnlyCleanupStrandsCorrect == Spec => OnlyCleanupStrands
<1> DEFINE Step ==
       \A f \in Functions, k \in Kinds :
          (Covered(f, k) /\ ~Covered(f, k)') =>
             \E j \in Jobs :
                /\ jobs[j].step = (IF k = Service THEN "dropService" ELSE "dropDeployment")
                /\ RuntimeOf(jobs[j].fn) = RuntimeOf(f)
                /\ jobs'[j] # jobs[j]
<1>1. TypeOK /\ CurrentCopyIsExact /\ DropIsRepaired /\ [Next]_vars => [Step]_vars
  <2> SUFFICES ASSUME TypeOK, CurrentCopyIsExact, DropIsRepaired, Next,
                      NEW f \in Functions, NEW k \in Kinds,
                      Covered(f, k), ~Covered(f, k)'
               PROVE  \E j \in Jobs :
                /\ jobs[j].step = (IF k = Service THEN "dropService" ELSE "dropDeployment")
                /\ RuntimeOf(jobs[j].fn) = RuntimeOf(f)
                /\ jobs'[j] # jobs[j]
    OBVIOUS
  <2>1. ASSUME NEW c \in Calls, CallStep(c) PROVE FALSE
    BY <2>1, CallKeepsDue, OthersKeepCovered DEF CallStep, CreateCheck, CreateFunction,
       ActivateGet, ActivateUpdate, StatusGet, ExtendUpdate, objectVars
  <2>2. ASSUME ClusterStep PROVE FALSE
    BY <2>2, ClusterKeepsDue, OthersKeepCovered DEF ClusterStep, SyncFunctions, SyncObjects,
       Rollout, Tick, objectVars
  <2>3. PICK j \in Jobs : JobStep(j)
    BY <2>1, <2>2, WorkerKeepsCovered, FaultKeepsCovered DEF Next
  <2>4. QED
    BY <2>3, JobUncovers
<1>2. QED
  BY TypeCorrect, CurrentCopyCorrect, DropRepaired, <1>1, PTL DEF Spec, OnlyCleanupStrands

------------------------------------------------------------------------------
(* No code deletes a Function: what a cache shows or a job has listed still *)
(* exists.                                                                  *)
KnownExists ==
    \A f \in Functions :
        (cached[f] # Absent \/ \E j \in Jobs : f \in jobs[j].todo) => status[f] # Absent

(* No step unregisters a function. *)
LEMMA StaysRegistered ==
    ASSUME TypeOK, [Next]_vars, NEW f \in Functions, status[f] # Absent
    PROVE  status'[f] # Absent
<1> USE DEF functionVars, objectVars
<1>1. ASSUME NEW h, NEW g, NEW s \in {Inactive, Active}, NEW t, Write(h, g, s, t)
      PROVE  status'[f] # Absent
  BY <1>1 DEF Write, TypeOK
<1>2. ASSUME NEW c \in Calls, CallStep(c) PROVE status'[f] # Absent
  BY <1>1, <1>2 DEF CallStep, CreateCheck, ActivateGet, StatusGet, CreateFunction,
                    ActivateUpdate, ExtendUpdate
<1>3. CASE WorkerStep
  BY <1>1, <1>3 DEF WorkerStep, StartPass, CheckShared, DropDeployment, DropService,
                    DropObject, PutDeployment, PutService, PutObject, RenewLease
<1>4. ASSUME NEW j \in Jobs, JobStep(j) PROVE status'[f] # Absent
  BY <1>1, <1>4 DEF JobStep, JobList, JobPatch, JobCheck, JobDropDeployment, JobDropService,
                    JobDrop, JobEnd
<1>5. CASE ClusterStep
  BY <1>5 DEF ClusterStep, SyncFunctions, SyncObjects, Rollout, Tick
<1>6. CASE FaultStep
  BY <1>6 DEF FaultStep, CallFails, WorkerFails, JobFails, JobCrash, Restart
<1>7. QED
  BY <1>2, <1>3, <1>4, <1>5, <1>6 DEF Next, vars

(* A cache changes only to the stored state, and a job only lists what is   *)
(* stored.                                                                  *)
LEMMA KnownExistsCorrect == Spec => []KnownExists
<1>1. Init => KnownExists
  BY DEF Init, KnownExists, IdleJob
<1>2. TypeOK /\ KnownExists /\ [Next]_vars => KnownExists'
  <2> SUFFICES ASSUME TypeOK, KnownExists, [Next]_vars, NEW f \in Functions,
                      cached'[f] # Absent \/ \E j \in Jobs : f \in jobs'[j].todo
               PROVE  status'[f] # Absent
    BY DEF KnownExists
  <2>1. cached'[f] # Absent => status[f] # Absent
    <3>1. cached' \in {cached, status}
      BY DEF Next, vars, CallStep, CreateCheck, ActivateGet, StatusGet, CreateFunction,
             ActivateUpdate, ExtendUpdate, WorkerStep, StartPass, CheckShared, DropDeployment,
             DropService, DropObject, PutDeployment, PutService, PutObject, RenewLease,
             JobStep, JobList, JobPatch, JobCheck, JobDropDeployment, JobDropService, JobDrop,
             JobEnd, ClusterStep, SyncFunctions, SyncObjects, Rollout, Tick, FaultStep,
             CallFails, WorkerFails, JobFails, JobCrash, Restart
    <3>2. QED
      BY <3>1 DEF KnownExists
  <2>2. ASSUME NEW j \in Jobs, f \in jobs'[j].todo PROVE status[f] # Absent
    <3>1. CASE f \in jobs[j].todo
      BY <3>1 DEF KnownExists
    <3>2. CASE jobs' = jobs
      BY <2>2, <3>2 DEF KnownExists
    <3>3. ASSUME NEW i \in Jobs, JobStep(i) \/ JobFails(i) \/ JobCrash(i)
          PROVE  f \in jobs[j].todo \/ f \in Expired
      <4>1. i # j => jobs'[j] = jobs[j]
        BY <3>3 DEF JobStep, JobList, JobPatch, JobCheck, JobDropDeployment, JobDropService,
                    JobEnd, JobFails, JobCrash, JobAt, TypeOK
      <4>2. jobs'[i].todo \subseteq jobs[i].todo \cup Expired
        BY <3>3 DEF JobStep, JobList, JobPatch, JobCheck, JobDropDeployment, JobDropService,
                    JobEnd, JobFails, JobCrash, JobAt, TypeOK, IdleJob
      <4>3. QED
        BY <2>2, <4>1, <4>2
    <3>4. f \in Expired => status[f] # Absent
      BY DEF Expired
    <3>5. jobs' = jobs \/ \E i \in Jobs : JobStep(i) \/ JobFails(i) \/ JobCrash(i)
      BY DEF Next, vars, CallStep, CreateCheck, ActivateGet, StatusGet, CreateFunction,
             ActivateUpdate, ExtendUpdate, WorkerStep, StartPass, CheckShared, DropDeployment,
             DropService, DropObject, PutDeployment, PutService, PutObject, RenewLease,
             ClusterStep, SyncFunctions, SyncObjects, Rollout, Tick, FaultStep,
             CallFails, WorkerFails, Restart
    <3>6. QED
      BY <3>1, <3>2, <3>3, <3>4, <3>5
  <2>3. QED
    BY <2>1, <2>2, StaysRegistered
<1>3. QED
  BY TypeCorrect, <1>1, <1>2, PTL DEF Spec

(* A change of one function's status is a change of its lease. *)
LEMMA LeaseOfExcept ==
    ASSUME TypeOK, NEW f \in Functions, NEW s \in Statuses,
           status' = [status EXCEPT ![f] = s]
    PROVE  LeaseOf' = [LeaseOf EXCEPT ![f] = LeaseState(s)]
BY DEF TypeOK, LeaseOf

(* The end of a call takes at most its own function off those asked for.    *)
LEMMA AskedEnd ==
    ASSUME TypeOK, NEW c \in Calls, EndCall(c)
    PROVE  /\ calls[c].step # "activate" => Asked' = Asked
           /\ Asked' \in {Asked, Asked \ {calls[c].fn}}
<1>1. \A d \in Calls : calls'[d] = IF d = c THEN IdleProcess ELSE calls[d]
  BY DEF TypeOK, EndCall
<1>2. \A d \in Calls : calls'[d].step = "activate" <=> d # c /\ calls[d].step = "activate"
  BY <1>1 DEF IdleProcess
<1>3. Asked' = {calls[d].fn : d \in {e \in Calls \ {c} : calls[e].step = "activate"}}
  BY <1>1, <1>2 DEF Asked
<1>4. CASE calls[c].step # "activate"
  BY <1>3, <1>4 DEF Asked
<1>5. CASE calls[c].step = "activate"
  <2>1. Asked = Asked' \cup {calls[c].fn}
    BY <1>3, <1>5 DEF Asked
  <2>2. QED
    BY <1>5, <2>1
<1>6. QED
  BY <1>4, <1>5

(* An idle call that starts asks for its function only to activate it.      *)
LEMMA AskedBegin ==
    ASSUME TypeOK, NEW c \in Calls, NEW f \in Functions, NEW step,
           calls[c].step = "idle", BeginCall(c, f, step)
    PROVE  Asked' = IF step = "activate" THEN Asked \cup {f} ELSE Asked
<1>1. \A d \in Calls :
         calls'[d] = IF d = c THEN [step |-> step, fn |-> f] ELSE calls[d]
  BY DEF TypeOK, BeginCall
<1>2. CASE step = "activate"
  BY <1>1, <1>2 DEF Asked
<1>3. CASE step # "activate"
  <2>1. \A d \in Calls : calls'[d].step = "activate" <=> calls[d].step = "activate"
    BY <1>1, <1>3
  <2>2. \A d \in Calls : calls[d].step = "activate" => calls'[d] = calls[d]
    BY <1>1
  <2>3. QED
    BY <1>3, <2>1, <2>2 DEF Asked
<1>4. QED
  BY <1>2, <1>3

(* The functions condemned after a step of job j. *)
LEMMA CondemnedJobAt ==
    ASSUME TypeOK, NEW j \in Jobs, NEW step, NEW f, NEW S \in SUBSET Functions,
           JobAt(j, step, f, S)
    PROVE  /\ S \subseteq jobs[j].todo => Condemned' \in SUBSET Condemned
           /\ S = jobs[j].todo => Condemned' = Condemned
           /\ \A g \in jobs[j].todo :
                 S = jobs[j].todo \ {g} => Condemned' \in {Condemned, Condemned \ {g}}
           /\ jobs[j].todo = {} => Condemned' = Condemned \cup S
<1>1. \A i \in Jobs : jobs'[i].todo = IF i = j THEN S ELSE jobs[i].todo
  BY DEF TypeOK, JobAt
<1>2. QED
  BY <1>1 DEF Condemned

(* A call asks, withdraws, registers or holds. *)
LEMMA CallLease ==
    ASSUME TypeOK, CurrentCopyIsExact, KnownExists, NEW c \in Calls, CallStep(c)
    PROVE  [Lease!Next]_(Lease!vars)
<1> USE DEF functionVars, objectVars, Lease!vars
<1>0. UNCHANGED jobs
  BY DEF CallStep, CreateCheck, ActivateGet, StatusGet, CreateFunction, ActivateUpdate,
         ExtendUpdate
<1>1. Condemned' = Condemned
  BY <1>0 DEF Condemned
<1>2. UNCHANGED status => LeaseOf' = LeaseOf
  BY DEF LeaseOf
<1>3. calls[c].step # "idle" => calls[c].fn \in Functions
  BY DEF TypeOK, IdleProcess
<1>4. ASSUME NEW f \in Functions, CreateCheck(c, f) PROVE UNCHANGED Lease!vars
  BY <1>1, <1>2, <1>4, AskedBegin DEF CreateCheck
<1>5. ASSUME NEW f \in Functions, ActivateGet(c, f) PROVE [Lease!Next]_(Lease!vars)
  <2>1. Asked' = Asked \cup {f} /\ LeaseOf' = LeaseOf
    BY <1>2, <1>5, AskedBegin DEF ActivateGet
  <2>2. LeaseOf[f] # "absent"
    BY <1>5 DEF ActivateGet, KnownExists, LeaseOf, LeaseState, Inactive, Active, Absent,
                TypeOK, Statuses
  <2>3. QED
    BY <1>1, <2>1, <2>2 DEF Lease!Next, Lease!Ask
<1>6. ASSUME NEW f \in Functions, StatusGet(c, f) PROVE UNCHANGED Lease!vars
  BY <1>1, <1>2, <1>6, AskedBegin DEF StatusGet
<1>7. CASE CreateFunction(c)
  <2> DEFINE f == calls[c].fn
  <2>1. Asked' = Asked /\ f \in Functions
    BY <1>3, <1>7, AskedEnd DEF CreateFunction
  <2>2. CASE UNCHANGED status
    BY <1>1, <1>2, <2>1, <2>2
  <2>3. CASE status[f] = Absent /\ status' = [status EXCEPT ![f] = Inactive]
    <3>1. LeaseOf' = [LeaseOf EXCEPT ![f] = "idle"]
      BY <2>1, <2>3, LeaseOfExcept DEF LeaseState, Statuses
    <3>2. LeaseOf[f] = "absent"
      BY <2>1, <2>3 DEF LeaseOf, LeaseState
    <3>3. QED
      BY <1>1, <2>1, <3>1, <3>2 DEF Lease!Next, Lease!Register, Lease!Move
  <2>4. QED
    BY <1>7, <2>2, <2>3 DEF CreateFunction, Write
<1>8. CASE ActivateUpdate(c)
  <2> DEFINE f == calls[c].fn
  <2>1. f \in Asked /\ f \in Functions /\ Asked' \in {Asked, Asked \ {f}}
    BY <1>3, <1>8, AskedEnd DEF ActivateUpdate, Asked
  <2>2. CASE UNCHANGED status
    BY <1>1, <1>2, <2>1, <2>2 DEF Lease!Next, Lease!Withdraw
  <2>3. CASE Current(c, f) /\ status' = [status EXCEPT ![f] = Active]
    <3>1. LeaseOf' = [LeaseOf EXCEPT ![f] = "held"]
      BY <2>1, <2>3, LeaseOfExcept DEF LeaseState, Statuses
    <3>2. LeaseOf[f] \in {"idle", "held"}
      BY <1>8, <2>1, <2>3
         DEF ActivateUpdate, CurrentCopyIsExact, CallCopyIsExact, LeaseOf, LeaseState, TypeOK,
             Statuses
    <3>3. QED
      BY <1>1, <2>1, <3>1, <3>2 DEF Lease!Next, Lease!Hold, Lease!Move
  <2>4. QED
    BY <1>8, <2>2, <2>3 DEF ActivateUpdate, Write
<1>9. CASE ExtendUpdate(c)
  <2>1. Asked' = Asked
    BY <1>9, AskedEnd DEF ExtendUpdate
  <2>2. UNCHANGED status
    BY <1>3, <1>9 DEF ExtendUpdate, Write, CurrentCopyIsExact, CallCopyIsExact, TypeOK
  <2>3. QED
    BY <1>1, <1>2, <2>1, <2>2
<1>10. QED
  BY <1>4, <1>5, <1>6, <1>7, <1>8, <1>9 DEF CallStep

(* A cleanup job condemns what it lists, and releases or pardons it. *)
LEMMA JobLease ==
    ASSUME TypeOK, KnownExists, NEW j \in Jobs, JobStep(j)
    PROVE  [Lease!Next]_(Lease!vars)
<1> USE DEF functionVars, objectVars, Lease!vars
<1>1. Asked' = Asked
  <2>1. UNCHANGED calls
    BY DEF JobStep, JobList, JobPatch, JobCheck, JobDropDeployment, JobDropService, JobDrop,
           JobEnd
  <2>2. QED
    BY <2>1 DEF Asked
<1>2. UNCHANGED status => LeaseOf' = LeaseOf
  BY DEF LeaseOf
<1>3. jobs[j].todo \in SUBSET Functions
  BY DEF TypeOK, IdleJob
<1>4. CASE JobList(j)
  <2>1. jobs[j].todo = {}
    BY <1>4 DEF JobList, TypeOK, IdleJob, JobSteps, DropSteps
  <2>2. Condemned' = Condemned \cup Expired
    BY <1>4, <2>1, CondemnedJobAt DEF JobList, Expired
  <2>3. Expired \in SUBSET {f \in Functions : LeaseOf[f] = "held"}
    BY DEF Expired, LeaseOf, LeaseState
  <2>4. LeaseOf' = LeaseOf
    BY <1>2, <1>4 DEF JobList
  <2>5. QED
    BY <1>1, <2>2, <2>3, <2>4 DEF Lease!Next, Lease!Condemn
<1>5. ASSUME NEW f \in Functions, JobPatch(j, f) PROVE [Lease!Next]_(Lease!vars)
  <2>1. f \in Condemned /\ Condemned' \in {Condemned, Condemned \ {f}}
    BY <1>3, <1>5, CondemnedJobAt DEF JobPatch, Condemned
  <2>2. LeaseOf' = [LeaseOf EXCEPT ![f] = "idle"]
    BY <1>5, LeaseOfExcept DEF JobPatch, Write, LeaseState, Statuses
  <2>3. LeaseOf[f] \in {"idle", "held"}
    BY <1>5 DEF JobPatch, KnownExists, LeaseOf, LeaseState, TypeOK, Statuses
  <2>4. QED
    BY <1>1, <2>1, <2>2, <2>3 DEF Lease!Next, Lease!Release, Lease!Move
<1>6. CASE JobCheck(j)
  BY <1>1, <1>2, <1>3, <1>6, CondemnedJobAt DEF JobCheck
<1>7. CASE JobDropDeployment(j)
  BY <1>1, <1>2, <1>3, <1>7, CondemnedJobAt DEF JobDropDeployment, JobDrop
<1>8. CASE JobDropService(j)
  BY <1>1, <1>2, <1>3, <1>8, CondemnedJobAt DEF JobDropService, JobDrop
<1>9. CASE JobEnd(j)
  <2>1. Condemned' = Condemned
    BY <1>9 DEF JobEnd, IdleJob, Condemned, TypeOK
  <2>2. QED
    BY <1>1, <1>2, <1>9, <2>1 DEF JobEnd
<1>10. QED
  BY <1>4, <1>5, <1>6, <1>7, <1>8, <1>9 DEF JobStep

(* A pass only renews the lease of a function that is active. *)
LEMMA WorkerLease ==
    ASSUME TypeOK, CurrentCopyIsExact, WorkerStep
    PROVE  UNCHANGED Lease!vars
<1> USE DEF functionVars, objectVars, Lease!vars
<1>1. UNCHANGED <<calls, jobs>>
  BY DEF WorkerStep, StartPass, CheckShared, DropDeployment, DropService, DropObject,
         PutDeployment, PutService, PutObject, RenewLease
<1>2. UNCHANGED status
  <2>1. CASE RenewLease
    BY <2>1 DEF RenewLease, Write, CurrentCopyIsExact, PassCopyIsExact, PutSteps, TypeOK
  <2>2. QED
    BY <2>1 DEF WorkerStep, StartPass, CheckShared, DropDeployment, DropService, DropObject,
           PutDeployment, PutService, PutObject
<1>3. QED
  BY <1>1, <1>2 DEF LeaseOf, Asked, Condemned

(* Whatever fails, requests and condemnations are dropped, nothing else. *)
LEMMA FaultLease ==
    ASSUME TypeOK, FaultStep
    PROVE  [Lease!Next]_(Lease!vars)
<1> USE DEF functionVars, objectVars, Lease!vars
<1>1. LeaseOf' = LeaseOf
  BY DEF FaultStep, CallFails, WorkerFails, JobFails, JobCrash, Restart, LeaseOf
<1>2. ASSUME Condemned' = Condemned, Asked' \in SUBSET Asked PROVE [Lease!Next]_(Lease!vars)
  BY <1>1, <1>2 DEF Lease!Next, Lease!Withdraw
<1>3. ASSUME Condemned' \in SUBSET Condemned, Asked' = Asked PROVE [Lease!Next]_(Lease!vars)
  BY <1>1, <1>3 DEF Lease!Next, Lease!Pardon
<1>4. ASSUME NEW c \in Calls, CallFails(c) PROVE [Lease!Next]_(Lease!vars)
  BY <1>2, <1>4, AskedEnd DEF CallFails, Condemned
<1>5. CASE WorkerFails
  BY <1>2, <1>5 DEF WorkerFails, Condemned, Asked
<1>6. ASSUME NEW j \in Jobs, JobFails(j) PROVE [Lease!Next]_(Lease!vars)
  <2> SUFFICES Condemned' \in SUBSET Condemned
    BY <1>3, <1>6 DEF JobFails, Asked
  <2>1. jobs[j].todo \in SUBSET Functions
    BY DEF TypeOK, IdleJob
  <2>2. ASSUME NEW step, NEW f, NEW S \in SUBSET jobs[j].todo, JobAt(j, step, f, S)
        PROVE  Condemned' \in SUBSET Condemned
    BY <2>1, <2>2, CondemnedJobAt
  <2>3. CASE \E f \in jobs[j].todo : JobAt(j, "check", f, jobs[j].todo \ {f})
    BY <2>2, <2>3
  <2>4. CASE JobAt(j, "loop", NoFunction, jobs[j].todo)
    BY <2>2, <2>4
  <2>5. CASE JobAt(j, "dropService", jobs[j].fn, jobs[j].todo)
    BY <2>2, <2>5
  <2>6. QED
    BY <1>6, <2>3, <2>4, <2>5 DEF JobFails
<1>7. ASSUME NEW j \in Jobs, JobCrash(j) PROVE [Lease!Next]_(Lease!vars)
  <2>1. Condemned' \in SUBSET Condemned
    BY <1>7 DEF JobCrash, IdleJob, Condemned, TypeOK
  <2>2. QED
    BY <1>3, <1>7, <2>1 DEF JobCrash, Asked
<1>8. CASE Restart
  BY <1>2, <1>8 DEF Restart, Condemned, Asked, IdleProcess
<1>9. QED
  BY <1>4, <1>5, <1>6, <1>7, <1>8 DEF FaultStep

(* Behind caches, versions, workqueues, retries and crashes, a function     *)
(* becomes active only at the request of an Activate call and stops being   *)
(* active only through a cleanup job that found its lease lapsed.           *)
THEOREM LeaseKeptCorrect == Spec => LeaseKept
<1>1. Init => Lease!Init
  BY DEF Init, Lease!Init, LeaseOf, LeaseState, Asked, Condemned, IdleProcess, IdleJob
<1>2. TypeOK /\ CurrentCopyIsExact /\ KnownExists /\ [Next]_vars => [Lease!Next]_(Lease!vars)
  <2> SUFFICES ASSUME TypeOK, CurrentCopyIsExact, KnownExists, [Next]_vars
               PROVE  [Lease!Next]_(Lease!vars)
    OBVIOUS
  <2>1. CASE ClusterStep
    BY <2>1 DEF ClusterStep, SyncFunctions, SyncObjects, Rollout, Tick, functionVars,
                objectVars, Lease!vars, LeaseOf, Asked, Condemned
  <2>2. CASE UNCHANGED vars
    BY <2>2 DEF vars, Lease!vars, LeaseOf, Asked, Condemned
  <2>3. QED
    BY <2>1, <2>2, CallLease, JobLease, WorkerLease, FaultLease DEF Next
<1>3. QED
  BY TypeCorrect, CurrentCopyCorrect, KnownExistsCorrect, <1>1, <1>2, PTL
     DEF Spec, LeaseKept, Lease!Spec
==============================================================================
