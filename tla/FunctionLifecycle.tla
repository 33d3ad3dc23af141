-------------------------- MODULE FunctionLifecycle --------------------------
(***************************************************************************)
(* The operator: Function custom resources, the gRPC server that creates   *)
(* and activates them, the reconciler that turns them into deployments and *)
(* services, and the cleanup job that takes idle ones down.                *)
(*                                                                         *)
(* The API server is the only shared state.  The gRPC server and the       *)
(* reconciler read it through the manager's informer cache, one watch per  *)
(* kind, each of which lags on its own; they write under optimistic        *)
(* concurrency.  The cleanup job reads the API server directly and patches *)
(* without a resourceVersion.  Every API call is a step of its own.        *)
(*                                                                         *)
(* A resourceVersion is only ever compared for equality with the stored    *)
(* one, so the model keeps, for each function, the set of holders whose    *)
(* copy still carries it (fresh); a write that changes the object empties  *)
(* the set.  A deprovision time is only ever compared with now, so the     *)
(* model keeps the time left (ttl), which Tick lowers.                     *)
(***************************************************************************)
EXTENDS Integers, FiniteSets

CONSTANTS
    Functions,   \* names of Function objects, unique in their namespace
    Registered,  \* those that exist when the model starts
    NoFunction,  \* in place of a name in the record of an idle process
    Language,    \* spec.language of each function
    Project,     \* spec.project of each function
    Calls,       \* concurrent gRPC calls
    Jobs,        \* cleanup jobs that may overlap (the CronJob's policy is Allow)
    KeepWarm,    \* KEEP_WARM_DURATION, in clock ticks
    MaxFaults    \* how many faults may happen, or Unlimited

Informer == "informer"
Worker == "worker"
Holders == Calls \cup {Informer, Worker}

ASSUME CallsAssumption == Informer \notin Calls /\ Worker \notin Calls
ASSUME FunctionsAssumption == Registered \subseteq Functions /\ NoFunction \notin Functions
ASSUME KeepWarmAssumption == KeepWarm \in Nat \ {0}

Unlimited == -1
ASSUME MaxFaultsAssumption == MaxFaults \in Nat \cup {Unlimited}

Absent == "absent"
Inactive == "inactive"
Active == "active"

Unset == -2    \* no deprovision time, or one that nothing reads while inactive
Lapsed == -1   \* the deprovision time lies in the past

Deployment == "deployment"
Service == "service"
Kinds == {Deployment, Service}

DynamicLanguages == {"python", "ts", "lua"}
Dynamic(f) == Language[f] \in DynamicLanguages

(* Functions of one project in one dynamic language share one runtime. *)
RuntimeOf(f) ==
    IF Dynamic(f) THEN <<Language[f], Project[f], "">>
                  ELSE <<Language[f], Project[f], f>>

Runtimes == {RuntimeOf(f) : f \in Functions}

VARIABLES
    status,   \* the stored Function: absent, or its spec.isActive
    ttl,      \* ticks left until its spec.deProvisionTime
    cached,   \* the Function as the informer cache last saw it
    fresh,    \* the holders whose copy carries the stored resourceVersion
    live,     \* the deployments and services that exist
    seen,     \* those the informer cache knows of
    stale,    \* those whose cached resourceVersion is outdated
    serving,  \* the runtimes whose deployment has rolled out
    queue,    \* the reconciler's workqueue
    worker,   \* the one reconcile pass that may be running
    calls,    \* the gRPC calls
    jobs,     \* the cleanup jobs
    faults    \* faults that may still happen

functionVars == <<status, ttl, fresh>>
objectVars == <<live, seen, stale, serving>>
vars == <<status, ttl, cached, fresh, live, seen, stale, serving,
          queue, worker, calls, jobs, faults>>

Statuses == {Absent, Inactive, Active}

DropSteps == {"dropDeployment", "dropService"}
PutSteps == {"putDeployment", "putService", "renew"}
WorkerSteps == {"check"} \cup DropSteps \cup PutSteps
CallSteps == {"create", "activate", "extend"}
JobSteps == {"check"} \cup DropSteps

IdleProcess == [step |-> "idle", fn |-> NoFunction]
IdleJob == [step |-> "idle", fn |-> NoFunction, todo |-> {}]

TypeOK ==
    /\ status \in [Functions -> Statuses]
    /\ ttl \in [Functions -> Unset..KeepWarm]
    /\ cached \in [Functions -> Statuses]
    /\ fresh \in [Functions -> SUBSET Holders]
    /\ live \in [Kinds -> SUBSET Runtimes]
    /\ seen \in [Kinds -> SUBSET Runtimes]
    /\ stale \in [Kinds -> SUBSET Runtimes]
    /\ serving \in SUBSET Runtimes
    /\ queue \in SUBSET Functions
    /\ worker \in {IdleProcess} \cup [step: WorkerSteps, fn: Functions]
    /\ calls \in [Calls -> {IdleProcess} \cup [step: CallSteps, fn: Functions]]
    /\ jobs \in [Jobs -> {IdleJob}
                    \cup [step: {"loop"}, fn: {NoFunction}, todo: SUBSET Functions]
                    \cup [step: JobSteps, fn: Functions, todo: SUBSET Functions]]
    /\ faults \in Nat \cup {Unlimited}

Init ==
    /\ status = [f \in Functions |-> IF f \in Registered THEN Inactive ELSE Absent]
    /\ ttl = [f \in Functions |-> Unset]
    /\ cached = status
    /\ fresh = [f \in Functions |-> {Informer}]
    /\ live = [k \in Kinds |-> {}]
    /\ seen = live
    /\ stale = live
    /\ serving = {}
    /\ queue = {}
    /\ worker = IdleProcess
    /\ calls = [c \in Calls |-> IdleProcess]
    /\ jobs = [j \in Jobs |-> IdleJob]
    /\ faults = MaxFaults

------------------------------------------------------------------------------
(* The API server's view of a write, a read and a copy. *)

(* Holder h writes f.  An update that changes nothing keeps the version. *)
Write(h, f, s, t) ==
    /\ status' = [status EXCEPT ![f] = s]
    /\ ttl' = [ttl EXCEPT ![f] = t]
    /\ fresh' = [fresh EXCEPT ![f] =
                    IF status[f] = s /\ ttl[f] = t THEN @ \ {h} ELSE {}]

(* Holder h copies f out of the informer cache. *)
ReadCached(h, f) ==
    fresh' = [fresh EXCEPT ![f] = IF Informer \in @ THEN @ \cup {h} ELSE @ \ {h}]

(* Holder h drops its copy. *)
Forget(h) == fresh' = [f \in Functions |-> fresh[f] \ {h}]

(* The write of a holder succeeds only on the version it read. *)
Current(h, f) == h \in fresh[f]

(* Another active function needs the runtime of f, in the given view. *)
SharedInUse(view, f) ==
    /\ Dynamic(f)
    /\ \E g \in Functions \ {f} :
          /\ Language[g] = Language[f]
          /\ Project[g] = Project[f]
          /\ view[g] = Active

CreateObject(k, r) ==
    /\ live' = [live EXCEPT ![k] = @ \cup {r}]
    /\ stale' = [stale EXCEPT ![k] = @ \cup {r}]
    /\ UNCHANGED <<seen, serving>>

(* A deletion names the object only, so it also removes a newer one. *)
DeleteObject(k, r) ==
    /\ live' = [live EXCEPT ![k] = @ \ {r}]
    /\ stale' = [stale EXCEPT ![k] = @ \cup {r}]
    /\ serving' = IF k = Deployment THEN serving \ {r} ELSE serving
    /\ UNCHANGED seen

(* One of the faults that may still happen. *)
Fault ==
    /\ faults # 0
    /\ faults' = IF faults = Unlimited THEN Unlimited ELSE faults - 1

NoFault == UNCHANGED faults

------------------------------------------------------------------------------
(* gRPC: CreateFunction, Activate and GetStatus.  A call whose first read  *)
(* finds nothing to do answers at once and leaves no trace.                *)

BeginCall(c, f, step) == calls' = [calls EXCEPT ![c] = [step |-> step, fn |-> f]]
EndCall(c) == calls' = [calls EXCEPT ![c] = IdleProcess]

(* CreateFunctionIfNotExists did not find f in the cache. *)
CreateCheck(c, f) ==
    /\ calls[c].step = "idle"
    /\ cached[f] = Absent
    /\ BeginCall(c, f, "create")
    /\ UNCHANGED <<functionVars, cached, objectVars, queue, worker, jobs>>

CreateFunction(c) ==
    /\ calls[c].step = "create"
    /\ LET f == calls[c].fn IN
          \/ status[f] = Absent /\ Write(c, f, Inactive, Unset)
          \/ status[f] # Absent /\ UNCHANGED functionVars   \* AlreadyExists
    /\ EndCall(c)
    /\ UNCHANGED <<cached, objectVars, queue, worker, jobs>>

(* Activate: MarkFunctionActive reads f, and then updates it. *)
ActivateGet(c, f) ==
    /\ calls[c].step = "idle"
    /\ cached[f] # Absent
    /\ ReadCached(c, f)
    /\ BeginCall(c, f, "activate")
    /\ UNCHANGED <<status, ttl, cached, objectVars, queue, worker, jobs>>

ActivateUpdate(c) ==
    /\ calls[c].step = "activate"
    /\ LET f == calls[c].fn IN
          \/ Current(c, f) /\ Write(c, f, Active, KeepWarm)
          \/ ~Current(c, f) /\ UNCHANGED functionVars       \* Conflict
    /\ EndCall(c)
    /\ UNCHANGED <<cached, objectVars, queue, worker, jobs>>

(* Variant: the lease is extended whether or not the function is active. *)
StatusGetUnchecked(c, f) ==
    /\ calls[c].step = "idle"
    /\ cached[f] # Absent
    /\ ReadCached(c, f)
    /\ BeginCall(c, f, "extend")
    /\ UNCHANGED <<status, ttl, cached, objectVars, queue, worker, jobs>>

(* GetStatus: IsFunctionActive and ExtendFunctionLease each read f, and the *)
(* second read alone decides whether the lease is extended.                 *)
StatusGet(c, f) ==
    /\ calls[c].step = "idle"
    /\ cached[f] = Active
    /\ ReadCached(c, f)
    /\ BeginCall(c, f, "extend")
    /\ UNCHANGED <<status, ttl, cached, objectVars, queue, worker, jobs>>

(* Variant: the lease is extended by a write that cannot conflict. *)
ExtendUnversioned(c) ==
    /\ calls[c].step = "extend"
    /\ Write(c, calls[c].fn, Active, KeepWarm)
    /\ EndCall(c)
    /\ UNCHANGED <<cached, objectVars, queue, worker, jobs>>

ExtendUpdate(c) ==
    /\ calls[c].step = "extend"
    /\ LET f == calls[c].fn IN
          \/ Current(c, f) /\ Write(c, f, Active, KeepWarm)
          \/ ~Current(c, f) /\ UNCHANGED functionVars       \* Conflict
    /\ EndCall(c)
    /\ UNCHANGED <<cached, objectVars, queue, worker, jobs>>

(* The API server or the caller's deadline ends a call between two steps. *)
CallFails(c) ==
    /\ Fault
    /\ calls[c].step # "idle"
    /\ Forget(c)
    /\ EndCall(c)
    /\ UNCHANGED <<status, ttl, cached, objectVars, queue, worker, jobs>>

------------------------------------------------------------------------------
(* Reconcile, one pass at a time (MaxConcurrentReconciles is 1). *)

Advance(step) == worker' = [step |-> step, fn |-> worker.fn]

(* Variant: the pass ends but its function is not let go. *)
FinishWithoutReset == Advance("idle") /\ UNCHANGED queue

FinishPass ==
    /\ worker' = IdleProcess
    /\ UNCHANGED queue

(* Reconcile returned an error: the function goes back to the workqueue. *)
Requeue ==
    /\ worker' = IdleProcess
    /\ queue' = queue \cup {worker.fn}

(* No code deletes a Function, so the first Get always finds it.  Only the *)
(* copy of an active function is written back at the end of the pass.      *)
StartPass(f) ==
    /\ worker.step = "idle"
    /\ f \in queue
    /\ queue' = queue \ {f}
    /\ \/ /\ cached[f] = Active
          /\ worker' = [step |-> "putDeployment", fn |-> f]
          /\ ReadCached(Worker, f)
       \/ /\ cached[f] = Inactive
          /\ worker' = [step |-> "check", fn |-> f]
          /\ UNCHANGED fresh
    /\ UNCHANGED <<status, ttl, cached, objectVars, calls, jobs>>

(* Variant: the pass of an inactive function does not look for others. *)
CheckSharedSkipped ==
    /\ worker.step = "check"
    /\ Advance("dropDeployment")
    /\ UNCHANGED <<queue, functionVars, cached, objectVars, calls, jobs>>

CheckShared ==
    /\ worker.step = "check"
    /\ IF SharedInUse(cached, worker.fn)
       THEN FinishPass
       ELSE Advance("dropDeployment") /\ UNCHANGED queue
    /\ UNCHANGED <<functionVars, cached, objectVars, calls, jobs>>

(* The Get that precedes a Delete reads the cache; the Delete does not. *)
DropObject(k, continue) ==
    LET r == RuntimeOf(worker.fn) IN
    /\ \/ /\ r \notin seen[k]
          /\ continue
          /\ UNCHANGED objectVars
       \/ /\ r \in seen[k] /\ r \in live[k]
          /\ DeleteObject(k, r)
          /\ continue
       \/ /\ r \in seen[k] /\ r \notin live[k]                \* NotFound
          /\ Requeue
          /\ UNCHANGED objectVars
    /\ UNCHANGED <<functionVars, cached, calls, jobs>>

DropDeployment ==
    /\ worker.step = "dropDeployment"
    /\ DropObject(Deployment, Advance("dropService") /\ UNCHANGED queue)

DropService ==
    /\ worker.step = "dropService"
    /\ DropObject(Service, FinishPass)

(* Create what the cache does not know, update what it does.  An update of  *)
(* a deployment takes away the annotations that its controller has added;   *)
(* any other changes nothing.                                               *)
PutObject(k, next) ==
    LET r == RuntimeOf(worker.fn) IN
    /\ \/ /\ r \notin seen[k] /\ r \notin live[k]
          /\ CreateObject(k, r)
          /\ Advance(next) /\ UNCHANGED <<queue, fresh>>
       \/ /\ r \in seen[k] /\ r \notin stale[k]
          /\ \/ UNCHANGED stale
             \/ k = Deployment /\ stale' = [stale EXCEPT ![k] = @ \cup {r}]
          /\ Advance(next) /\ UNCHANGED <<queue, fresh, live, seen, serving>>
       \/ /\ \/ r \notin seen[k] /\ r \in live[k]             \* AlreadyExists
             \/ r \in seen[k] /\ r \in stale[k]               \* Conflict, NotFound
          /\ Requeue /\ Forget(Worker)
          /\ UNCHANGED objectVars
    /\ UNCHANGED <<status, ttl, cached, calls, jobs>>

(* Variant: the pass forgets the service. *)
PutDeploymentOnly == worker.step = "putDeployment" /\ PutObject(Deployment, "renew")

PutDeployment == worker.step = "putDeployment" /\ PutObject(Deployment, "putService")

PutService == worker.step = "putService" /\ PutObject(Service, "renew")

(* The pass ends by pushing the deprovision time out, on the copy it read. *)
RenewLease ==
    /\ worker.step = "renew"
    /\ \/ /\ Current(Worker, worker.fn)
          /\ Write(Worker, worker.fn, Active, KeepWarm)
          /\ FinishPass
       \/ /\ ~Current(Worker, worker.fn)                      \* Conflict
          /\ UNCHANGED functionVars
          /\ Requeue
    /\ UNCHANGED <<cached, objectVars, calls, jobs>>

WorkerFails ==
    /\ Fault
    /\ worker.step # "idle"
    /\ Requeue
    /\ Forget(Worker)
    /\ UNCHANGED <<status, ttl, cached, objectVars, calls, jobs>>

------------------------------------------------------------------------------
(* The cleanup job: one uncached pass over the functions whose lease had    *)
(* lapsed when the job listed them.                                         *)

JobAt(j, step, f, todo) ==
    jobs' = [jobs EXCEPT ![j] = [step |-> step, fn |-> f, todo |-> todo]]

Expired == {f \in Functions : status[f] = Active /\ ttl[f] = Lapsed}

(* The functions of one namespace, in which all functions of the model are. *)
JobList(j) ==
    /\ jobs[j].step = "idle"
    /\ Expired # {}
    /\ JobAt(j, "loop", NoFunction, Expired)
    /\ UNCHANGED <<functionVars, cached, objectVars, queue, worker, calls>>

(* Variant: the patch is computed after the copy was changed, so it is empty. *)
JobPatchEmpty(j, f) ==
    /\ jobs[j].step = "loop"
    /\ f \in jobs[j].todo
    /\ JobAt(j, "check", f, jobs[j].todo \ {f})
    /\ UNCHANGED <<functionVars, cached, objectVars, queue, worker, calls>>

(* The merge patch carries no resourceVersion. *)
JobPatch(j, f) ==
    /\ jobs[j].step = "loop"
    /\ f \in jobs[j].todo
    /\ Write(j, f, Inactive, Unset)
    /\ JobAt(j, "check", f, jobs[j].todo \ {f})
    /\ UNCHANGED <<cached, objectVars, queue, worker, calls>>

JobCheck(j) ==
    /\ jobs[j].step = "check"
    /\ IF SharedInUse(status, jobs[j].fn)
       THEN JobAt(j, "loop", NoFunction, jobs[j].todo)
       ELSE JobAt(j, "dropDeployment", jobs[j].fn, jobs[j].todo)
    /\ UNCHANGED <<functionVars, cached, objectVars, queue, worker, calls>>

(* Get and Delete, both uncached. *)
JobDrop(j, k) ==
    /\ IF RuntimeOf(jobs[j].fn) \in live[k]
       THEN DeleteObject(k, RuntimeOf(jobs[j].fn))
       ELSE UNCHANGED objectVars
    /\ UNCHANGED <<functionVars, cached, queue, worker, calls>>

JobDropDeployment(j) ==
    /\ jobs[j].step = "dropDeployment"
    /\ JobAt(j, "dropService", jobs[j].fn, jobs[j].todo)
    /\ JobDrop(j, Deployment)

JobDropService(j) ==
    /\ jobs[j].step = "dropService"
    /\ JobAt(j, "loop", NoFunction, jobs[j].todo)
    /\ JobDrop(j, Service)

JobEnd(j) ==
    /\ jobs[j].step = "loop"
    /\ jobs[j].todo = {}
    /\ jobs' = [jobs EXCEPT ![j] = IdleJob]
    /\ UNCHANGED <<functionVars, cached, objectVars, queue, worker, calls>>

(* An API error is only logged.  After a failed patch or deletion the job  *)
(* goes on as if it had worked; after a failed List it takes the next      *)
(* function.                                                               *)
JobFails(j) ==
    /\ Fault
    /\ \/ /\ jobs[j].step = "loop"
          /\ \E f \in jobs[j].todo : JobAt(j, "check", f, jobs[j].todo \ {f})
       \/ /\ jobs[j].step \in {"check", "dropService"}
          /\ JobAt(j, "loop", NoFunction, jobs[j].todo)
       \/ /\ jobs[j].step = "dropDeployment"
          /\ JobAt(j, "dropService", jobs[j].fn, jobs[j].todo)
    /\ UNCHANGED <<functionVars, cached, objectVars, queue, worker, calls>>

JobCrash(j) ==
    /\ Fault
    /\ jobs[j].step # "idle"
    /\ jobs' = [jobs EXCEPT ![j] = IdleJob]
    /\ UNCHANGED <<functionVars, cached, objectVars, queue, worker, calls>>

------------------------------------------------------------------------------
(* The cluster: watches, the deployment controller, restarts and time. *)

(* The Function watch catches up and enqueues what changed. *)
SyncFunctions ==
    LET changed == {f \in Functions : Informer \notin fresh[f]} IN
    /\ changed # {}
    /\ cached' = status
    /\ fresh' = [f \in Functions |-> fresh[f] \cup {Informer}]
    /\ queue' = queue \cup changed
    /\ UNCHANGED <<status, ttl, objectVars, worker, calls, jobs>>

SyncObjects(k) ==
    /\ stale[k] # {}
    /\ seen' = [seen EXCEPT ![k] = live[k]]
    /\ stale' = [stale EXCEPT ![k] = {}]
    /\ UNCHANGED <<functionVars, cached, live, serving, queue, worker, calls, jobs>>

(* Pods are up: the deployment controller writes the deployment's status. *)
Rollout(r) ==
    /\ r \in live[Deployment] \ serving
    /\ serving' = serving \cup {r}
    /\ stale' = [stale EXCEPT ![Deployment] = @ \cup {r}]
    /\ UNCHANGED <<functionVars, cached, live, seen, queue, worker, calls, jobs>>

(* The operator's pod restarts: calls and the running pass are lost, the   *)
(* caches are listed anew and every function is enqueued.                  *)
Restart ==
    /\ Fault
    /\ cached' = status
    /\ fresh' = [f \in Functions |-> {Informer}]
    /\ seen' = live
    /\ stale' = [k \in Kinds |-> {}]
    /\ queue' = {f \in Functions : status[f] # Absent}
    /\ worker' = IdleProcess
    /\ calls' = [c \in Calls |-> IdleProcess]
    /\ UNCHANGED <<status, ttl, live, serving, jobs>>

Tick ==
    /\ ttl' = [f \in Functions |-> IF ttl[f] >= 0 THEN ttl[f] - 1 ELSE ttl[f]]
    /\ UNCHANGED <<status, cached, fresh, objectVars, queue, worker, calls, jobs>>

------------------------------------------------------------------------------

CallStep(c) ==
    \/ \E f \in Functions : CreateCheck(c, f) \/ ActivateGet(c, f) \/ StatusGet(c, f)
    \/ CreateFunction(c)
    \/ ActivateUpdate(c)
    \/ ExtendUpdate(c)

WorkerStep ==
    \/ \E f \in Functions : StartPass(f)
    \/ CheckShared
    \/ DropDeployment
    \/ DropService
    \/ PutDeployment
    \/ PutService
    \/ RenewLease

JobStep(j) ==
    \/ JobList(j)
    \/ \E f \in Functions : JobPatch(j, f)
    \/ JobCheck(j)
    \/ JobDropDeployment(j)
    \/ JobDropService(j)
    \/ JobEnd(j)

ClusterStep ==
    \/ SyncFunctions
    \/ \E k \in Kinds : SyncObjects(k)
    \/ \E r \in Runtimes : Rollout(r)
    \/ Tick

FaultStep ==
    \/ \E c \in Calls : CallFails(c)
    \/ WorkerFails
    \/ \E j \in Jobs : JobFails(j) \/ JobCrash(j)
    \/ Restart

Next ==
    \/ FaultStep
    \/ /\ \/ \E c \in Calls : CallStep(c)
          \/ WorkerStep
          \/ \E j \in Jobs : JobStep(j)
          \/ ClusterStep
       /\ NoFault

Spec == Init /\ [][Next]_vars

(* Every process and every watch keeps going, the workqueue is first in,    *)
(* first out, and the cron schedule comes round.  Callers may fall silent.  *)
Fairness ==
    /\ WF_vars(WorkerStep /\ NoFault)
    /\ \A f \in Functions : SF_vars(StartPass(f) /\ NoFault)
    /\ \A j \in Jobs : WF_vars(JobStep(j) /\ NoFault)
    /\ WF_vars(SyncFunctions /\ NoFault)
    /\ \A k \in Kinds : WF_vars(SyncObjects(k) /\ NoFault)
    /\ \A r \in Runtimes : WF_vars(Rollout(r) /\ NoFault)
    /\ WF_vars(Tick /\ NoFault)

FairSpec == Spec /\ Fairness

------------------------------------------------------------------------------
CacheIsExact == \A f \in Functions : Informer \in fresh[f] => cached[f] = status[f]

CallCopyIsExact ==
    \A c \in Calls :
        /\ (calls[c].step = "activate" /\ Current(c, calls[c].fn))
              => status[calls[c].fn] # Absent
        /\ (calls[c].step = "extend" /\ Current(c, calls[c].fn))
              => status[calls[c].fn] = Active

PassCopyIsExact ==
    (worker.step \in PutSteps /\ Current(Worker, worker.fn)) => status[worker.fn] = Active

ObjectCacheIsExact ==
    \A k \in Kinds : \A r \in Runtimes \ stale[k] : r \in seen[k] <=> r \in live[k]

(* A copy that carries the stored version shows the stored function: the    *)
(* cache exactly, a call or a pass at least that it exists or is active, as *)
(* its own read had said.  Without it an update could write back an old     *)
(* value: a renewal would switch on a function that cleanup has just        *)
(* switched off.                                                            *)
CurrentCopyIsExact ==
    CacheIsExact /\ CallCopyIsExact /\ PassCopyIsExact /\ ObjectCacheIsExact

(* Another pass of f is to come. *)
Due(f) == f \in queue \/ Informer \notin fresh[f]

(* While the reconciler takes a runtime down, every active function that    *)
(* uses it is due for another pass, which will put it back: the cache the   *)
(* decision was made on may lag, but never without an event still to come.  *)
DropIsRepaired ==
    \A f \in Functions :
        /\ status[f] = Active
        /\ \/ worker.step = "check" /\ worker.fn = f
           \/ worker.step \in DropSteps /\ RuntimeOf(worker.fn) = RuntimeOf(f)
        => Due(f)

(* The reconciler still owes f its object of kind k: an event is on its way *)
(* or queued, or the pass that is running has yet to put the object.        *)
Owed(f, k) ==
    \/ Due(f)
    \/ /\ worker.fn = f
       /\ worker.step \in {"putDeployment"} \cup (IF k = Service THEN {"putService"} ELSE {})

Covered(f, k) ==
    status[f] = Active => Owed(f, k) \/ RuntimeOf(f) \in live[k]

(* No step of the reconciler, of a call or of the cluster leaves an active  *)
(* function without its deployment or service and without a pass to come    *)
(* that will put it back: in particular the pass of an inactive function    *)
(* never takes a shared runtime from another that is active, however stale  *)
(* the cache it decides on.  Only a cleanup job's delete can.               *)
OnlyCleanupStrands ==
    [][\A f \in Functions, k \in Kinds :
          (Covered(f, k) /\ ~Covered(f, k)') =>
             \E j \in Jobs :
                /\ jobs[j].step = (IF k = Service THEN "dropService" ELSE "dropDeployment")
                /\ RuntimeOf(jobs[j].fn) = RuntimeOf(f)
                /\ jobs'[j] # jobs[j]]_vars

(* Behind the caches, versions and retries the operator keeps the promises  *)
(* of FunctionLease.  A function is asked for while an Activate call holds  *)
(* its copy, and condemned while it is on a cleanup job's list.             *)
LeaseState(s) == IF s = Active THEN "held" ELSE IF s = Inactive THEN "idle" ELSE "absent"

LeaseOf == [f \in Functions |-> LeaseState(status[f])]
Asked == {calls[c].fn : c \in {d \in Calls : calls[d].step = "activate"}}
Condemned == UNION {jobs[j].todo : j \in Jobs}

Lease == INSTANCE FunctionLease WITH
    lease <- LeaseOf, asked <- Asked, condemned <- Condemned

LeaseKept == Lease!Spec

(* An active function is served in the end, or no longer active: also one   *)
(* that a cleanup job stranded, whose lease then runs out.                  *)
ActiveIsServed ==
    \A f \in Functions :
        status[f] = Active ~>
           \/ RuntimeOf(f) \in serving /\ RuntimeOf(f) \in live[Service]
           \/ status[f] # Active

(* A lapsed lease does not last: cleanup ends it, or somebody renews it.    *)
LapsedIsReaped ==
    \A f \in Functions : f \in Expired ~> f \notin Expired

------------------------------------------------------------------------------
(* What the program says of itself, and a behaviour contradicts. *)

(* After "function activation ensured (lease extended if already active)"   *)
(* the function stays active until the lease has run out.                   *)
ActivationOutlivesLease ==
    [][\A f \in Functions :
          (status[f] = Active /\ status'[f] = Inactive) => ttl[f] = Lapsed]_vars
==============================================================================
