--------------------------- MODULE TsRuntime_proofs ---------------------------
(***************************************************************************)
(* Proofs about TsRuntime, for every set of functions, any invocations and *)
(* any number of commits and faults.                                       *)
(***************************************************************************)
EXTENDS TsRuntime, TLAPS

USE BranchAssumption, BoundsAssumption

(* Every hook call stands for a commit. *)
HooksAreBounded == owed + hooks <= commits

TypeInv == TypeOK /\ HooksAreBounded

------------------------------------------------------------------------------
(* The initial state has the declared types. *)
LEMMA InitTypeInv == Init => TypeInv
<1> SUFFICES ASSUME Init PROVE TypeInv
  OBVIOUS
<1>1. 0 \in Codes /\ 1 \in Codes /\ 0..1 \subseteq Codes
  BY DEF Codes
<1>2. NoCode \in [Functions -> Codes]
  BY <1>1 DEF NoCode
<1>3. repo \in [Functions -> Codes] /\ commits \in 0..MaxCommits
  BY <1>1 DEF Init
<1>4. loads \in [Loads -> LoadType] /\ modules \in [Functions -> [v: Nat, code: Codes]]
  BY <1>1 DEF Init, LoadType, NoModule
<1>5. consumers \in [Functions -> 0..1]
  BY DEF Init, NoCode
<1>6. sync \in SyncSteps
  BY DEF Init, SyncSteps
<1>7. files \in [Functions -> Codes] /\ fetched \in [Functions -> Codes] /\ clone \in [Functions -> Codes]
  BY <1>2 DEF Init
<1>8. /\ owed \in 0..MaxCommits /\ hooks \in 0..MaxCommits /\ HooksAreBounded
      /\ faults \in 0..MaxFaults /\ version \in Nat
  BY DEF Init, HooksAreBounded
<1> QED
  BY <1>3, <1>4, <1>5, <1>6, <1>7, <1>8 DEF Init, TypeInv, TypeOK

(* Pushes and hooks keep the types. *)
LEMMA OutsideTypeInv ==
    ASSUME TypeInv, (\E f \in Functions : Commit(f) \/ Remove(f)) \/ RuntimeHook
    PROVE  TypeInv'
<1>1. CASE \E f \in Functions : Commit(f) \/ Remove(f)
  <2>1. repo' \in [Functions -> Codes]
    BY <1>1 DEF Commit, Remove, TypeInv, TypeOK, Codes
  <2>2. commits' \in 0..MaxCommits /\ owed' \in 0..MaxCommits /\ HooksAreBounded'
    BY <1>1 DEF Commit, Remove, TypeInv, TypeOK, HooksAreBounded
  <2> QED
    BY <1>1, <2>1, <2>2 DEF Commit, Remove, TypeInv, TypeOK, runtimeVars, gitVars, fileVars, moduleVars
<1>2. CASE RuntimeHook
  <2>1. owed' \in 0..MaxCommits /\ hooks' \in 0..MaxCommits /\ HooksAreBounded'
    BY <1>2 DEF RuntimeHook, TypeInv, TypeOK, HooksAreBounded
  <2> QED
    BY <1>2, <2>1 DEF RuntimeHook, TypeInv, TypeOK, runtimeVars, gitVars, fileVars, moduleVars
<1> QED
  BY <1>1, <1>2

(* So do the boot and the steps of a sync... *)
LEMMA SyncTypeInv == ASSUME TypeInv, SyncStep PROVE TypeInv'
<1> USE DEF TypeInv, TypeOK, HooksAreBounded, repoVars, gitVars, fileVars, moduleVars
<1>1. CASE Boot \/ Connect \/ AddStream
  <2>1. sync' \in SyncSteps
    BY <1>1 DEF Boot, Connect, AddStream, SyncSteps, GitSteps
  <2>2. stream' \in BOOLEAN
    BY <1>1, Zenon DEF Boot, Connect, AddStream
  <2> QED
    BY <1>1, <2>1, <2>2 DEF Boot, Connect, AddStream
<1>2. CASE HookReceived
  <2>1. sync' \in SyncSteps /\ hooks' \in 0..MaxCommits /\ HooksAreBounded'
    BY <1>2 DEF HookReceived, SyncSteps, GitSteps
  <2> QED
    BY <1>2, <2>1 DEF HookReceived
<1>3. CASE CloneRepo \/ FetchRepo
  <2>1. sync' \in SyncSteps
    BY <1>3 DEF CloneRepo, FetchRepo, SyncSteps, GitSteps
  <2> QED
    BY <1>3, <2>1 DEF CloneRepo, FetchRepo
<1>4. CASE ResetMain \/ ResetMaster
  <2>1. sync' \in SyncSteps /\ torn' \in BOOLEAN
    BY <1>4 DEF ResetMain, ResetMaster, SyncSteps, GitSteps
  <2> QED
    BY <1>4, <2>1 DEF ResetMain, ResetMaster
<1>5. CASE StartCopy
  <2>1. sync' \in SyncSteps
    BY <1>5 DEF StartCopy, SyncSteps
  <2> QED
    BY <1>5, <2>1 DEF StartCopy
<1>6. CASE ClearModuleCache
  <2>1. sync' \in SyncSteps /\ version' \in Nat
    BY <1>6 DEF ClearModuleCache, Forget, SyncSteps
  <2>3. torn' \in BOOLEAN
    BY <1>6, Zenon DEF ClearModuleCache, Forget
  <2>2. modules' \in [Functions -> [v: Nat, code: Codes]]
    BY <1>6 DEF ClearModuleCache, Forget, NoModule, Codes
  <2> QED
    BY <1>6, <2>1, <2>2, <2>3 DEF ClearModuleCache, Forget
<1>7. CASE ReconcileConsumers
  <2>1. sync' \in SyncSteps
    BY <1>7 DEF ReconcileConsumers, SyncSteps
  <2>2. consumers' \in [Functions -> 0..1]
    BY <1>7 DEF ReconcileConsumers
  <2> QED
    BY <1>7, <2>1, <2>2 DEF ReconcileConsumers
<1>8. CASE \E f \in Functions : RemoveFile(f) \/ CopyFile(f)
  <2>1. files' \in [Functions -> Codes]
    BY <1>8 DEF RemoveFile, CopyFile, Codes
  <2> QED
    BY <1>8, <2>1 DEF RemoveFile, CopyFile
<1> QED
  BY <1>1, <1>2, <1>3, <1>4, <1>5, <1>6, <1>7, <1>8 DEF SyncStep

(* ... and those of a load. *)
LEMMA LoadTypeInv ==
    ASSUME TypeInv, NEW l \in Loads,
           LoadStep(l) \/ \E f \in Functions : Invoke(l, f)
    PROVE  TypeInv'
<1> DEFINE Typed == /\ loads' \in [Loads -> LoadType]
                    /\ modules' \in [Functions -> [v: Nat, code: Codes]]
                    /\ imports' \subseteq [fn: Functions, v: Nat, code: Codes]
<1>0. UNCHANGED loadFrame
  BY DEF LoadStep, Invoke, NotFound, Resolve, Import, StoreModule, ImportFails
<1> SUFFICES Typed
  BY <1>0 DEF TypeInv, TypeOK, HooksAreBounded, loadFrame, repoVars, gitVars, fileVars
<1>1. NoLoad \in LoadType /\ loads \in [Loads -> LoadType] /\ 0 \in Codes
  BY DEF LoadType, TypeInv, TypeOK, Codes
<1>2. ASSUME NEW f \in Functions, Invoke(l, f) PROVE Typed
  BY <1>1, <1>2 DEF Invoke, LoadType, TypeInv, TypeOK
<1>3. CASE NotFound(l)
  BY <1>1, <1>3 DEF NotFound, TypeInv, TypeOK
<1>4. CASE loads[l].step # "idle"
  <2>1. loads[l] \in [step: {"resolve", "import", "store"}, fn: Functions, v: Nat, code: Codes]
    BY <1>1, <1>4 DEF LoadType, NoLoad
  <2>2. CASE Resolve(l)
    <3>1. loads' = [loads EXCEPT ![l] = [loads[l] EXCEPT !.step = "import", !.v = version]]
      BY <1>1, <2>2 DEF Resolve
    <3>2. [loads[l] EXCEPT !.step = "import", !.v = version] \in LoadType
      BY <2>1 DEF LoadType, TypeInv, TypeOK
    <3> QED
      BY <1>1, <2>2, <3>1, <3>2 DEF Resolve, TypeInv, TypeOK
  <2>3. ASSUME NEW c \in Codes,
               loads' = [loads EXCEPT ![l].step = "store", ![l].code = c]
        PROVE  loads' \in [Loads -> LoadType]
    <3>1. loads' = [loads EXCEPT ![l] = [loads[l] EXCEPT !.step = "store", !.code = c]]
      BY <1>1, <2>3
    <3>2. [loads[l] EXCEPT !.step = "store", !.code = c] \in LoadType
      BY <2>1 DEF LoadType
    <3> QED
      BY <1>1, <3>1, <3>2
  <2>4. CASE Import(l)
    <3>1. files[loads[l].fn] \in Codes /\ loads[l].fn \in Functions /\ loads[l].v \in Nat
      BY <2>1 DEF TypeInv, TypeOK
    <3>2. \A i \in imports : i.code \in Codes
      BY DEF TypeInv, TypeOK
    <3>3. loads' \in [Loads -> LoadType]
      <4>1. CASE loads' = [loads EXCEPT ![l] = NoLoad]
        BY <1>1, <4>1
      <4>2. CASE \E c \in Codes : loads' = [loads EXCEPT ![l].step = "store", ![l].code = c]
        BY <2>3, <4>2
      <4> QED
        BY <2>4, <3>1, <3>2, <4>1, <4>2 DEF Import
    <3>4. imports' = imports \/ imports' = imports \cup {[fn |-> loads[l].fn, v |-> loads[l].v,
                                                        code |-> files[loads[l].fn]]}
      BY <2>4 DEF Import
    <3> QED
      BY <2>4, <3>1, <3>3, <3>4 DEF Import, TypeInv, TypeOK
  <2>5. CASE StoreModule(l)
    BY <1>1, <2>1, <2>5 DEF StoreModule, TypeInv, TypeOK
  <2>6. CASE ImportFails(l)
    BY <1>1, <2>6 DEF ImportFails, TypeInv, TypeOK
  <2>7. LoadStep(l) => Typed
    BY <1>3, <2>2, <2>4, <2>5, <2>6 DEF LoadStep
  <2> QED
    BY <1>2, <2>7
<1> QED
  BY <1>2, <1>3, <1>4 DEF LoadStep, Resolve, Import, StoreModule, ImportFails

(* What fails keeps the types, too. *)
LEMMA FaultTypeInv == ASSUME TypeInv, RunFails \/ FilesFail \/ Killed PROVE TypeInv'
<1>1. CASE Killed
  <2>1. NoCode \in [Functions -> Codes] /\ NoCode \in [Functions -> 0..1]
    BY DEF NoCode, Codes
  <2>2. /\ modules' \in [Functions -> [v: Nat, code: Codes]]
        /\ loads' \in [Loads -> LoadType]
    BY <1>1 DEF Killed, NoModule, LoadType, Codes
  <2>3. /\ sync' \in SyncSteps /\ faults' \in 0..MaxFaults /\ hooks' \in 0..MaxCommits
        /\ HooksAreBounded' /\ version' \in Nat
    BY <1>1 DEF Killed, SyncSteps, TypeInv, TypeOK, HooksAreBounded, repoVars
  <2> QED
    BY <1>1, <2>1, <2>2, <2>3 DEF Killed, TypeInv, TypeOK, repoVars
<1>2. CASE Abandon
  <2>1. sync' \in SyncSteps /\ faults' \in 0..MaxFaults
    BY <1>2 DEF Abandon, SyncSteps, TypeInv, TypeOK
  <2> QED
    BY <1>2, <2>1 DEF Abandon, TypeInv, TypeOK, HooksAreBounded, repoVars, gitVars, moduleVars
<1> QED
  BY <1>1, <1>2 DEF RunFails, FilesFail

LEMMA StepTypeInv == ASSUME TypeInv, [Next]_vars PROVE TypeInv'
<1>1. CASE UNCHANGED vars
  BY <1>1 DEF vars, runtimeVars, repoVars, gitVars, fileVars, moduleVars, TypeInv, TypeOK,
              HooksAreBounded
<1> QED
  BY <1>1, OutsideTypeInv, SyncTypeInv, LoadTypeInv, FaultTypeInv DEF Next

(* The state stays within its types. *)
THEOREM TypeCorrect == Spec => []TypeOK
<1>1. Spec => []TypeInv
  BY InitTypeInv, StepTypeInv, PTL DEF Spec
<1>2. TypeInv => TypeOK
  BY DEF TypeInv
<1> QED
  BY <1>1, <1>2, PTL
------------------------------------------------------------------------------
(* The files are whole, and those of the last sync. *)
Steady == sync \notin {"remove", "copy"} /\ ~torn

(* Nothing carries a version that is still to come. *)
NoneAhead ==
    /\ version # 0
    /\ \A f \in Functions : modules[f].v <= version
    /\ \A i \in imports : i.v <= version
    /\ \A l \in Loads : loads[l].v <= version

(* What carries the current version has the code of the files, in the cache *)
(* of the module loader, in that of the runtime, and on the way from the    *)
(* one to the other.                                                        *)
CurrentIsFresh ==
    Steady =>
       /\ \A i \in imports : i.v = version => i.code = files[i.fn]
       /\ \A f \in Functions : modules[f].v = version => modules[f].code = files[f]
       /\ \A l \in Loads :
             (loads[l].step = "store" /\ loads[l].v = version) =>
                loads[l].code = files[loads[l].fn]

CacheInv == NoneAhead /\ CurrentIsFresh

LEMMA InitCacheInv == Init => CacheInv
BY DEF Init, CacheInv, NoneAhead, CurrentIsFresh, NoModule, NoLoad

(* Steps that leave files and modules alone and end no sync. *)
LEMMA QuietCacheInv ==
    ASSUME CacheInv, UNCHANGED <<moduleVars, files>>, Steady' => Steady
    PROVE  CacheInv'
BY DEF CacheInv, NoneAhead, CurrentIsFresh, moduleVars

(* Steps after which the files are not whole. *)
LEMMA UnsteadyCacheInv ==
    ASSUME CacheInv, UNCHANGED moduleVars, ~Steady'
    PROVE  CacheInv'
BY DEF CacheInv, NoneAhead, CurrentIsFresh, moduleVars

(* The cache keeps what CacheInv says of it through every step of a sync... *)
LEMMA SyncCacheInv == ASSUME TypeInv, CacheInv, SyncStep PROVE CacheInv'
<1>1. CASE Boot \/ Connect \/ AddStream \/ HookReceived \/ FetchRepo \/ ReconcileConsumers
  <2>1. UNCHANGED <<moduleVars, files, torn>> /\ sync \notin {"remove", "copy"}
    BY <1>1 DEF Boot, Connect, AddStream, HookReceived, FetchRepo, ReconcileConsumers, fileVars
  <2>2. Steady' => Steady
    BY <2>1 DEF Steady
  <2> QED
    BY <2>1, <2>2, QuietCacheInv
<1>2. CASE CloneRepo \/ StartCopy \/ \E f \in Functions : RemoveFile(f) \/ CopyFile(f)
  <2>1. UNCHANGED moduleVars /\ ~Steady'
    BY <1>2 DEF CloneRepo, StartCopy, RemoveFile, CopyFile, Steady
  <2> QED
    BY <2>1, UnsteadyCacheInv
<1>3. CASE ResetMain \/ ResetMaster
  <2>1. UNCHANGED <<moduleVars, files>>
    BY <1>3 DEF ResetMain, ResetMaster, fileVars
  <2>2. ~Steady' \/ (UNCHANGED torn /\ sync \notin {"remove", "copy"})
    BY <1>3 DEF ResetMain, ResetMaster, Steady
  <2>3. Steady' => Steady
    BY <2>2 DEF Steady
  <2> QED
    BY <2>1, <2>3, QuietCacheInv
<1>4. CASE ClearModuleCache
  <2>1. /\ version' = version + 1 /\ version \in Nat
        /\ UNCHANGED <<imports, loads>>
        /\ modules' = [f \in Functions |-> NoModule]
    BY <1>4 DEF ClearModuleCache, Forget, TypeInv, TypeOK
  <2>2. /\ \A i \in imports : i.v \in Nat /\ i.v # version'
        /\ \A l \in Loads : loads[l].v \in Nat /\ loads[l].v # version'
    BY <2>1 DEF CacheInv, NoneAhead, TypeInv, TypeOK, LoadType, NoLoad
  <2>3. \A f \in Functions : modules'[f].v = 0
    BY <2>1 DEF NoModule
  <2>4. NoneAhead'
    BY <2>1, <2>2, <2>3 DEF CacheInv, NoneAhead
  <2>5. CurrentIsFresh'
    BY <2>1, <2>2, <2>3 DEF CurrentIsFresh
  <2> QED
    BY <2>4, <2>5 DEF CacheInv
<1> QED
  BY <1>1, <1>2, <1>3, <1>4 DEF SyncStep

(* ... of a load... *)
LEMMA LoadCacheInv ==
    ASSUME TypeInv, CacheInv, NEW l \in Loads,
           LoadStep(l) \/ \E f \in Functions : Invoke(l, f)
    PROVE  CacheInv'
<1>0. UNCHANGED <<version, files>> /\ Steady' = Steady /\ version \in Nat
  BY DEF LoadStep, Invoke, NotFound, Resolve, Import, StoreModule, ImportFails, loadFrame,
         fileVars, Steady, TypeInv, TypeOK
<1>1. loads \in [Loads -> LoadType] /\ modules \in [Functions -> [v: Nat, code: Codes]]
  BY DEF TypeInv, TypeOK
<1>2. ASSUME NEW x, UNCHANGED <<modules, imports>>, loads' = [loads EXCEPT ![l] = x],
             x.v \in {0, version}, x.step # "store"
      PROVE  CacheInv'
  BY <1>0, <1>1, <1>2 DEF CacheInv, NoneAhead, CurrentIsFresh
<1>3. CASE NotFound(l) \/ \E f \in Functions : Invoke(l, f)
  <2>1. UNCHANGED <<modules, imports>>
    BY <1>3 DEF NotFound, Invoke
  <2>2. PICK x : x.v = 0 /\ x.step # "store" /\ loads' = [loads EXCEPT ![l] = x]
    BY <1>3 DEF NotFound, Invoke, NoLoad
  <2> QED
    BY <1>2, <2>1, <2>2
<1>4. CASE loads[l].step # "idle"
  <2>1. loads[l] \in [step: {"resolve", "import", "store"}, fn: Functions, v: Nat, code: Codes]
    BY <1>1, <1>4 DEF LoadType, NoLoad
  <2>2. CASE Resolve(l)
    <3> DEFINE x == [loads[l] EXCEPT !.step = "import", !.v = version]
    <3>1. loads' = [loads EXCEPT ![l] = x] /\ UNCHANGED <<modules, imports>>
      BY <1>1, <2>2 DEF Resolve
    <3>2. x.v = version /\ x.step = "import"
      BY <2>1
    <3> HIDE DEF x
    <3> QED
      BY <1>2, <3>1, <3>2
  <2>3. CASE Import(l)
    <3> DEFINE f == loads[l].fn
               v == loads[l].v
               read == [fn |-> f, v |-> v, code |-> files[f]]
               x(c) == [loads[l] EXCEPT !.step = "store", !.code = c]
    <3>1. UNCHANGED modules /\ v <= version
      BY <2>3 DEF Import, CacheInv, NoneAhead
    <3>2. ASSUME NEW c, loads' = [loads EXCEPT ![l].step = "store", ![l].code = c],
                 imports' = imports \/ imports' = imports \cup {read},
                 (Steady /\ v = version) => c = files[f]
          PROVE  CacheInv'
      <4>1. loads' = [loads EXCEPT ![l] = x(c)]
        BY <1>1, <3>2
      <4>2. x(c).v = v /\ x(c).fn = f /\ x(c).code = c
        BY <2>1
      <4>3. \A i \in imports' : i \in imports \/ i = read
        BY <3>2
      <4>4. read.v = v /\ read.fn = f /\ read.code = files[f]
        OBVIOUS
      <4> HIDE DEF x, read, f, v
      <4>5. NoneAhead'
        BY <1>0, <1>1, <3>1, <4>1, <4>2, <4>3, <4>4 DEF CacheInv, NoneAhead
      <4>6. CurrentIsFresh'
        BY <1>0, <1>1, <3>1, <3>2, <4>1, <4>2, <4>3, <4>4 DEF CacheInv, CurrentIsFresh
      <4> QED
        BY <4>5, <4>6 DEF CacheInv
    <3>3. CASE UNCHANGED imports /\ loads' = [loads EXCEPT ![l] = NoLoad]
      <4>1. NoLoad.v \in {0, version} /\ NoLoad.step # "store"
        BY DEF NoLoad
      <4> QED
        BY <1>2, <3>1, <3>3, <4>1
    <3>4. ASSUME NEW i \in imports, i.fn = f, i.v = v,
                 loads' = [loads EXCEPT ![l].step = "store", ![l].code = i.code],
                 UNCHANGED imports
          PROVE  CacheInv'
      <4>1. (Steady /\ v = version) => i.code = files[f]
        BY <3>4 DEF CacheInv, CurrentIsFresh
      <4> QED
        BY <3>2, <3>4, <4>1
    <3>5. CASE /\ loads' = [loads EXCEPT ![l].step = "store", ![l].code = files[f]]
               /\ imports' = imports \cup {read}
      BY <3>2, <3>5
    <3> QED
      BY <2>3, <3>3, <3>4, <3>5 DEF Import
  <2>4. CASE StoreModule(l)
    <3>1. /\ modules' = [modules EXCEPT ![loads[l].fn] = [v |-> loads[l].v, code |-> loads[l].code]]
          /\ loads' = [loads EXCEPT ![l] = NoLoad]
          /\ UNCHANGED imports
          /\ loads[l].step = "store" /\ loads[l].fn \in Functions
      BY <2>1, <2>4 DEF StoreModule
    <3>2. NoneAhead'
      BY <1>0, <1>1, <3>1 DEF CacheInv, NoneAhead, NoLoad
    <3>3. CurrentIsFresh'
      BY <1>0, <1>1, <3>1 DEF CacheInv, CurrentIsFresh, NoLoad
    <3> QED
      BY <3>2, <3>3 DEF CacheInv
  <2>5. CASE ImportFails(l)
    <3>1. UNCHANGED <<modules, imports>> /\ loads' = [loads EXCEPT ![l] = NoLoad]
      BY <2>5 DEF ImportFails
    <3>2. NoLoad.v = 0 /\ NoLoad.step # "store"
      BY DEF NoLoad
    <3> QED
      BY <1>2, <3>1, <3>2
  <2> QED
    BY <1>3, <2>2, <2>3, <2>4, <2>5 DEF LoadStep
<1> QED
  BY <1>3, <1>4 DEF LoadStep, Resolve, Import, StoreModule, ImportFails

(* ... of the world outside, and when something fails. *)
LEMMA OtherCacheInv ==
    ASSUME CacheInv,
           \/ \E f \in Functions : Commit(f) \/ Remove(f)
           \/ RuntimeHook \/ RunFails \/ FilesFail \/ Killed \/ UNCHANGED vars
    PROVE  CacheInv'
<1>1. CASE (\E f \in Functions : Commit(f) \/ Remove(f)) \/ RuntimeHook \/ UNCHANGED vars
  <2>1. UNCHANGED <<moduleVars, files, sync, torn>>
    BY <1>1 DEF Commit, Remove, RuntimeHook, vars, runtimeVars, fileVars
  <2> QED
    BY <2>1, QuietCacheInv DEF Steady
<1>2. CASE Abandon
  <2>1. UNCHANGED <<moduleVars, files>> /\ ~Steady'
    BY <1>2 DEF Abandon, Steady
  <2> QED
    BY <2>1, UnsteadyCacheInv
<1>3. CASE Killed
  BY <1>3 DEF Killed, CacheInv, NoneAhead, CurrentIsFresh, NoModule, NoLoad
<1> QED
  BY <1>1, <1>2, <1>3 DEF RunFails, FilesFail

(* Once no sync is replacing the files, a module of the current version, in *)
(* the cache or about to enter it, is that of the files.                    *)
THEOREM NewModulesAreFreshCorrect == Spec => []NewModulesAreFresh
<1>1. TypeInv /\ CacheInv /\ [Next]_vars => CacheInv'
  BY SyncCacheInv, LoadCacheInv, OtherCacheInv DEF Next
<1>2. Init => TypeInv /\ CacheInv
  BY InitTypeInv, InitCacheInv
<1>3. TypeInv /\ [Next]_vars => TypeInv'
  BY StepTypeInv
<1>4. CacheInv => NewModulesAreFresh
  BY DEF CacheInv, CurrentIsFresh, Steady, NewModulesAreFresh
<1> QED
  BY <1>1, <1>2, <1>3, <1>4, PTL DEF Spec

------------------------------------------------------------------------------
(* ConsumersMatchFiles is kept by every step: only a reconciliation, or a   *)
(* sync that fails, makes the runtime idle again.                           *)
LEMMA StepConsumers ==
    ASSUME TypeInv, ConsumersMatchFiles, [Next]_vars
    PROVE  ConsumersMatchFiles'
<1>1. CASE ReconcileConsumers
  BY <1>1 DEF ReconcileConsumers, ConsumersMatchFiles, fileVars, TypeInv, TypeOK
<1>2. CASE sync' = "idle" => (sync = "idle" /\ UNCHANGED <<torn, files, consumers>>) \/ torn'
  BY <1>2 DEF ConsumersMatchFiles
<1>3. CASE SyncStep
  <2>1. ReconcileConsumers \/ sync' # "idle" \/ torn'
    BY <1>3 DEF SyncStep, Boot, Connect, AddStream, HookReceived, CloneRepo, FetchRepo, ResetMain,
                ResetMaster, StartCopy, ClearModuleCache, Forget, RemoveFile, CopyFile
  <2> QED
    BY <1>1, <1>2, <2>1
<1>4. CASE \E l \in Loads : LoadStep(l) \/ \E f \in Functions : Invoke(l, f)
  <2>1. UNCHANGED loadFrame
    BY <1>4 DEF LoadStep, Invoke, NotFound, Resolve, Import, StoreModule, ImportFails
  <2> QED
    BY <1>2, <2>1 DEF loadFrame, fileVars
<1>5. CASE (\E f \in Functions : Commit(f) \/ Remove(f)) \/ RuntimeHook \/ UNCHANGED vars
  BY <1>2, <1>5 DEF Commit, Remove, RuntimeHook, vars, runtimeVars, fileVars
<1>6. CASE RunFails \/ FilesFail \/ Killed
  BY <1>2, <1>6 DEF RunFails, FilesFail, Abandon, Killed
<1> QED
  BY <1>3, <1>4, <1>5, <1>6 DEF Next

(* Between syncs exactly the functions that have a file have a consumer.    *)
THEOREM ConsumersMatchFilesCorrect == Spec => []ConsumersMatchFiles
<1>1. Init => TypeInv /\ ConsumersMatchFiles
  BY InitTypeInv DEF Init, ConsumersMatchFiles
<1>2. TypeInv /\ ConsumersMatchFiles /\ [Next]_vars => TypeInv' /\ ConsumersMatchFiles'
  BY StepTypeInv, StepConsumers
<1> QED
  BY <1>1, <1>2, PTL DEF Spec

------------------------------------------------------------------------------
(* NotFoundIsExplained needs that what the clone has is copied, or still to *)
(* be: then only an interrupted replacement leaves a function without file. *)
ClonedIsCopied ==
    /\ sync = "copy" => \A f \in Functions : clone[f] # 0 => f \in todo \/ files[f] # 0
    /\ Steady => \A f \in Functions : clone[f] # 0 => files[f] # 0

(* A sync that changes the clone replaces the files next; one that is       *)
(* interrupted leaves them torn.                                            *)
LEMMA StepClonedIsCopied ==
    ASSUME TypeInv, ClonedIsCopied, [Next]_vars
    PROVE  ClonedIsCopied'
<1>1. CASE UNCHANGED <<sync, torn, clone, files, todo>>
  BY <1>1 DEF ClonedIsCopied, Steady
<1>2. CASE sync' # "copy" /\ ~Steady'
  BY <1>2 DEF ClonedIsCopied
<1>3. CASE SyncStep
  <2>1. CASE Boot \/ Connect \/ AddStream \/ HookReceived \/ FetchRepo \/ ReconcileConsumers
    <3>1. sync \notin {"remove", "copy"} /\ sync' \notin {"remove", "copy"}
      BY <2>1 DEF Boot, Connect, AddStream, HookReceived, FetchRepo, ReconcileConsumers
    <3>2. UNCHANGED <<torn, clone, files>>
      BY <2>1 DEF Boot, Connect, AddStream, HookReceived, FetchRepo, ReconcileConsumers,
                  gitVars, fileVars
    <3> QED
      BY <3>1, <3>2 DEF ClonedIsCopied, Steady
  <2>2. CASE CloneRepo \/ ResetMain
    <3>1. sync \notin {"remove", "copy"}
      BY <2>2 DEF CloneRepo, ResetMain
    <3>2. sync' = "remove" \/ (sync' = "reset master" /\ UNCHANGED <<torn, clone, files>>)
      BY <2>2 DEF CloneRepo, ResetMain, fileVars
    <3> QED
      BY <3>1, <3>2 DEF ClonedIsCopied, Steady
  <2>3. CASE ResetMaster
    BY <1>2, <2>3 DEF ResetMaster, Steady
  <2>4. CASE StartCopy
    BY <2>4 DEF StartCopy, gitVars, ClonedIsCopied, Steady
  <2>5. CASE ClearModuleCache
    BY <2>5 DEF ClearModuleCache, Forget, gitVars, fileVars, ClonedIsCopied
  <2>6. ASSUME NEW f \in Functions, RemoveFile(f) PROVE ClonedIsCopied'
    BY <1>2, <2>6 DEF RemoveFile, Steady
  <2>7. ASSUME NEW f \in Functions, CopyFile(f) PROVE ClonedIsCopied'
    BY <2>7 DEF CopyFile, gitVars, ClonedIsCopied, Steady, TypeInv, TypeOK
  <2> QED
    BY <1>3, <2>1, <2>2, <2>3, <2>4, <2>5, <2>6, <2>7 DEF SyncStep
<1>4. CASE \E l \in Loads : LoadStep(l) \/ \E f \in Functions : Invoke(l, f)
  BY <1>1, <1>4 DEF LoadStep, Invoke, NotFound, Resolve, Import, StoreModule, ImportFails, loadFrame, gitVars,
                    fileVars
<1>5. CASE (\E f \in Functions : Commit(f) \/ Remove(f)) \/ RuntimeHook \/ UNCHANGED vars
  BY <1>1, <1>5 DEF Commit, Remove, RuntimeHook, vars, runtimeVars, gitVars, fileVars
<1>6. CASE RunFails \/ FilesFail
  BY <1>2, <1>6 DEF RunFails, FilesFail, Abandon, Steady
<1>7. CASE Killed
  BY <1>7 DEF Killed, ClonedIsCopied, NoCode
<1> QED
  BY <1>3, <1>4, <1>5, <1>6, <1>7 DEF Next

(* An invocation is told that its function does not exist only if the last  *)
(* fetch did not have it, or while its file is being replaced, or after a   *)
(* replacement that failed half-way.                                        *)
THEOREM NotFoundIsExplainedCorrect == Spec => NotFoundIsExplained
<1>1. Init => TypeInv /\ ClonedIsCopied
  BY InitTypeInv DEF Init, ClonedIsCopied, NoCode
<1>2. TypeInv /\ ClonedIsCopied /\ [Next]_vars => TypeInv' /\ ClonedIsCopied'
  BY StepTypeInv, StepClonedIsCopied
<1> DEFINE Explained == \A l \in Loads :
                          NotFound(l) =>
                             clone[loads[l].fn] = 0 \/ sync \in {"remove", "copy"} \/ torn
<1>3. TypeInv /\ ClonedIsCopied => [Explained]_vars
  <2> SUFFICES ASSUME TypeInv, ClonedIsCopied, NEW l \in Loads, NotFound(l), Steady
               PROVE  clone[loads[l].fn] = 0
    BY DEF Steady
  <2>1. loads[l].fn \in Functions
    BY DEF NotFound, TypeInv, TypeOK, LoadType, NoLoad
  <2> QED
    BY <2>1 DEF NotFound, ClonedIsCopied
<1> QED
  BY <1>1, <1>2, <1>3, PTL DEF Spec, NotFoundIsExplained
==============================================================================
