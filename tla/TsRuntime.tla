------------------------------ MODULE TsRuntime ------------------------------
(***************************************************************************)
(* The TypeScript runtime of a project: it clones the project's repository *)
(* when it boots, and at each hook event fetches it again, replaces the    *)
(* files of its functions, forgets the loaded modules and brings the       *)
(* consumers in line with the files.  Meanwhile invocations load modules;  *)
(* TsService adds what they then do.                                       *)
(*                                                                         *)
(* Everything runs on one event loop: a step is what happens between two   *)
(* awaits.  Hooks are handled one after another.  A module is imported     *)
(* under a URL that carries moduleVersion, because the module loader       *)
(* returns what it once loaded under a URL.  Code is a commit number, 0    *)
(* where there is none; the first commit is there already.                 *)
(***************************************************************************)
EXTENDS Naturals

CONSTANTS
    Functions,   \* names of functions
    Loads,       \* what invokes functions: requests and consumers
    Env,         \* environment variables that the deployment sets
    Branch,      \* the repository's branch: "main", "master" or "other"
    MaxCommits,  \* commits to the repository
    MaxFaults    \* failed syncs and killed pods

ASSUME BranchAssumption == Branch \in {"main", "master", "other"}
ASSUME BoundsAssumption == MaxCommits \in Nat \ {0} /\ MaxFaults \in Nat

VARIABLES
    repo,      \* the code of each function at the head of the repository
    commits,   \* the number of commits
    owed,      \* hook calls that the repository's workflow has yet to make
    hooks,     \* hook events pending at the runtime
    watching,  \* the runtime has subscribed to hook events
    stream,    \* the project's JetStream stream exists
    sync,      \* where the boot or the sync is
    cloned,    \* the local clone exists
    fetched,   \* the code at the clone's remote branch
    clone,     \* the code in the clone's working tree
    todo,      \* the files still to be copied
    files,     \* the code in the runtime's directory
    torn,      \* the last sync failed
    modules,   \* the cache of modules
    version,   \* moduleVersion
    imports,   \* what the module loader has loaded, by URL
    loads,     \* module loads in progress
    consumers, \* how many consumers each function has
    faults     \* faults that may still happen

repoVars == <<repo, commits, owed>>
gitVars == <<cloned, fetched, clone>>
fileVars == <<todo, files>>
moduleVars == <<modules, version, imports, loads>>
runtimeVars == <<watching, stream, sync, gitVars, fileVars, torn, moduleVars, consumers, faults>>
vars == <<repoVars, hooks, runtimeVars>>

Codes == 0..MaxCommits
NoCode == [f \in Functions |-> 0]
NoFunction == "none"
NoLoad == [step |-> "idle", fn |-> NoFunction, v |-> 0, code |-> 0]
NoModule == [v |-> 0, code |-> 0]
GitSteps == {"fetch", "reset", "reset master"}
SyncSteps == {"down", "connect", "stream", "idle", "remove", "copy", "reconcile"} \cup GitSteps
LoadType == {NoLoad} \cup
            [step: {"resolve", "import", "store"}, fn: Functions, v: Nat, code: Codes]

TypeOK ==
    /\ repo \in [Functions -> Codes]
    /\ commits \in 0..MaxCommits
    /\ owed \in 0..MaxCommits
    /\ hooks \in 0..MaxCommits
    /\ watching \in BOOLEAN
    /\ stream \in BOOLEAN
    /\ sync \in SyncSteps
    /\ cloned \in BOOLEAN
    /\ fetched \in [Functions -> Codes]
    /\ clone \in [Functions -> Codes]
    /\ todo \subseteq Functions
    /\ files \in [Functions -> Codes]
    /\ torn \in BOOLEAN
    /\ modules \in [Functions -> [v: Nat, code: Codes]]
    /\ version \in Nat
    /\ imports \subseteq [fn: Functions, v: Nat, code: Codes]
    /\ loads \in [Loads -> LoadType]
    /\ consumers \in [Functions -> 0..1]
    /\ faults \in 0..MaxFaults

Init ==
    /\ repo \in [Functions -> 0..1]
    /\ commits = 1
    /\ owed = 0
    /\ hooks = 0
    /\ watching = FALSE
    /\ stream = FALSE
    /\ sync = "down"
    /\ cloned = FALSE
    /\ fetched = NoCode
    /\ clone = NoCode
    /\ todo = {}
    /\ files = NoCode
    /\ torn = FALSE
    /\ modules = [f \in Functions |-> NoModule]
    /\ version = 1
    /\ imports = {}
    /\ loads = [l \in Loads |-> NoLoad]
    /\ consumers = NoCode
    /\ faults = MaxFaults

------------------------------------------------------------------------------
(* Outside the runtime: the repository, and the workflow that calls the     *)
(* ingestor's hook endpoint after a commit.                                 *)

Commit(f) ==
    /\ commits < MaxCommits
    /\ commits' = commits + 1
    /\ repo' = [repo EXCEPT ![f] = commits + 1]
    /\ owed' = owed + 1
    /\ UNCHANGED <<hooks, runtimeVars>>

Remove(f) ==
    /\ commits < MaxCommits
    /\ repo[f] # 0
    /\ commits' = commits + 1
    /\ repo' = [repo EXCEPT ![f] = 0]
    /\ owed' = owed + 1
    /\ UNCHANGED <<hooks, runtimeVars>>

(* Core NATS: the event reaches a runtime that is subscribed, or nobody. *)
RuntimeHook ==
    /\ owed > 0
    /\ owed' = owed - 1
    /\ hooks' = IF watching THEN hooks + 1 ELSE hooks
    /\ UNCHANGED <<repo, commits, runtimeVars>>

------------------------------------------------------------------------------
(* The boot: settings, directory, connection and stream, before the sync. *)

SettingsGiven == {"PROJECT", "NATS_URL"} \subseteq Env

Boot ==
    /\ sync = "down"
    /\ SettingsGiven
    /\ sync' = "connect"
    /\ UNCHANGED <<repoVars, hooks, watching, stream, gitVars, fileVars, torn, moduleVars, consumers,
                   faults>>

Connect ==
    /\ sync = "connect"
    /\ sync' = "stream"
    /\ UNCHANGED <<repoVars, hooks, watching, stream, gitVars, fileVars, torn, moduleVars, consumers,
                   faults>>

(* Variant: the error of a stream that is there already is not told apart. *)
AddStreamOnce ==
    /\ sync = "stream"
    /\ stream' = TRUE
    /\ sync' = IF stream THEN "down" ELSE "fetch"
    /\ UNCHANGED <<repoVars, hooks, watching, gitVars, fileVars, torn, moduleVars, consumers, faults>>

(* The stream of an earlier process, or of another runtime of the project, *)
(* will do.                                                                *)
AddStream ==
    /\ sync = "stream"
    /\ stream' = TRUE
    /\ sync' = "fetch"
    /\ UNCHANGED <<repoVars, hooks, watching, gitVars, fileVars, torn, moduleVars, consumers, faults>>

------------------------------------------------------------------------------
(* syncRepoAndReload and reconcileConsumers, at boot or for a hook. *)

HookReceived ==
    /\ sync = "idle"
    /\ hooks > 0
    /\ hooks' = hooks - 1
    /\ sync' = "fetch"
    /\ UNCHANGED <<repoVars, watching, stream, gitVars, fileVars, torn, moduleVars, consumers, faults>>

CloneRepo ==
    /\ sync = "fetch"
    /\ ~cloned
    /\ cloned' = TRUE
    /\ fetched' = repo
    /\ clone' = repo
    /\ sync' = "remove"
    /\ UNCHANGED <<repoVars, hooks, watching, stream, fileVars, torn, moduleVars, consumers, faults>>

(* Variant: a clone that is there is not fetched again. *)
FetchNothing ==
    /\ sync = "fetch"
    /\ cloned
    /\ sync' = "reset"
    /\ UNCHANGED <<repoVars, hooks, watching, stream, gitVars, fileVars, torn, moduleVars, consumers,
                   faults>>

FetchRepo ==
    /\ sync = "fetch"
    /\ cloned
    /\ fetched' = repo
    /\ sync' = "reset"
    /\ UNCHANGED <<repoVars, hooks, watching, stream, cloned, clone, fileVars, torn, moduleVars,
                   consumers, faults>>

(* The reset to origin/main fails if there is no such branch. *)
ResetMain ==
    /\ sync = "reset"
    /\ IF Branch = "main"
       THEN clone' = fetched /\ sync' = "remove"
       ELSE sync' = "reset master" /\ UNCHANGED clone
    /\ UNCHANGED <<repoVars, hooks, watching, stream, cloned, fetched, fileVars, torn, moduleVars,
                   consumers, faults>>

ResetMaster ==
    /\ sync = "reset master"
    /\ IF Branch = "master"
       THEN clone' = fetched /\ sync' = "remove" /\ UNCHANGED torn
       ELSE sync' = "idle" /\ torn' = TRUE /\ UNCHANGED clone
    /\ UNCHANGED <<repoVars, hooks, watching, stream, cloned, fetched, fileVars, moduleVars,
                   consumers, faults>>

RemoveFile(f) ==
    /\ sync = "remove"
    /\ files[f] # 0
    /\ files' = [files EXCEPT ![f] = 0]
    /\ UNCHANGED <<repoVars, hooks, watching, stream, sync, gitVars, todo, torn, moduleVars,
                   consumers, faults>>

StartCopy ==
    /\ sync = "remove"
    /\ files = NoCode
    /\ sync' = "copy"
    /\ todo' = {f \in Functions : clone[f] # 0}
    /\ UNCHANGED <<repoVars, hooks, watching, stream, gitVars, files, torn, moduleVars, consumers,
                   faults>>

CopyFile(f) ==
    /\ sync = "copy"
    /\ f \in todo
    /\ todo' = todo \ {f}
    /\ files' = [files EXCEPT ![f] = clone[f]]
    /\ UNCHANGED <<repoVars, hooks, watching, stream, sync, gitVars, torn, moduleVars, consumers,
                   faults>>

Forget ==
    /\ sync' = "reconcile"
    /\ modules' = [f \in Functions |-> NoModule]
    /\ torn' = FALSE
    /\ UNCHANGED <<repoVars, hooks, watching, stream, gitVars, fileVars, imports, loads, consumers,
                   faults>>

(* Variant: the modules are forgotten, but will be imported as before. *)
ClearModulesOnly == sync = "copy" /\ todo = {} /\ Forget /\ UNCHANGED version

(* Variant: the copies are not awaited. *)
ClearUnawaited == sync = "copy" /\ Forget /\ version' = version + 1

ClearModuleCache == sync = "copy" /\ todo = {} /\ Forget /\ version' = version + 1

(* Variant: a consumer that is there is not looked for. *)
ReconcileAgain ==
    /\ sync = "reconcile"
    /\ sync' = "idle"
    /\ watching' = TRUE
    /\ consumers' = [f \in Functions |-> IF files[f] # 0 THEN consumers[f] + 1 ELSE 0]
    /\ UNCHANGED <<repoVars, hooks, stream, gitVars, fileVars, torn, moduleVars, faults>>

(* Variant: consumers are added, never cancelled. *)
ReconcileAdds ==
    /\ sync = "reconcile"
    /\ sync' = "idle"
    /\ watching' = TRUE
    /\ consumers' = [f \in Functions |-> IF files[f] # 0 THEN 1 ELSE consumers[f]]
    /\ UNCHANGED <<repoVars, hooks, stream, gitVars, fileVars, torn, moduleVars, faults>>

(* At boot the runtime then starts to watch for hooks and to serve requests. *)
ReconcileConsumers ==
    /\ sync = "reconcile"
    /\ sync' = "idle"
    /\ watching' = TRUE
    /\ consumers' = [f \in Functions |->
                        IF files[f] = 0 THEN 0
                        ELSE IF consumers[f] = 0 THEN consumers[f] + 1 ELSE consumers[f]]
    /\ UNCHANGED <<repoVars, hooks, stream, gitVars, fileVars, torn, moduleVars, faults>>

------------------------------------------------------------------------------
(* loadModule, for an invocation that finds no module in the cache. *)

loadFrame == <<repoVars, hooks, watching, stream, sync, gitVars, fileVars, torn, version, consumers,
               faults>>

Invoke(l, f) ==
    /\ loads[l].step = "idle"
    /\ watching
    /\ modules[f] = NoModule
    /\ loads' = [loads EXCEPT ![l] = [step |-> "resolve", fn |-> f, v |-> 0, code |-> 0]]
    /\ UNCHANGED <<loadFrame, modules, imports>>

NotFound(l) ==
    /\ loads[l].step = "resolve"
    /\ files[loads[l].fn] = 0
    /\ loads' = [loads EXCEPT ![l] = NoLoad]
    /\ UNCHANGED <<loadFrame, modules, imports>>

Resolve(l) ==
    /\ loads[l].step = "resolve"
    /\ files[loads[l].fn] # 0
    /\ loads' = [loads EXCEPT ![l].step = "import", ![l].v = version]
    /\ UNCHANGED <<loadFrame, modules, imports>>

(* The loader answers from its own cache, or reads the file, and has then to *)
(* evaluate the module.                                                      *)
Import(l) ==
    LET f == loads[l].fn
        v == loads[l].v
        known == {i \in imports : i.fn = f /\ i.v = v} IN
    /\ loads[l].step = "import"
    /\ \/ \E i \in known :
             /\ loads' = [loads EXCEPT ![l].step = "store", ![l].code = i.code]
             /\ UNCHANGED imports
       \/ /\ known = {} /\ files[f] # 0
          /\ loads' = [loads EXCEPT ![l].step = "store", ![l].code = files[f]]
          /\ imports' = imports \cup {[fn |-> f, v |-> v, code |-> files[f]]}
       \/ /\ known = {} /\ files[f] = 0
          /\ loads' = [loads EXCEPT ![l] = NoLoad]
          /\ UNCHANGED imports
    /\ UNCHANGED <<loadFrame, modules>>

StoreModule(l) ==
    /\ loads[l].step = "store"
    /\ modules' = [modules EXCEPT ![loads[l].fn] = [v |-> loads[l].v, code |-> loads[l].code]]
    /\ loads' = [loads EXCEPT ![l] = NoLoad]
    /\ UNCHANGED <<loadFrame, imports>>

(* The module is the user's: evaluating it may throw, or never end.  Either *)
(* way nothing is stored.                                                   *)
ImportFails(l) ==
    /\ loads[l].step = "store"
    /\ loads' = [loads EXCEPT ![l] = NoLoad]
    /\ UNCHANGED <<loadFrame, modules, imports>>

------------------------------------------------------------------------------
(* What fails.  A hook's sync that fails is logged and left as it is; one   *)
(* that fails while the runtime boots ends the process.                     *)

Abandon ==
    /\ faults > 0
    /\ faults' = faults - 1
    /\ watching
    /\ sync' = "idle"
    /\ torn' = TRUE
    /\ todo' = {}
    /\ UNCHANGED <<repoVars, hooks, watching, stream, gitVars, files, moduleVars, consumers>>

(* A git command ends with another code than 0. *)
RunFails == sync \in GitSteps /\ Abandon

FilesFail == sync \in {"remove", "copy"} /\ Abandon

(* The process starts again with nothing: its disk is the container's. *)
Killed ==
    /\ faults > 0
    /\ faults' = faults - 1
    /\ sync # "down"
    /\ sync' = "down"
    /\ hooks' = 0
    /\ watching' = FALSE
    /\ cloned' = FALSE
    /\ fetched' = NoCode
    /\ clone' = NoCode
    /\ todo' = {}
    /\ files' = NoCode
    /\ torn' = FALSE
    /\ modules' = [f \in Functions |-> NoModule]
    /\ version' = 1
    /\ imports' = {}
    /\ loads' = [l \in Loads |-> NoLoad]
    /\ consumers' = NoCode
    /\ UNCHANGED <<repoVars, stream>>

------------------------------------------------------------------------------

SyncStep ==
    \/ Boot \/ Connect \/ AddStream
    \/ HookReceived \/ CloneRepo \/ FetchRepo \/ ResetMain \/ ResetMaster
    \/ StartCopy \/ ClearModuleCache \/ ReconcileConsumers
    \/ \E f \in Functions : RemoveFile(f) \/ CopyFile(f)

LoadStep(l) == NotFound(l) \/ Resolve(l) \/ Import(l) \/ StoreModule(l) \/ ImportFails(l)

Next ==
    \/ \E f \in Functions : Commit(f) \/ Remove(f)
    \/ RuntimeHook
    \/ SyncStep
    \/ \E l \in Loads : LoadStep(l) \/ \E f \in Functions : Invoke(l, f)
    \/ RunFails \/ FilesFail \/ Killed

Spec == Init /\ [][Next]_vars

(* The event loop turns, and the workflow calls the hook. *)
Fairness ==
    /\ WF_vars(SyncStep)
    /\ WF_vars(RuntimeHook)
    /\ \A l \in Loads : WF_vars(LoadStep(l))

FairSpec == Spec /\ Fairness

------------------------------------------------------------------------------
(* A module of the current version, in the cache or about to enter it, is   *)
(* that of the files, once no sync is replacing them: forgetting the        *)
(* modules is not enough, because the module loader has a cache of its own. *)
(* (A load that was on its way during a refresh may leave an older one.)    *)
NewModulesAreFresh ==
    (sync \in {"idle", "reconcile"} /\ ~torn) =>
       /\ \A f \in Functions : modules[f].v = version => modules[f].code = files[f]
       /\ \A l \in Loads :
             (loads[l].step = "store" /\ loads[l].v = version) =>
                loads[l].code = files[loads[l].fn]

(* Between syncs exactly the functions that have a file have a consumer.    *)
ConsumersMatchFiles ==
    (sync = "idle" /\ ~torn) =>
       \A f \in Functions : consumers[f] = 1 <=> files[f] # 0

(* An invocation is told that its function does not exist only if the last  *)
(* fetch did not have it, or while its file is being replaced, or after a   *)
(* replacement that failed half-way.                                        *)
NotFoundIsExplained ==
    [][\A l \in Loads :
          NotFound(l) =>
             clone[loads[l].fn] = 0 \/ sync \in {"remove", "copy"} \/ torn]_vars

(* However often the process ends, it boots again: what its predecessor     *)
(* left in NATS does not keep it from that.                                 *)
RuntimeComesUp == []<>watching

(* A hook that is received brings the runtime up to date with the           *)
(* repository, unless its sync fails or another hook is to come.            *)
HookIsApplied ==
    hooks > 0 ~> files = repo \/ owed > 0 \/ torn

------------------------------------------------------------------------------
(* What the program says of itself, and a behaviour contradicts. *)

(* "refresh function code from VCS using hook events": once every hook has  *)
(* been sent, a runtime that is up comes to have the repository's code.     *)
RuntimeFollowsRepo ==
    (owed = 0 /\ watching) ~> (files = repo \/ owed > 0 \/ torn)
==============================================================================
