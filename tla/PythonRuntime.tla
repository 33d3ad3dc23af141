----------------------------- MODULE PythonRuntime -----------------------------
(***************************************************************************)
(* The Python runtime of a project.  Unlike the TypeScript one it hears of *)
(* hooks through a JetStream stream, which it creates before it fetches,   *)
(* and whose hook events each new consumer reads from the first on.  And   *)
(* it listens to two subjects, hook.py and hook.python, with a watcher     *)
(* each, so two refreshes may run at once; their file operations run in    *)
(* threads of the system and interleave.                                   *)
(*                                                                         *)
(* A commit is a number, the code of a function the number of the commit   *)
(* that last changed it, or 0 if there is none.  The clone has a HEAD, and *)
(* a working tree that a checkout changes one file after the other.        *)
(***************************************************************************)
EXTENDS Naturals

CONSTANTS
    Functions,   \* names of functions
    Subjects,    \* the subjects of hook events: "py" and "python"
    MaxCommits,  \* commits to the repository
    MaxFaults    \* failed refreshes, dead watchers and killed pods

ASSUME BoundsAssumption == MaxCommits \in Nat /\ MaxFaults \in Nat
ASSUME SubjectsAssumption == "boot" \notin Subjects

(* Who refreshes the code: the boot, and one watcher per subject. *)
Refreshers == Subjects \cup {"boot"}

VARIABLES
    trees,     \* the code of every function at each commit
    commits,   \* the number of commits
    owed,      \* hook calls that the repository's workflow has yet to make
    stream,    \* the stream exists
    sent,      \* hook events in the stream, per subject
    pos,       \* those the watcher of the subject has taken
    refresh,   \* where each refresh is
    head,      \* the commit that the HEAD of the local clone names
    work,      \* the code in the clone's working tree
    files,     \* the code in the runtime's directory
    torn,      \* a refresh failed since the last one listed the files
    overlap,   \* the last refresh to begin did so beside another (history)
    stray,     \* the clone's index may have lost files of its tree
    modules,   \* the cache of modules
    consumers, \* how many consumer tasks each function has
    faults     \* faults that may still happen

repoVars == <<trees, commits, owed>>
hookVars == <<stream, sent, pos>>
cloneVars == <<head, work>>
pastVars == <<torn, overlap, stray>>
codeVars == <<modules, consumers>>
vars == <<repoVars, hookVars, refresh, cloneVars, files, pastVars, codeVars, faults>>

Codes == 0..MaxCommits
NoCode == [f \in Functions |-> 0]
At(step) == [step |-> step, target |-> 0, names |-> {}, open |-> {}]
Resting == {"off", "idle", "dead"}
Steps == Resting \cup {"fetch", "head", "read", "checkout", "remove", "copy"}

(* The code at the commit of the clone. *)
Tree == trees[head]
HasCode(tree) == {f \in Functions : tree[f] # 0}
Up == refresh["boot"].step = "idle"
Refreshing(w) == refresh[w].step \notin Resting

TypeOK ==
    /\ commits \in 0..MaxCommits
    /\ trees \in [0..commits -> [Functions -> Codes]]
    /\ owed \in 0..MaxCommits
    /\ stream \in BOOLEAN
    /\ sent \in [Subjects -> 0..MaxCommits]
    /\ pos \in [Subjects -> 0..MaxCommits]
    /\ \A s \in Subjects : pos[s] <= sent[s]
    /\ refresh \in [Refreshers ->
                       [step: Steps, target: 0..commits, names: SUBSET Functions,
                        open: SUBSET (Functions \X Codes)]]
    /\ head \in 0..commits
    /\ work \in [Functions -> Codes]
    /\ files \in [Functions -> Codes]
    /\ torn \in BOOLEAN
    /\ overlap \in BOOLEAN
    /\ stray \in BOOLEAN
    /\ modules \in [Functions -> Codes]
    /\ consumers \in [Functions -> 0..1]
    /\ faults \in 0..MaxFaults

Init ==
    /\ commits = 0
    /\ trees = [n \in {0} |-> NoCode]
    /\ owed = 0
    /\ stream = FALSE
    /\ sent = [s \in Subjects |-> 0]
    /\ pos = sent
    /\ refresh = [w \in Refreshers |-> At("off")]
    /\ head = 0
    /\ work = NoCode
    /\ files = NoCode
    /\ torn = FALSE
    /\ overlap = FALSE
    /\ stray = FALSE
    /\ modules = NoCode
    /\ consumers = NoCode
    /\ faults = MaxFaults

------------------------------------------------------------------------------
(* Outside the runtime: the repository, and the workflow that calls the     *)
(* ingestor's hook endpoint under one of the two names.                     *)

Push(f) ==
    /\ commits < MaxCommits
    /\ commits' = commits + 1
    /\ \E code \in {commits + 1} \cup (IF trees[commits][f] = 0 THEN {} ELSE {0}) :
          trees' = [n \in 0..commits + 1 |->
                       IF n <= commits THEN trees[n]
                       ELSE [trees[commits] EXCEPT ![f] = code]]
    /\ owed' = owed + 1
    /\ UNCHANGED <<hookVars, refresh, cloneVars, files, pastVars, codeVars, faults>>

RuntimeHook(s) ==
    /\ owed > 0
    /\ owed' = owed - 1
    /\ sent' = IF stream THEN [sent EXCEPT ![s] = @ + 1] ELSE sent
    /\ UNCHANGED <<trees, commits, stream, pos, refresh, cloneVars, files, pastVars, codeVars,
                   faults>>

------------------------------------------------------------------------------
(* sync_repo_and_reload and reconcile_consumers, at boot or for a hook. *)

Begin(w) ==
    /\ refresh' = [refresh EXCEPT ![w] = At("fetch")]
    /\ overlap' = \E v \in Refreshers \ {w} : Refreshing(v)
    /\ stray' = (stray \/ overlap')

(* The stream is there before the boot fetches. *)
Boot ==
    /\ refresh["boot"].step = "off"
    /\ stream' = TRUE
    /\ Begin("boot")
    /\ UNCHANGED <<repoVars, sent, pos, cloneVars, files, torn, codeVars, faults>>

(* A watcher acknowledges a hook event before it acts on it. *)
HookReceived(s) ==
    /\ refresh[s].step = "idle"
    /\ pos[s] < sent[s]
    /\ pos' = [pos EXCEPT ![s] = @ + 1]
    /\ Begin(s)
    /\ UNCHANGED <<repoVars, stream, sent, cloneVars, files, torn, codeVars, faults>>

(* Up to where the branch of the remote is read for the clone's HEAD. *)
Fetch(w) ==
    /\ refresh[w].step = "fetch"
    /\ refresh' = [refresh EXCEPT ![w].step = "head", ![w].target = commits]
    /\ UNCHANGED <<repoVars, hookVars, cloneVars, files, pastVars, codeVars, faults>>

SetHead(w) ==
    /\ refresh[w].step = "head"
    /\ head' = refresh[w].target
    /\ refresh' = [refresh EXCEPT ![w].step = "read"]
    /\ UNCHANGED <<repoVars, hookVars, work, files, pastVars, codeVars, faults>>

(* checkout_head: HEAD may be the other refresh's by now.  It writes the    *)
(* files that differ from the commit's...                                   *)
ReadHead(w) ==
    /\ refresh[w].step = "read"
    /\ refresh' = [refresh EXCEPT ![w].step = "checkout", ![w].target = head,
                                  ![w].names = {f \in Functions : work[f] # Tree[f]}]
    /\ UNCHANGED <<repoVars, hookVars, cloneVars, files, pastVars, codeVars, faults>>

(* ... and removes those that the commit has not: as far as they are in the *)
(* index.                                                                   *)
CheckoutFile(w, f) ==
    /\ refresh[w].step = "checkout"
    /\ f \in refresh[w].names
    /\ refresh' = [refresh EXCEPT ![w].names = @ \ {f}]
    /\ LET code == trees[refresh[w].target][f] IN
       \/ work' = [work EXCEPT ![f] = code]
       \/ stray /\ code = 0 /\ UNCHANGED work
    /\ UNCHANGED <<repoVars, hookVars, head, files, pastVars, codeVars, faults>>

ListOld(w) ==
    /\ refresh[w].step = "checkout"
    /\ refresh[w].names = {}
    /\ refresh' = [refresh EXCEPT ![w].step = "remove", ![w].names = HasCode(files)]
    /\ torn' = FALSE
    /\ UNCHANGED <<repoVars, hookVars, cloneVars, files, overlap, stray, codeVars, faults>>

RemoveFile(w, f) ==
    /\ refresh[w].step = "remove"
    /\ f \in refresh[w].names
    /\ refresh' = [refresh EXCEPT ![w].names = @ \ {f}]
    /\ files' = [files EXCEPT ![f] = 0]
    /\ UNCHANGED <<repoVars, hookVars, cloneVars, pastVars, codeVars, faults>>

ListNew(w) ==
    /\ refresh[w].step = "remove"
    /\ refresh[w].names = {}
    /\ refresh' = [refresh EXCEPT ![w].step = "copy", ![w].names = HasCode(work)]
    /\ UNCHANGED <<repoVars, hookVars, cloneVars, files, pastVars, codeVars, faults>>

(* copy2 opens and reads a file of the clone, and then writes the copy. *)
OpenFile(w, f) ==
    /\ refresh[w].step = "copy"
    /\ f \in refresh[w].names
    /\ refresh[w].open = {}
    /\ work[f] # 0
    /\ refresh' = [refresh EXCEPT ![w].names = @ \ {f}, ![w].open = {<<f, work[f]>>}]
    /\ UNCHANGED <<repoVars, hookVars, cloneVars, files, pastVars, codeVars, faults>>

WriteFile(w, f) ==
    /\ refresh[w].step = "copy"
    /\ \E code \in Codes :
          /\ <<f, code>> \in refresh[w].open
          /\ files' = [files EXCEPT ![f] = code]
    /\ refresh' = [refresh EXCEPT ![w].open = {}]
    /\ UNCHANGED <<repoVars, hookVars, cloneVars, pastVars, codeVars, faults>>

(* Another refresh's checkout removed the file. *)
CopyMissing(w) ==
    /\ w # "boot"
    /\ refresh[w].step = "copy"
    /\ refresh[w].open = {}
    /\ \E f \in refresh[w].names : work[f] = 0
    /\ refresh' = [refresh EXCEPT ![w] = At("idle")]
    /\ torn' = TRUE
    /\ UNCHANGED <<repoVars, hookVars, cloneVars, files, overlap, stray, codeVars, faults>>

(* Cancel the consumers of functions that are gone, start those missing. *)
Reconciled == [f \in Functions |-> IF files[f] = 0 THEN 0 ELSE 1]

(* After the boot's refresh the watchers start. *)
Started(w) ==
    IF w = "boot" THEN [v \in Refreshers |-> At("idle")]
                  ELSE [refresh EXCEPT ![w] = At("idle")]

(* Variant: the modules are not forgotten. *)
FinishKeepingModules(w) ==
    /\ refresh[w].step = "copy"
    /\ refresh[w].names = {} /\ refresh[w].open = {}
    /\ refresh' = Started(w)
    /\ consumers' = Reconciled
    /\ UNCHANGED <<repoVars, hookVars, cloneVars, files, pastVars, modules, faults>>

(* Variant: the consumers are reconciled while files are still copied. *)
FinishEarly(w) ==
    /\ refresh[w].step = "copy"
    /\ refresh' = Started(w)
    /\ modules' = NoCode
    /\ consumers' = Reconciled
    /\ UNCHANGED <<repoVars, hookVars, cloneVars, files, pastVars, faults>>

(* Variant: the watchers are only given hooks that are sent from now on. *)
FinishSkippingHooks(w) ==
    /\ refresh[w].step = "copy"
    /\ refresh[w].names = {} /\ refresh[w].open = {}
    /\ refresh' = Started(w)
    /\ pos' = IF w = "boot" THEN sent ELSE pos
    /\ modules' = NoCode
    /\ consumers' = Reconciled
    /\ UNCHANGED <<repoVars, stream, sent, cloneVars, files, pastVars, faults>>

(* Variant: a consumer that is there is not looked for. *)
FinishAgain(w) ==
    /\ refresh[w].step = "copy"
    /\ refresh[w].names = {} /\ refresh[w].open = {}
    /\ refresh' = Started(w)
    /\ modules' = NoCode
    /\ consumers' = [f \in Functions |-> IF files[f] = 0 THEN 0 ELSE consumers[f] + 1]
    /\ UNCHANGED <<repoVars, hookVars, cloneVars, files, pastVars, faults>>

(* clear_module_cache and reconcile_consumers: nothing is awaited between. *)
Finish(w) ==
    /\ refresh[w].step = "copy"
    /\ refresh[w].names = {} /\ refresh[w].open = {}
    /\ refresh' = Started(w)
    /\ modules' = NoCode
    /\ consumers' = Reconciled
    /\ UNCHANGED <<repoVars, hookVars, cloneVars, files, pastVars, faults>>

(* load_module, for an invocation or an event: it holds a lock and awaits   *)
(* nothing, so it is one step.                                              *)
Load(f) ==
    /\ Up
    /\ modules[f] = 0
    /\ files[f] # 0
    /\ modules' = [modules EXCEPT ![f] = files[f]]
    /\ UNCHANGED <<repoVars, hookVars, refresh, cloneVars, files, pastVars, consumers, faults>>

------------------------------------------------------------------------------
(* A watcher logs the failure of a refresh, leaves things as they are and   *)
(* waits for the next hook.  A checkout writes the index when it ends.      *)
RefreshFails(w) ==
    /\ faults > 0
    /\ faults' = faults - 1
    /\ w # "boot"
    /\ Refreshing(w)
    /\ refresh' = [refresh EXCEPT ![w] = At("idle")]
    /\ torn' = TRUE
    /\ stray' = (stray \/ refresh[w].step = "checkout")
    /\ UNCHANGED <<repoVars, hookVars, cloneVars, files, overlap, codeVars>>

(* A failure to fetch a hook event ends the watcher; nobody awaits its task. *)
WatcherDies(s) ==
    /\ faults > 0
    /\ faults' = faults - 1
    /\ refresh[s].step = "idle"
    /\ refresh' = [refresh EXCEPT ![s] = At("dead")]
    /\ UNCHANGED <<repoVars, hookVars, cloneVars, files, pastVars, codeVars>>

(* The process ends, as it does when the boot's refresh fails.  It starts   *)
(* again with nothing: its disk is the container's.  New consumers read the *)
(* stream from the beginning.                                               *)
Killed ==
    /\ faults > 0
    /\ faults' = faults - 1
    /\ refresh["boot"].step # "off"
    /\ pos' = [s \in Subjects |-> 0]
    /\ refresh' = [w \in Refreshers |-> At("off")]
    /\ head' = 0
    /\ work' = NoCode
    /\ files' = NoCode
    /\ torn' = FALSE
    /\ overlap' = FALSE
    /\ stray' = FALSE
    /\ modules' = NoCode
    /\ consumers' = NoCode
    /\ UNCHANGED <<repoVars, stream, sent>>

------------------------------------------------------------------------------

RefreshStep(w) ==
    \/ Fetch(w) \/ SetHead(w) \/ ReadHead(w)
    \/ ListOld(w) \/ ListNew(w) \/ CopyMissing(w) \/ Finish(w)
    \/ \E f \in Functions :
          CheckoutFile(w, f) \/ RemoveFile(w, f) \/ OpenFile(w, f) \/ WriteFile(w, f)

Next ==
    \/ \E f \in Functions : Push(f) \/ Load(f)
    \/ \E s \in Subjects : RuntimeHook(s) \/ HookReceived(s) \/ WatcherDies(s)
    \/ Boot
    \/ \E w \in Refreshers : RefreshStep(w) \/ RefreshFails(w)
    \/ Killed

Spec == Init /\ [][Next]_vars

(* The pod starts, the event loop and the threads run, and the workflow     *)
(* calls the hook.                                                          *)
Fairness ==
    /\ WF_vars(Boot)
    /\ \A w \in Refreshers : WF_vars(RefreshStep(w))
    /\ \A s \in Subjects : WF_vars(HookReceived(s))
    /\ WF_vars(\E s \in Subjects : RuntimeHook(s))

FairSpec == Spec /\ Fairness

------------------------------------------------------------------------------
(* When no refresh is running, and the last one did not fail, no module is   *)
(* older than its file and each file has one consumer: however two refreshes *)
(* interleaved, and though the cache is cleared without the lock that loads  *)
(* are under.  If that refresh ran alone, each function of the clone's       *)
(* commit has that commit's code, whatever earlier refreshes left behind;    *)
(* and there are no others, unless since the boot two refreshes overlapped   *)
(* or one failed in its checkout.                                            *)
RefreshedRuntimeIsExact ==
    (Up /\ ~torn /\ \A w \in Refreshers : ~Refreshing(w)) =>
       /\ \A f \in Functions : modules[f] \in {0, files[f]}
       /\ \A f \in Functions : consumers[f] = 1 <=> files[f] # 0
       /\ ~overlap => \A f \in Functions : Tree[f] # 0 => files[f] = Tree[f]
       /\ ~stray => files = Tree

(* A refresh that runs alone never cancels the consumer, and the event it    *)
(* is working on, of a function that is still in the repository.             *)
ConsumersSurviveRefresh ==
    [][(~overlap /\ Up /\ Up') =>
          \A f \in Functions :
             (consumers[f] = 1 /\ Tree[f] # 0) => consumers'[f] = 1]_vars

(* "refresh function code from VCS using hook events": once every hook has   *)
(* been sent, a runtime that is up comes to have the repository's code, also *)
(* if hooks came while it booted; unless a refresh failed, a watcher died or *)
(* two refreshes overlapped.  After such an overlap, or a checkout that      *)
(* failed, a later refresh may leave functions that are gone.                *)
HasLatest ==
    \A f \in Functions : \/ files[f] = trees[commits][f]
                         \/ stray /\ trees[commits][f] = 0
RuntimeFollowsRepo ==
    (owed = 0 /\ Up) ~>
       \/ HasLatest
       \/ owed > 0
       \/ ~Up
       \/ torn \/ overlap
       \/ \E s \in Subjects : refresh[s].step = "dead"
==============================================================================
