# litefunctions in TLA+

A verification project for litefunctions: TLA+ modules translated from the
source, TLC runs over small instances, and TLAPS proofs of what matters most
for instances of any size. `PROJECT.json` lists the components, the runs, the
theorems, the source lines behind every definition and, for every property, a
plausible bug in the code that breaks it.

Paths below are relative to the repository.

## 1. The system

litefunctions runs user-written functions on Kubernetes. Five programs share
no memory and little state:

```
 browser --> portal ----- git push -----> code host (Gitea, GitHub)
               |  rows: PostgreSQL            | workflow calls /hook
               | gRPC CreateFunction          v
               v                        +-- ingestor <---- client
           operator <--gRPC Activate----+      |  NATS: events, answers, hooks
               | Function resources            v
               v                        runtimes (Go, Rust, Python, TS, Lua)
           Kubernetes API server  ---- deployments, services ---^
```

| part | state it keeps | operations | what is hard about it |
|---|---|---|---|
| operator, `operator/` | Function resources (`isActive`, `deProvisionTime`), deployments, services, all at the API server; informer caches; a workqueue | gRPC CreateFunction, Activate, GetStatus; the reconcile pass; the keep-warm cleanup job, a process of its own | caches that lag one by one, optimistic concurrency, objects shared by functions, a job that reads and writes without versions, restarts between steps |
| ingestor, `ingestor/` | one subscription, channel and handler per request | synchronous proxy, asynchronous submit, event stream, websocket, runtime hook | goroutines that end in any order, a bounded channel, at-most-once delivery |
| runtimes, `runtimes/` | a clone of the repository, files, loaded modules, consumers | boot, hook, refresh, invoke, consume | a refresh in many steps beside invocations, hooks that come while booting or refreshing |
| portal: functions | rows, endpoints, one clone per project in memory | create, update, delete, sync, update an endpoint | four stores changed in turn without a transaction, a clone shared by all requests |
| portal: projects | projects, members, invites | create, invite, join, change a role, revoke | a transaction around calls to the code host, concurrent use of one invite |
| portal: login, pages, build status | sessions; none; none | passkey login; rendering; status events | single-row operations, or reads |
| chart, builds, proto, docs | none | installation | declarative |

What makes each part correct:

- **Operator.** A function becomes active only on request and stops being
  active only because its lease lapsed; no write brings back an old value; an
  active function gets its deployment and service, and no other function's
  inactivity takes them away; a lapsed lease ends.
- **Ingestor and consumers.** Answers arrive in order and once; they are lost
  only where the code says so; handlers end; a slow client holds up nobody.
- **Runtimes.** After a hook the runtime runs the repository's code, with no
  module of an earlier version and exactly one consumer per function.
- **Portal.** What it acknowledges is in its database and in the remote
  repository; what fails can be repeated; an invite admits one user.

## 2. Modules

| module | what it models | state and actions, against the code |
|---|---|---|
| `FunctionLease` | what the operator promises about a lease | abstract: register, ask, hold, condemn, release |
| `FunctionLifecycle` | the operator | `status`, `ttl`: the stored Function; `cached`, `fresh`: the informer cache and who holds a copy of the stored version; `live`, `seen`, `stale`: deployments and services and their caches; `worker`: one pass (`Reconcile`), one API call per step; `calls`: gRPC handlers, read then write; `jobs`: `runCleanup`, list, patch, check, delete, delete |
| `FunctionLifecycle_proofs` | theorems about it | see section 5 |
| `EventDelivery` | the ingestor's handlers, the broker and the consumers of one function | `handler`: `Submit`, `SSE`, `WS` step by step; `conn`: the connection and who ended it; `reader`: the websocket's read goroutine; `pending`, `callback`, `channel`, `held`, `buffer`, `received`: the way of an answer from NATS to the client |
| `TsRuntime` | `runtimes/ts`, the code: boot and refresh on one event loop, a step is what happens between two awaits | `sync`: connect, stream, clone or fetch, reset, remove, copy, clear, reconcile; `cloned`, `fetched`, `clone`: the local clone, its remote branch and its working tree; `loads`: `loadModule` between its awaits; `imports`: the module loader's own cache, by URL |
| `TsService` | `runtimes/ts`, what it serves, composed with `TsRuntime` | `calls`: each request's or task's `invokeModule`; `live`, `inbox`: the consumer tasks and what NATS delivered to their subscriptions; `answers`: what was published to each event |
| `TsRuntime_proofs`, `TsService_proofs` | theorems about them | see section 5 |
| `PythonRuntime` | `runtimes/python`: two watchers whose file operations run in threads | `refresh`: where the boot's and each watcher's refresh is; `head`, `work`: the clone's HEAD and working tree, which a checkout changes file by file; `open`: a file that `copy2` has read and not written; `stream`, `sent`, `pos`: the JetStream stream and what each watcher has taken |
| `LuaRuntime` | `runtimes/lua`: one thread, so a poll with all it leads to is one step | `socket`: frames to read, whole or cut; `subs`, `consumers`: the client's handlers; `served`, `conn`: the server's side of the connection; `leaked`, `unheard`: what a refused `UNSUB` or `SUB` left |
| `LuaRuntime_proofs` | theorems about `LuaRuntime` | see section 5 |
| `PortalFunctions` | `portal/pkg/handlers/{function,sync,endpoint}.go` and the repository behind them | `rows`, `crs`: database and Function resources; `files`, `index`, `head`: the shared clone's worktree, index and commit; `branch`: whether HEAD is on the branch or detached, and where the branch then is; `workflow`: the workflow file; `ahead`, `remote`, `moved`: the remote; `req`: each request, one call per step |
| `ProjectAccess` | `portal/pkg/handlers/project.go`, the access queries, the clients of the code hosts | `project`, `access`, `invites`: committed rows; `host`: what the code host has; `req`: each transaction, whose locks follow from its step |
| `EventDelivery_proofs`, `PythonRuntime_proofs`, `PortalFunctions_proofs`, `ProjectAccess_proofs` | theorems about the module each is named after | see section 5 |
| `MC...` | instances for TLC: symmetry sets, constants that are functions | |

The modules meet where the programs do: `CreateFunctionCRD` in
`PortalFunctions` is the `CreateFunction` call of `FunctionLifecycle`;
`Activated` in `EventDelivery` is its `Activate`, and `Boot`, `Listen` and
`Stop` there are what its `Rollout` and `JobDrop` do; `RuntimeHook` in the three
runtimes is what the workflow does after a push of `PortalFunctions`. Each
side leaves the other as free as the interface allows (an activation may fail,
a runtime may come and go at any time), so what holds of a module holds beside
any neighbour.

Some abstractions worth knowing:

- A resourceVersion is only ever compared for equality with the stored one.
  `fresh[f]` is the set of holders whose copy still carries it; a write that
  changes the object empties the set, one that changes nothing does not, as
  at the real API server.
- A deprovision time is only ever compared with now; `ttl` is the time left.
- Code is the number of the commit, or the request, that wrote it; in
  `PortalFunctions` what others push is numbered in the order of the pushes. A
  function's path follows from its language and name, as in the portal.
- A step is one call of another process, or what a single-threaded runtime
  does between two awaits. In the portal one call on the shared clone is one
  step; go-git's own data structures are taken to survive concurrent use.
  A sync's calls for one file (row, endpoint, resource) are one step too. The
  workflow file, which a sync writes, is taken to be one that git tracks.
- The threads of the Python runtime interleave between the files of a checkout
  or a copy, and between the reading and the writing of a copy; the content of
  a file appears at once. In Lua a `cp` that fails leaves no file, or the old.
- Whether the user's code throws or hangs is a choice of the model wherever the
  TypeScript runtime awaits it: the module's evaluation, `handle`, an item, and
  the clean-up of an iteration that is broken off.
- Faults (a failed call, a lost answer, a killed process) are actions with a
  budget, `MaxFaults`; nothing else in a module may fail.
- Definitions called *Variant* are bugs that the code does not have; they are
  in no specification and exist to show that a property can fail.

## 3. Runs

| run | instance | what it shows |
|---|---|---|
| `shared` | two Python functions of one project, a call, a job, no faults | copies that carry the stored version are exact (`CurrentCopyIsExact`); while a runtime is taken down its active users are due for a pass (`DropIsRepaired`); only a cleanup job's delete strands one (`OnlyCleanupStrands`) |
| `lifecycle` | one Go function that is not registered yet, a call, a job, one fault | the operator implements `FunctionLease` (`LeaseKept`); an active function is served in the end or no longer active (`ActiveIsServed`); a lapsed lease ends or is renewed (`LapsedIsReaped`) |
| `answers` | an event stream and a websocket with two events each up to two answers, channel of one, a serial runtime that comes and goes | `AnswersInOrder`; `NoSilentLoss`: an answer of a subscribed request is lost only to a full channel, to a client that has gone, or to the reader that closes a websocket because NATS refused an event (`ingestor/pkg/broker/request.go:60-65`); `StreamHandlerEnds`; `CallbackNeverBlocks` |
| `ts_service` | one TypeScript function, one request, two tasks, three commits, two events of up to two items, one fault | of the code: `NewModulesAreFresh`, `ConsumersMatchFiles`, `NotFoundIsExplained`, `HookIsApplied`, `RuntimeComesUp` after every restart; of what it serves: `AnswersAreOneRun`, `RequestIsAnswered`, `EventsGoOn` |
| `python_hooks` | two functions, both hook subjects, two commits, two faults | `RefreshedRuntimeIsExact`: however two refreshes interleave, modules and consumers are those of the files, and the files the commit's if the last refresh ran alone; `ConsumersSurviveRefresh`, of one that runs alone; `RuntimeFollowsRepo`: hooks sent during the boot are not lost |
| `lua_hooks` | two functions, three commits, two events, two faults | `EventRunsAnnouncedCode`: an event that comes after a hook runs the code it announced; `ConsumersAgree`: handlers, consumers, files and, but for what was refused, the server's subscriptions; `IdleIsCurrent`; `RuntimeFollowsRepo` |
| `portal_requests` | three requests about functions of one name in two languages, one push by others, one fault, HEAD on the branch or detached at first | `AcknowledgedIsKept`, `SavedIsPublished`, `DeletedIsGone`, all three but for pushes that sent nothing; `FailedDeleteKeepsRow` |
| `members` | three requests, two users, two invite codes, one fault | `InviteAdmitsOne`, `ProjectIsWhole`, `JoinedIsMember`, `CreateCanBeRepeated` |
| `lost_activation` | one function, a call, a job | **violated**: `ActivationOutlivesLease` |
| `missed_hook` | one function, two commits | **violated**: `RuntimeFollowsRepo` in the TypeScript runtime |
| `portal_crd` | two requests | **violated**: `CrIsCreated` |
| `portal_unsent` | two requests, one push by others | **violated**: `RepoIsSourceOfTruth` |

The four violated properties state what the repository says of the program and
what its code does not do:

- *lost_activation.* The cleanup job patches `isActive: false` on what it
  listed at its start (`operator/cmd/cleanup.go:72-75`), without a
  resourceVersion. An Activate in between is undone while its lease has just
  begun.
- *missed_hook.* The TypeScript runtime fetches before it subscribes to hooks
  (`runtimes/ts/main.ts:43-45`), over core NATS. A hook in between is lost and
  the old code stays. The Python runtime, with its stream, does not lose it.
- *portal_crd.* Deleting a function leaves its Function resource, and creating
  one leaves a resource that exists. A function that is created again in
  another language keeps the old one's resource and runtime. All resources go
  to the namespace `default` under the function's bare name, so the same holds
  of functions of one name in two projects.
- *portal_unsent.* "Keep source-of-truth in your repo" (`README.md:19`). When a
  pull brings commits of others, the portal checks them out by hash
  (`portal/internal/project/repo/plumbing.go:104-107`), which detaches HEAD.
  From then on commits advance HEAD only, and a push sends the branch, which has
  nothing new; that is taken for success (`plumbing.go:71`). An update is
  answered `"saved"`, a create with 201, and the remote does not change. The
  commits are in the portal's memory and end with its process.

### Bounds, and why they are enough

- *Operator.* Sharing a runtime takes two functions; every race in the code is
  between one reader that is slow and one writer that is fast, so one call and
  one job meet every pair of steps with the one worker the controller runs.
  `KeepWarm = 1` gives a lease its three phases: running, ending now, lapsed.
- *Delivery.* Order needs two events and two answers; the four answers of a
  websocket overflow a channel of one while one is held. Each call of NATS
  (publish, subscribe) may fail without a budget, since its failure ends what it
  is part of.
- *Runtimes.* Two commits make a stale version possible; a function that goes
  and comes back needs three, and then a consumer that was cancelled and one
  that was started after it are there together: the two tasks. One request and
  the tasks may load the module on either side of a refresh. Two events let one
  be taken while the other is answered, and the second of two items shows that
  a request takes the first only. In Python and Lua a file that is deleted and
  one that stays need two functions; in TypeScript nothing that one function
  does depends on another but the consumers, which are proved for any number.
  `Env` gives no `NAME` in the run of the service, so that a request may come
  without one.
- *Portal.* Three requests allow a create and a delete around a third of any
  kind; two languages give one name two paths. One push by others diverges the
  branches, one fault can hit any call. A second push would only be needed to
  detach HEAD first; `Init` has a detached HEAD instead, so that one push leaves
  the branch behind and every later push refused.
- *Members.* Two joins race for a code, and the third request creates another
  code or the project. Repeating a failed creation takes two requests.

For every safety and action property of a passing run the proofs of section 5
remove these bounds.

Deadlock is not checked where the system really stops: once all commits are
applied or all requests are answered.

## 4. Fairness

Liveness is only claimed where the code's own scheduling gives it.

- *Operator*: weak fairness for the worker, jobs, watches, rollouts and the
  clock: goroutines run, controller-runtime repeats a failed pass, informers
  reconnect. Strong fairness for the start of a pass of each function: the
  workqueue is first in, first out, so a queued function is not passed over
  for ever. Callers owe nothing.
- *Delivery*: weak fairness for each handler and each subscription's callback. A
  write to a client that is connected may block, so it is fair only when the
  connection has ended. Nothing is assumed of clients, read goroutines, NATS or
  the runtime.
- *Runtimes*: weak fairness for the event loop, the threads and the workflow's
  call of the hook. Pushes, invocations and faults are not fair. In `TsService`
  it is one condition, for the loop and the workflow together: they do not both
  stop before everything is done. That is enough, and the weakest one, because
  nothing they do can be repeated for ever without a commit, an event or a
  fault, which are bounded. A module, a handler or a clean-up that hangs is a step
  of the loop that leads to `"hung"`, so none is assumed to return; but what
  never awaits and never ends would stop the loop, as in Python, and is assumed
  not to occur. In Lua, with one thread, handlers are assumed to return.
- *Members*: weak fairness for each handler that has begun.
- `PortalFunctions` states safety only, so it has no fairness.

## 5. Proofs

`FunctionLifecycle_proofs` proves for any sets of functions, calls and jobs,
any assignment of languages and projects, any keep-warm duration and any
number of faults:

| theorem | states |
|---|---|
| `TypeCorrect` | `Spec => []TypeOK` |
| `CurrentCopyCorrect` | `Spec => []CurrentCopyIsExact` |
| `DropRepaired` | `Spec => []DropIsRepaired` |
| `OnlyCleanupStrandsCorrect` | `Spec => OnlyCleanupStrands` |
| `LeaseKeptCorrect` | `Spec => LeaseKept`, that is, `Spec => Lease!Spec` |

They rest on the four named assumptions of `FunctionLifecycle`: the informer's
and the worker's names are not names of calls, the placeholder for "no
function" is not a function, a lease lasts at least one tick, and the number
of faults is a natural number or unlimited.

The argument. `TypeOK` is inductive: besides ranges it says that a process
names a function exactly while it is busy. `CurrentCopyIsExact` is inductive
under it: a write that changes an object empties `fresh`, so every copy still
in it was made of what is stored, and each reader goes on only if its copy
showed what it needs. `DropIsRepaired` needs the former, because the pass
decides on the cache: a function that the cache shows inactive and that is
active has an event on its way, and an event is only consumed into the queue
(`KeepsDue` says which steps may end that). `OnlyCleanupStrands` follows step
by step: a pass that takes a runtime down leaves its users due, a pass that
puts an object goes on only once it exists, a failed pass is queued again, and
a restart queues everything. For `LeaseKept` neither invariant is enough: a
cleanup job's list and the caches must name functions that exist, which
`KnownExists` states (no code deletes a Function) and its lemma proves; then
each step maps to a step of `FunctionLease` or to a stutter.

`LuaRuntime_proofs` proves for any set of functions and any number of commits,
events and faults:

| theorem | states |
|---|---|
| `TypeCorrect` | `Spec => []TypeOK` |
| `ConsumersAgreeCorrect` | `Spec => []ConsumersAgree` |
| `EventRunsAnnouncedCodeCorrect` | `Spec => []EventRunsAnnouncedCode` |
| `IdleIsCurrentCorrect` | `Spec => []IdleIsCurrent` |

They rest on two named assumptions: the subject of hooks is not the name of a
function, and the bounds are natural numbers. `ConsumersAgree` is inductive
under `TypeOK`: what a send refuses goes to `leaked` or, in the next
reconcile's list, to `unheard`, and a cut frame ends the claim about the
server. The other two are not: they follow from `CodeInv`, which says of every
frame still to be read that it is for one name (`FramesAreSingle`) and that the
commit it is entitled to is in the clone or brought by a hook before it or at
it (`DuesAreCovered`); that frames of hooks always find their handler, because
no refresh gives up the hook's subscription (`HooksAreHeard`); and that what is
not missed is either checked out, announced or still owed (`CodeIsKept`). A
poll that takes or cuts a frame shifts the socket (`PassOver`), one that acts
on a hook covers all frames at once (`SyncCovers`), and what the server sends
is covered by what it announced (`SendCovers`).

`TsRuntime_proofs` and `TsService_proofs` prove for any set of functions,
requests and tasks, any branch and environment, and any number of commits,
faults, events and items:

| theorem | states |
|---|---|
| `TsRuntime_proofs!TypeCorrect` | `Spec => []TypeOK` |
| `NewModulesAreFreshCorrect` | `Spec => []NewModulesAreFresh` |
| `ConsumersMatchFilesCorrect` | `Spec => []ConsumersMatchFiles` |
| `NotFoundIsExplainedCorrect` | `Spec => NotFoundIsExplained` |
| `ServiceIsRuntime` | `ServiceSpec => Spec` |
| `ServedCodeCorrect` | the three above, of `ServiceSpec` |
| `ServiceTypeCorrect` | `ServiceSpec => []ServiceTypeOK` |
| `AnswersAreOneRunCorrect` | `ServiceSpec => []AnswersAreOneRun` |

They rest on the named assumptions of the two modules: the branch is one of
three, bounds are natural numbers, requests and tasks are different things.
`TypeOK` needs that hooks sent and still owed are no more than the commits.
`NewModulesAreFresh` is not inductive, because what the module loader keeps may
enter the cache later; `CacheInv` adds that nothing carries a version that is
still to come, so that a new version finds nothing under its URLs
(`NoneAhead`), and that what carries the current version has the code of the
files, in the loader's cache, on its way and in the runtime's cache
(`CurrentIsFresh`). `NotFoundIsExplained` follows from `ClonedIsCopied`: what
the clone has is copied or still to be, so that outside a replacement only one
that failed leaves a function without its file. `ServiceIsRuntime` maps every
step of the service to a step of the runtime or to none. `AnswersAreOneRun`
needs that a function has at most one open subscription (`TasksInv`, from the
consumers that the runtime counts), that a pending event is in one place and
has no answers yet (`PendingInv`), and that an event under way has exactly the
answers its task counts and no second task (`UnderWayInv`). A module whose
evaluation fails or never ends leaves the load behind (`LoadFails`) and stores
nothing, so none of these is concerned.

`EventDelivery_proofs` proves for any requests of any kinds, languages, numbers
of events and answers and capacities of channel and buffer, and for runtimes
that execute events one by one or concurrently:

| theorem | states |
|---|---|
| `Types` | `Spec => []TypeOK` |
| `AnswersStayInOrder` | `Spec => []AnswersInOrder` |
| `LossesHaveAReason` | `Spec => NoSilentLoss` |

Assumed: each request is an event stream, a websocket or an asynchronous
submission, the bounds are positive, `Serial` is a truth value.
`AnswersInOrder` looks at the six places an answer passes as one sequence, and
is not inductive, because an answer that is given next must not be in it.
`IInv` adds that events are taken in the order of their publication, each once
(`EventsInOrder`), that an event in execution is in it once and, in a serial
runtime, alone and the last of its request (`EventsRunOnce`), and that whatever
is on its way was given by an event that has gone further since
(`AnswersWereGiven`). `Stages` ties the ends of the handlers to the connection:
a handler that cleans up has lost its client, or its reader was refused an
event. The steps are reduced to three kinds (`NextFlows`): a step leaves the
sequence as it is, takes a part out of it (`Loses`, which lemmas about
sequences show to keep the order and `MayLose` to have one of the three
reasons: the channel is full, the client has gone, or the reader closed the
connection over an event that NATS refused), or appends one answer (`Gains`).

`PythonRuntime_proofs` proves for any functions and hook subjects and any
number of commits and faults:

| theorem | states |
|---|---|
| `Types` | `Spec => []TypeOK` |
| `RefreshIsExact` | `Spec => []RefreshedRuntimeIsExact` |
| `ConsumersSurvive` | `Spec => ConsumersSurviveRefresh` |

Assumed: the bounds are natural numbers, and no subject is called as the boot.
`RefreshedRuntimeIsExact` speaks of states in which nothing is under way; `IInv`
says of all others who will see to what is not right yet. Modules and consumers
are those of the files unless a refresh is between its list and its end
(`CodeIsOwed`): so one that ends can leave a debt only if another is under way,
which then ends later, and no interleaving of their files matters. The files
themselves are put right only by a refresh that runs alone. `RunsAlone` says that
a refresh which did not begin beside another stays alone until the next begins,
and `FilesAreRight` what it has brought about at each of its steps: which files of
the working tree, then which copies are those of its commit, a copy that is read
and not yet written included. What the clone's index may have lost to an earlier
overlap or failed checkout (`stray`) is excused throughout, because no later
checkout removes it. `ConsumersSurvive` follows from both, and both need that the
watchers start after the boot (`BootAlone`); `HooksAreOwed` bounds the hooks.

`PortalFunctions_proofs` proves for any requests, names and languages and any
number of pushes by others and faults:

| theorem | states |
|---|---|
| `Types` | `Spec => []TypeOK` |
| `AcknowledgedStays` | `Spec => []AcknowledgedIsKept` |
| `SavedArePublished` | `Spec => SavedIsPublished` |
| `DeletedAreGone` | `Spec => DeletedIsGone` |
| `RefusedDeletesPutBack` | `Spec => FailedDeleteKeepsRow` |

Assumed: the bounds are natural numbers, and whatever names something (a
request, a pushed content, a row, "none") names nothing else. None of the four
is inductive. `CreateProgresses` follows a create through the stores: its path has
code in the worktree, then in the index and HEAD's commit, then, if the push sent
it, in the remote, and from the acknowledgement on also a row, whatever other
requests pull, commit and push, and whoever pushes besides. `OldIsGone` does the
same for what a request replaces or removes: from its commit on, the worktree, the
index and HEAD do not have the old content, and neither has the remote unless HEAD
is ahead of it; `SentIsGone` adds that after a push which sent what there was the
remote has not got it either. That content never comes back, because what nobody has
written yet is nowhere (`ContentIsNew`), because what HEAD has not got of the
remote, unless it is ahead, was pushed by others after what any request replaces
(`BehindIsPushed`), so a pull can only bring something newer, and because an index
that a stopped pull left behind is there only as long as what stopped it
(`StaleIsUnstaged`), so no later pull goes through on top of it. The three theorems
about the remote except pushes that sent nothing (`unsent`), and only these: the
run `portal_unsent` shows what those do.
`StepsFollowOp` says which requests may be at which step; `Moved`, `Keeps` and
`Reaches` say once for all actions what a step may change of a request and by
which steps it gets to each stage.

`ProjectAccess_proofs` proves for any requests, users, roles and invite codes
and any number of faults:

| theorem | states |
|---|---|
| `Types` | `Spec => []TypeOK` |
| `OneIsAdmitted` | `Spec => []InviteAdmitsOne` |
| `ProjectsAreWhole` | `Spec => []ProjectIsWhole` |
| `JoinedAreMembers` | `Spec => []JoinedIsMember` |

Assumed: "none" names no user, code, role, operation or answer, there are the
roles that the code names, and the faults are a natural number.
`InviteAdmitsOne` and `JoinedIsMember` rest on `InviteIsLocked`: who is past
reading an invite has its row alone, the invite is unused until that
transaction commits and used ever after, so nobody gets it twice.
`MembersAreKept` adds that who need not be added is a member, or was until a
revocation. `ProjectIsWhole` rests on `HostFollows`: what a creation has done
at the code host is there at each later step, because nothing in the code takes
it away. `CodesAreNew` keeps a new invite from taking another's code while both
are being made.

Only model-checked: liveness (`ActiveIsServed`, `LapsedIsReaped`,
`StreamHandlerEnds`, `CallbackNeverBlocks`, `HookIsApplied`, `RuntimeComesUp`,
`RequestIsAnswered`, `EventsGoOn`, `RuntimeFollowsRepo`, `CreateCanBeRepeated`),
which is out of reach of the prover because it cannot reason about `ENABLED`,
and so about fairness. The violated properties have counterexamples instead of
proofs.

## 6. What the code does that no property claims

These are modelled, and seen in the behaviours of the runs. No text of the
repository promises otherwise, or they are known limits of the design, so they
are described here and not counted as findings.

- An event stream publishes its event before it subscribes to the answers
  (`ingestor/pkg/server/handler.go:207`): early answers are lost. So is an
  event that is published while its runtime still starts (`handler.go:44`).
- The ingestor publishes `exec.python`, while the Python runtime listens on
  `exec.py` (`runtimes/python/main.py:236`) and the Rust one on `exec.go`
  (`runtimes/rust/pkg/consumer.rs:9`): no event of these languages reaches its
  runtime. `ConsumerToken` has this; the run `answers` uses a language whose
  names agree.
- When NATS refuses what a websocket's client sent, as it does a message that is
  too long, the read goroutine closes the connection of a client that is still
  there (`ingestor/pkg/broker/request.go:60-65`), and answers on their way are
  lost. `NoSilentLoss` names this as one of its three reasons.
- Answers of an event stream are not flushed (`handler.go:228`): they reach the
  client when the buffer is full or the handler returns.
- A callback may send on the channel that the clean-up has just closed
  (`ingestor/pkg/broker/result.go:50`), which ends the ingestor's process.
- A websocket's handler stays until a write fails: the context of a hijacked
  connection is not cancelled (`handler.go:263`).
- The TypeScript runtime answers 404 to a request whose error has the words
  "not found" in it, whoever wrote them (`runtimes/ts/main.ts:27`), and 500 to
  others. A request that has its item waits for the iterator's clean-up
  (`main.ts:16-19`), which may throw, so that the answer is an error, or hang. A
  repository whose branch is neither `main` nor `master` is cloned at
  boot, and every refresh of it fails. Events go to every subscription, so two
  processes of one runtime, as during a rollout, would both execute them. A
  handler that never awaits keeps the event loop, and with it all else.
- A load that was awaiting its import in the TypeScript runtime stores the old
  module after a refresh (`runtimes/ts/pkg/functions.ts:186`), which is then
  served until the next one: `NewModulesAreFresh` is about modules of the current
  version. Functions are not found while their files are replaced, nor after a
  sync that failed half-way until the next hook.
- Two overlapping refreshes in the Python runtime may check out each other's
  commit, mix files of two commits in the working tree, and write the old
  content of a file after the new (`runtimes/python/main.py:81,114-115`). The
  next refresh that runs alone puts the files of its commit right, but one that
  is gone may stay, when the clone's index has lost it.
  `RefreshedRuntimeIsExact` and `RuntimeFollowsRepo` excuse both (`overlap`,
  `stray`). A watcher or consumer task that fails stays registered and is not
  started again.
- The Lua runtime throws away what it has read of a frame that is not complete
  (`runtimes/lua/pkg/state.lua:117`), without a log line, and never opens a
  closed connection again (`runtimes/lua/main.lua:34`). A `SUB` that the
  non-blocking socket refuses leaves a function without a consumer until the
  next refresh, an `UNSUB` leaves the server with a subscription that has no
  handler (`runtimes/lua/pkg/state.lua:49-78`), and a frame that is sent in
  part makes the next one unreadable to the server, which closes the
  connection. A directory that cannot be listed unsubscribes every function
  (`functions.lua:103-108`). Like the TypeScript runtime it loses a hook that
  comes while it boots. `missed` records the hooks lost in these ways.
- The cleanup job deletes the deployment of a function that was activated
  again after its patch (`operator/cmd/cleanup.go:99`); `OnlyCleanupStrands`
  says that nothing else does, and `ActiveIsServed` that the lease ends it.
- A deployment that the informer has not seen yet is taken for absent and not
  deleted (`operator/internal/controller/function_controller.go:66`).
- The cleanup job lists the namespace of the release
  (`chart/templates/cleanup-cron.yaml`, `operator/cmd/cleanup.go:54`), while the
  portal and the ingestor use `default` (`ingestor/pkg/server/server.go:55`). The
  model has one namespace, as an installation in `default`; in any other nothing
  is reaped.
- The portal's project middleware answers that the repository cannot be had
  and does not abort (`portal/pkg/server/middleware/project.go:40`). The delete
  handler then drops the row and panics for want of the repository; nothing
  puts the row back. `FailedDeleteKeepsRow` is about deletes that got it.
- A delete that is undone gives the row a new id and no endpoint until the next
  sync; the sync gives any function whose GET endpoint was changed to another
  method a second, GET one.
- When somebody else has pushed since the pull, a push of the portal fails and
  leaves its commit behind: the branches have diverged, and every request of
  the project fails until the portal restarts
  (`portal/internal/project/repo/plumbing.go:71,84`). Once HEAD is detached, the
  portal's branch stays where it is, so after another push from outside every push
  of the portal is refused, also until it restarts.
- A pull moves HEAD before it finds that another request's write is not staged
  yet, and then stops (`plumbing.go:84`): index and files are those of the old
  commit, and the next commit, made from that index, silently takes back what
  others had pushed. A pull that goes through may lose files that git does not
  know yet; the request that wrote one then answers with an error or, if others
  pushed a file of that path, commits theirs. None of this brings back what a
  request replaced, which is what `SavedIsPublished` and `DeletedIsGone` are
  about; of a new file, the former excuses a concurrent deletion.
- Updates of `is_async` and `path` match no row: the id they pass is not marked
  as valid (`portal/pkg/handlers/function.go:339,377`).

## 7. What is not modelled

- The synchronous proxy of the ingestor: one HTTP request passed on, with
  GetStatus (which is modelled) before it. `Reply` of the broker is called by
  nobody.
- In the Lua runtime, `PING` frames (a cut one is answered by the server's next)
  and payloads that look like frames, which only matter after a cut.
- Runtimes that execute events concurrently (Go): `EventDelivery` has them
  (`Serial = FALSE`), but no run does.
- Passkey login and sessions: the protocol is the WebAuthn library's, and what
  the portal adds is the insertion, lookup and deletion of single rows.
- The progress of builds, pages, templates and runtime assets: reads.
- Builds, chart, migrations: declarative; the constraints of the tables and the
  schedule of the cleanup job are part of the modules that depend on them.
- In the TypeScript runtime, how requests, payloads and items are encoded, and
  the statuses of answers.
- In the portal, what happens inside a git operation when two run at once on one
  in-memory clone, and two first requests of a project that each make a clone,
  because the map of clones has no lock
  (`portal/internal/project/repo/spec.go:30-67`).
- In the Python runtime, a copy of which only a part is written, and the replay
  of old events by the new ephemeral consumers after a restart: it consumes
  `exec.py`, and the ingestor publishes `exec.python`, so there are none to
  replay.
- What functions themselves do, anywhere, beyond returning, yielding, throwing
  and hanging.

## 8. Plan

Done, in this order: the operator and its lease; event delivery; the
TypeScript runtime; the Python runtime; the portal's functions; its projects
and members; the Lua runtime; the TypeScript runtime's boot, requests and
events; proofs of every safety and action property that a passing run checks.

Next:

1. `Platform`: the operator's lease, one function's events and the hook of a
   push composed, to state what a client sees end to end: an event that is
   submitted after an activation is executed or lost only while the runtime
   starts.
2. An abstract specification of delivery (a lossy queue per event that keeps
   order), with `EventDelivery` shown to implement it (its proof has the three
   kinds of step already); and one of a code cache
   that both `TsRuntime` and `PythonRuntime` implement.
