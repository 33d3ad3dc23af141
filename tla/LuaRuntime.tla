------------------------------ MODULE LuaRuntime ------------------------------
(***************************************************************************)
(* The Lua runtime of a project: one thread, one loop, and a NATS client   *)
(* of its own that reads a non-blocking socket.  What a poll finds is      *)
(* handled to the end before the next one, a hook with all its git         *)
(* commands, so nothing sees the runtime's directory half copied.  But a   *)
(* frame of which only a part has arrived is lost, one that is sent may be *)
(* refused or cut short where the socket would block, and a connection     *)
(* that is closed is never opened again.                                   *)
(*                                                                         *)
(* A commit is a number, the code of a function the number of the commit   *)
(* that last changed it, or 0 if there is none.                            *)
(***************************************************************************)
EXTENDS Naturals, Sequences

CONSTANTS
    Functions,   \* names of functions
    Hook,        \* the subject of hooks, beside those of the functions
    MaxCommits,  \* commits to the repository
    MaxEvents,   \* events that the ingestor publishes
    MaxFaults    \* failed commands, refused and cut frames, lost connections, kills

ASSUME HookAssumption == Hook \notin Functions
ASSUME BoundsAssumption == MaxCommits \in Nat /\ MaxEvents \in Nat /\ MaxFaults \in Nat

VARIABLES
    trees,     \* the code of every function at each commit
    commits,   \* the number of commits
    owed,      \* hook calls that the repository's workflow has yet to make
    events,    \* events published so far
    step,      \* off, booted (code and consumers are there) or loop
    clone,     \* the commit that the local clone has checked out
    files,     \* the code in the runtime's directory
    sid,       \* the next subscription id
    subs,      \* the subscriptions the client has handlers for
    consumers, \* the subscription id of each function, or 0
    conn,      \* open; garbled once a frame of ours was cut; or closed
    served,    \* the subscriptions the server knows
    socket,    \* frames the client has yet to read
    leaked,    \* subscriptions the client has dropped, their UNSUB refused (history)
    unheard,   \* functions the last reconcile could not subscribe (history)
    announced, \* the commit of the last hook the server sent us (history)
    missed,    \* a hook since the last fetch was lost or failed (history)
    faults     \* faults that may still happen

repoVars == <<trees, commits, owed>>
codeVars == <<clone, files>>
clientVars == <<sid, subs, consumers>>
serverVars == <<conn, served>>
subVars == <<clientVars, serverVars, leaked, unheard>>
historyVars == <<announced, missed>>
vars == <<repoVars, events, step, codeVars, subVars, socket, historyVars, faults>>

Codes == 0..MaxCommits
NoCode == [f \in Functions |-> 0]

(* A subscription is a name and the id it got.  Subscriptions made in one   *)
(* go share the number, which is all the same: they differ in the name.     *)
Subscriptions == (Functions \cup {Hook}) \X (1..(sid - 1))

(* What the server sends has the subscriptions it is for, none if it is the *)
(* rest of a frame that was cut, and the commit announced when it was sent. *)
(* To several subscriptions of one name the server sends a frame each, one  *)
(* after the other; at most one of them has a handler, and here they are    *)
(* one.                                                                     *)
Frames == [for : SUBSET Subscriptions, due : 0..commits]
Noise == [for |-> {}, due |-> 0]

TypeOK ==
    /\ commits \in 0..MaxCommits
    /\ trees \in [0..commits -> [Functions -> Codes]]
    /\ owed \in 0..commits
    /\ events \in 0..MaxEvents
    /\ step \in {"off", "booted", "loop"}
    /\ clone \in 0..commits
    /\ files \in [Functions -> Codes]
    /\ sid \in Nat \ {0}
    /\ subs \subseteq Subscriptions
    /\ served \subseteq Subscriptions
    /\ consumers \in [Functions -> 0..(sid - 1)]
    /\ conn \in {"open", "garbled", "closed"}
    /\ socket \in Seq(Frames)
    /\ leaked \subseteq Subscriptions
    /\ unheard \subseteq Functions
    /\ announced \in 0..commits
    /\ missed \in BOOLEAN
    /\ faults \in 0..MaxFaults

Init ==
    /\ commits = 0
    /\ trees = [n \in {0} |-> NoCode]
    /\ owed = 0
    /\ events = 0
    /\ step = "off"
    /\ clone = 0
    /\ files = NoCode
    /\ sid = 1
    /\ subs = {}
    /\ consumers = NoCode
    /\ conn = "closed"
    /\ served = {}
    /\ socket = <<>>
    /\ leaked = {}
    /\ unheard = {}
    /\ announced = 0
    /\ missed = FALSE
    /\ faults = MaxFaults

------------------------------------------------------------------------------
(* Outside the runtime: the repository, the workflow that calls the         *)
(* ingestor's hook endpoint, the ingestor's events, and the server.         *)

Push(f) ==
    /\ commits < MaxCommits
    /\ commits' = commits + 1
    /\ \E code \in {commits + 1} \cup (IF trees[commits][f] = 0 THEN {} ELSE {0}) :
          trees' = [n \in 0..commits + 1 |->
                       IF n <= commits THEN trees[n]
                       ELSE [trees[commits] EXCEPT ![f] = code]]
    /\ owed' = owed + 1
    /\ UNCHANGED <<events, step, codeVars, subVars, socket, historyVars, faults>>

Listeners(name) == {s \in served : s[1] = name}

RuntimeHook ==
    /\ owed > 0
    /\ owed' = owed - 1
    /\ IF Listeners(Hook) = {}
       THEN missed' = TRUE /\ UNCHANGED <<socket, announced>>
       ELSE /\ announced' = commits
            /\ socket' = Append(socket, [for |-> Listeners(Hook), due |-> commits])
            /\ UNCHANGED missed
    /\ UNCHANGED <<trees, commits, events, step, codeVars, subVars, faults>>

(* An event that somebody listens for. *)
PublishEvent(f) ==
    /\ events < MaxEvents
    /\ events' = events + 1
    /\ Listeners(f) # {}
    /\ socket' = Append(socket, [for |-> Listeners(f), due |-> announced])
    /\ UNCHANGED <<repoVars, step, codeVars, subVars, historyVars, faults>>

(* The server goes away, or closes a connection whose frames it cannot      *)
(* parse.  What it has sent can still be read.                              *)
Closed ==
    /\ \/ conn = "garbled" /\ UNCHANGED faults
       \/ conn = "open" /\ faults > 0 /\ faults' = faults - 1
    /\ conn' = "closed"
    /\ served' = {}
    /\ leaked' = {}
    /\ UNCHANGED <<repoVars, events, step, codeVars, clientVars, unheard, socket, historyVars>>

------------------------------------------------------------------------------
(* Frames are sent in a row on the connection c.  The socket does not block: *)
(* one that would is refused, or sent in part; then the next completes it,   *)
(* and the server makes nothing of what follows.  The client is told of the  *)
(* failed ones; of those lost the server does not know.                      *)
Send(frames, c, lost, failed, fault) ==
    /\ \/ c = "open" /\ conn' = "open" /\ failed = lost /\ fault = IF lost = {} THEN 0 ELSE 1
       \/ c = "open" /\ conn' = "garbled" /\ failed # {} /\ fault = 1
       \/ c = "garbled" /\ conn' = c /\ lost = frames /\ fault = IF failed = {} THEN 0 ELSE 1
       \/ c = "closed" /\ conn' = c /\ lost = frames /\ fault = 0

(* Variant: the id is not advanced. *)
ResubscribeSameId(opened, closed, c, fault) ==
    \E lost \in SUBSET (opened \cup closed) : \E failed \in SUBSET lost :
       /\ Send(opened \cup closed, c, lost, failed, fault)
       /\ sid' = sid
       /\ subs' = (subs \ closed) \cup (opened \ failed)
       /\ served' = (served \ (closed \ lost)) \cup (opened \ lost)
       /\ leaked' = leaked \cup (closed \cap lost \cap served)

(* subscribe takes an id and drops the handler if SUB is not sent; after    *)
(* unsubscribe the handler is gone, whether UNSUB was sent or not.          *)
Resubscribe(opened, closed, c, fault) ==
    \E lost \in SUBSET (opened \cup closed) : \E failed \in SUBSET lost :
       /\ Send(opened \cup closed, c, lost, failed, fault)
       /\ sid' = IF opened = {} THEN sid ELSE sid + 1
       /\ subs' = (subs \ closed) \cup (opened \ failed)
       /\ served' = (served \ (closed \ lost)) \cup (opened \ lost)
       /\ leaked' = leaked \cup (closed \cap lost \cap served)

(* list_functions; a find that cannot be started leaves an empty list. *)
Listed(fault) == {f \in Functions : files'[f] # 0 /\ fault = 0}

(* Variant: the id of a consumer that is unsubscribed is kept. *)
ReconcileForgetful(c, listing, sending) ==
    LET gone == {f \in Functions \ Listed(listing) : consumers[f] # 0}
        missing == {f \in Listed(listing) : consumers[f] = 0}
    IN  /\ Resubscribe(missing \X {sid}, {<<f, consumers[f]>> : f \in gone}, c, sending)
        /\ consumers' = [f \in Functions |-> IF <<f, sid>> \in subs' THEN sid ELSE consumers[f]]
        /\ unheard' = {f \in Functions : files'[f] # 0 /\ consumers'[f] = 0}

(* reconcile_consumers: those of functions that are not listed are           *)
(* unsubscribed, missing ones are subscribed.                                *)
Reconcile(c, listing, sending) ==
    LET gone == {f \in Functions \ Listed(listing) : consumers[f] # 0}
        missing == {f \in Listed(listing) : consumers[f] = 0}
    IN  /\ Resubscribe(missing \X {sid}, {<<f, consumers[f]>> : f \in gone}, c, sending)
        /\ consumers' = [f \in Functions |->
                            IF f \in gone THEN 0
                            ELSE IF <<f, sid>> \in subs' THEN sid ELSE consumers[f]]
        /\ unheard' = IF listing = 1 THEN Functions
                      ELSE {f \in missing : <<f, sid>> \notin subs'}

(* Variant: the directory is not cleared before the files are copied. *)
SyncOntoOld(fault) ==
    /\ fault = 0
    /\ clone' = commits
    /\ files' = [f \in Functions |-> IF trees[commits][f] = 0 THEN files[f]
                                     ELSE trees[commits][f]]
    /\ missed' = FALSE

(* Variant: a clone that exists is reset, but nothing is fetched. *)
SyncWithoutFetch(fault) ==
    /\ fault = 0
    /\ clone' = IF step = "loop" THEN clone ELSE commits
    /\ files' = trees[clone']
    /\ missed' = FALSE

(* sync_repo_and_reload, when git succeeds: clone, or fetch and reset; clear *)
(* the directory and copy.  Files that cannot be removed, copies that fail   *)
(* and a list of them that cannot be made are not reported.                  *)
Sync(fault) ==
    /\ clone' = commits
    /\ \E kept \in SUBSET Functions : \E failed \in SUBSET Functions :
          /\ fault = IF kept = {} /\ failed = {} THEN 0 ELSE 1
          /\ files' = [f \in Functions |->
                          IF f \notin failed /\ trees[commits][f] # 0 THEN trees[commits][f]
                          ELSE IF f \in kept THEN files[f] ELSE 0]
    /\ missed' = (fault = 1)

(* A refresh, with what fails in it. *)
SyncAndReconcile(c) ==
    \E copying, listing, sending \in {0, 1} :
       /\ copying + listing + sending <= faults
       /\ faults' = faults - (copying + listing + sending)
       /\ Sync(copying)
       /\ Reconcile(c, listing, sending)

(* The process connects, syncs and subscribes; if it fails it starts again. *)
Boot ==
    /\ step = "off"
    /\ step' = "booted"
    /\ SyncAndReconcile("open")
    /\ UNCHANGED <<repoVars, events, socket, announced>>

(* watch_lua_hook, last of all.  Whether it failed is not looked at. *)
Watch ==
    /\ step = "booted"
    /\ step' = "loop"
    /\ \E fault \in {0, 1} :
          /\ Resubscribe({<<Hook, sid>>}, {}, conn, fault)
          /\ fault <= faults
          /\ faults' = faults - fault
    /\ UNCHANGED <<repoVars, events, codeVars, consumers, unheard, socket, historyVars>>

------------------------------------------------------------------------------
(* poll_once, called by the loop whenever the socket has something.         *)

Polled(names) ==
    /\ step = "loop"
    /\ socket # <<>>
    /\ \E s \in Head(socket).for \cap subs : s[1] \in names

PollHook ==
    /\ Polled({Hook})
    /\ socket' = Tail(socket)
    /\ SyncAndReconcile(conn)
    /\ UNCHANGED <<repoVars, events, step, announced>>

(* git fetch or git reset fails, and the handler returns. *)
PollHookFails ==
    /\ Polled({Hook})
    /\ faults > 0
    /\ faults' = faults - 1
    /\ socket' = Tail(socket)
    /\ missed' = TRUE
    /\ UNCHANGED <<repoVars, events, step, codeVars, subVars, announced>>

(* invoke_lua loads and runs the file.  The send of the answer stops where   *)
(* the socket would block, and what is sent next completes the cut frame.    *)
PollEvent ==
    /\ Polled(Functions)
    /\ socket' = Tail(socket)
    /\ \/ UNCHANGED <<conn, faults>>
       \/ conn = "open" /\ conn' = "garbled" /\ faults > 0 /\ faults' = faults - 1
    /\ UNCHANGED <<repoVars, events, step, codeVars, clientVars, served, leaked, unheard, historyVars>>

(* Only a part of the frame has arrived.  It is thrown away and, by the loop *)
(* that takes a timeout for "nothing there", not even logged.                *)
PollPart ==
    /\ step = "loop"
    /\ socket # <<>>
    /\ Head(socket) # Noise
    /\ faults > 0
    /\ faults' = faults - 1
    /\ socket' = [socket EXCEPT ![1] = Noise]
    /\ missed' = (missed \/ Polled({Hook}))
    /\ UNCHANGED <<repoVars, events, step, codeVars, subVars, announced>>

(* Variant: a line that is not understood is left where it is. *)
PollUnheardStuck ==
    /\ step = "loop"
    /\ socket # <<>>
    /\ Head(socket) # Noise
    /\ Head(socket).for \cap subs = {}
    /\ socket' = Tail(socket)
    /\ UNCHANGED <<repoVars, events, step, codeVars, subVars, historyVars, faults>>

(* A frame of a subscription that has no handler any more, or the rest of   *)
(* one that was cut, which is no MSG: passed over.                          *)
PollUnheard ==
    /\ step = "loop"
    /\ socket # <<>>
    /\ Head(socket).for \cap subs = {}
    /\ socket' = Tail(socket)
    /\ UNCHANGED <<repoVars, events, step, codeVars, subVars, historyVars, faults>>

(* The process ends; its disk is the container's.  While the connection is   *)
(* merely closed it does not: the loop logs the error and polls again.       *)
Killed ==
    /\ step # "off"
    /\ faults > 0
    /\ faults' = faults - 1
    /\ step' = "off"
    /\ clone' = 0
    /\ files' = NoCode
    /\ sid' = 1
    /\ subs' = {}
    /\ consumers' = NoCode
    /\ conn' = "closed"
    /\ served' = {}
    /\ socket' = <<>>
    /\ leaked' = {}
    /\ unheard' = {}
    /\ announced' = 0
    /\ UNCHANGED <<repoVars, events, missed>>

------------------------------------------------------------------------------

Poll == PollHook \/ PollHookFails \/ PollEvent \/ PollPart \/ PollUnheard

Next ==
    \/ \E f \in Functions : Push(f) \/ PublishEvent(f)
    \/ RuntimeHook
    \/ Boot \/ Watch \/ Poll
    \/ Closed \/ Killed

Spec == Init /\ [][Next]_vars

(* The pod starts, the loop polls and the workflow calls the hook. *)
Fairness == WF_vars(Boot) /\ WF_vars(Watch) /\ WF_vars(Poll) /\ WF_vars(RuntimeHook)

FairSpec == Spec /\ Fairness

------------------------------------------------------------------------------
(* Across refreshes, failed commands and refused frames: a function has at   *)
(* most one handler, which is the one its consumer names, and it has a file. *)
(* While the connection is sound the server knows these subscriptions and,   *)
(* besides, only those whose UNSUB was refused; and a function whose file is *)
(* there has a consumer, unless the last reconcile could not subscribe it.   *)
ConsumersAgree ==
    /\ {s \in subs : s[1] # Hook} = {<<f, consumers[f]>> : f \in {g \in Functions : consumers[g] # 0}}
    /\ \A f \in Functions : consumers[f] # 0 => files[f] # 0
    /\ conn = "open" => served = subs \cup leaked
    /\ leaked \cap subs = {}
    /\ \A f \in Functions : files[f] # 0 => consumers[f] # 0 \/ f \in unheard

(* An event that the server sent after a hook runs the code the hook         *)
(* announced or newer code, and always code that was committed: the handler  *)
(* of the hook is done before the event is read.                             *)
EventRunsAnnouncedCode ==
    (Polled(Functions) /\ ~missed) =>
        \A s \in Head(socket).for \cap subs :
            /\ files[s[1]] # 0
            /\ \E n \in Head(socket).due..commits : files[s[1]] = trees[n][s[1]]

(* A runtime that has read everything sent to it, and missed no hook since   *)
(* it last fetched, has the code of the repository.                          *)
IdleIsCurrent ==
    (step = "loop" /\ socket = <<>> /\ owed = 0 /\ ~missed) => files = trees[commits]

(* "refresh function code from VCS using hook events": once every hook was  *)
(* sent, and none missed, the runtime comes to have the repository's code.   *)
RuntimeFollowsRepo ==
    (owed = 0 /\ step = "loop") ~>
        (files = trees[commits] \/ owed > 0 \/ missed \/ step = "off")
==============================================================================
