---------------------------- MODULE PortalFunctions ----------------------------
(***************************************************************************)
(* The portal's functions of one project.  A function is a row of the      *)
(* database, with its endpoints; a file of the project's git repository;   *)
(* and a Function resource of the operator.  The handlers change the three *)
(* one after another, with neither a transaction nor a lock around them.   *)
(*                                                                         *)
(* All requests of a project share one clone in the portal's memory: a     *)
(* worktree (files), an index and the commit of HEAD.  Commits go to HEAD; *)
(* a push sends the branch, which HEAD is on only until commits of others  *)
(* have been pulled, for these are checked out by their hash.              *)
(* A file's path follows from the function's language and name; its        *)
(* content is named by the request that wrote it, or is the number of the  *)
(* push by somebody else; the id of a row is the request that inserted it. *)
(***************************************************************************)
EXTENDS Naturals

CONSTANTS
    Names,       \* names of functions
    Languages,   \* their languages
    Requests,    \* requests to the portal
    None,        \* no content, no row, no language...
    Seed,        \* what was there before
    MaxPushes,   \* pushes by others
    MaxFaults    \* failed calls and restarts of the portal

Ids == Requests \cup {Seed}
Pushed == 1..MaxPushes
Codes == Ids \cup Pushed \cup {None}
Ops == {"create", "update", "delete", "sync"}
Row(l, i, e) == [lang |-> l, id |-> i, endpoints |-> e]

ASSUME BoundsAssumption == MaxPushes \in Nat /\ MaxFaults \in Nat
(* Whatever names something names nothing else. *)
ASSUME TokensAssumption ==
    /\ None \notin Ids \cup Pushed /\ None \notin Names \cup Languages
    /\ None \notin Ops \cup {"ok", "failed"}
    /\ \A l \in Languages, i \in Ids, e \in SUBSET {"GET", "POST"} : Row(l, i, e) # None
    /\ Seed \notin Requests /\ Ids \cap Pushed = {}

VARIABLES
    rows,      \* the row of each function, if any
    crs,       \* the language of the Function resource of each name, if any
    files,     \* the worktree
    index,     \* the tree that the next commit is made from
    head,      \* the tree of HEAD's commit
    workflow,  \* the workflow file is "staged" or was "changed" since
    branch,    \* "head": HEAD is on the branch; else HEAD is detached, and the
               \* branch is where the remote is ("level") or was ("behind")
    ahead,     \* HEAD has commits that the remote has not
    remote,    \* the tree of the remote branch
    moved,     \* the remote has commits that HEAD has not
    req,       \* the requests
    unsent,    \* requests whose push has not sent what there was to send (history)
    pushes,    \* pushes by others so far
    faults     \* faults that may still happen

repoVars == <<files, index, head, workflow, branch, ahead, remote, moved>>
vars == <<rows, crs, repoVars, req, unsent, pushes, faults>>

Paths == Languages \X Names
NoFiles == [p \in Paths |-> None]
PathOf(q) == <<q.lang, q.name>>
NoRows == [n \in Names |-> None]

Ended == {"waiting", "done"}
Steps == Ended \cup {"pull", "look", "write", "drop", "remove", "commit", "push", "register",
                     "rollback", "pullForSync", "list", "walk", "pullForWorkflow", "workflow", "stage"}

Waiting == [op |-> None, step |-> "waiting", name |-> None, lang |-> None, id |-> None,
            repo |-> TRUE, was |-> None, known |-> NoRows, todo |-> {}, answer |-> None]

RowTables ==
    [Names -> {None} \cup [lang: Languages, id: Ids, endpoints: SUBSET {"GET", "POST"}]]

TypeOK ==
    /\ rows \in RowTables
    /\ crs \in [Names -> Languages \cup {None}]
    /\ files \in [Paths -> Codes]
    /\ index \in [Paths -> Codes]
    /\ head \in [Paths -> Codes]
    /\ workflow \in {"staged", "changed"}
    /\ branch \in {"head", "level", "behind"}
    /\ ahead \in BOOLEAN
    /\ remote \in [Paths -> Codes]
    /\ moved \in BOOLEAN
    /\ req \in [Requests -> [op: Ops \cup {None}, step: Steps,
                             name: Names \cup {None}, lang: Languages \cup {None},
                             id: Ids \cup {None}, repo: BOOLEAN, was: Codes,
                             known: RowTables, todo: SUBSET Paths,
                             answer: {None, "ok", "failed"}]]
    /\ \A r \in Requests :
          req[r].step \in {"write", "drop", "remove", "commit", "push", "register", "rollback"}
             /\ req[r].op # "sync" => PathOf(req[r]) \in Paths
    /\ unsent \subseteq Requests
    /\ pushes \in 0..MaxPushes
    /\ faults \in 0..MaxFaults

(* At first there is nothing, or one function that was created before; and  *)
(* commits of others have been pulled before, or have not.                  *)
Init ==
    /\ \/ rows = NoRows /\ crs = NoRows /\ files = NoFiles
       \/ \E l \in Languages, n \in Names :
             /\ rows = [NoRows EXCEPT ![n] = Row(l, Seed, {"GET"})]
             /\ crs = [NoRows EXCEPT ![n] = l]
             /\ files = [NoFiles EXCEPT ![<<l, n>>] = Seed]
    /\ index = files
    /\ head = files
    /\ workflow = "staged"
    /\ branch \in {"head", "level"}
    /\ ahead = FALSE
    /\ remote = files
    /\ moved = FALSE
    /\ req = [r \in Requests |-> Waiting]
    /\ unsent = {}
    /\ pushes = 0
    /\ faults = MaxFaults

------------------------------------------------------------------------------
Goto(r, step) == req' = [req EXCEPT ![r].step = step]
Answer(r, a) == req' = [req EXCEPT ![r].step = "done", ![r].answer = a]

(* One of the faults that may still happen. *)
Fault == faults > 0 /\ faults' = faults - 1

Begin(r) ==
    /\ req[r].step = "waiting"
    /\ \/ \E n \in Names, l \in Languages :
             req' = [req EXCEPT ![r] = [Waiting EXCEPT
                        !.op = "create", !.step = "pull", !.name = n, !.lang = l]]
       \/ \E n \in Names, op \in {"update", "delete"} :
             /\ rows[n] # None
             /\ req' = [req EXCEPT ![r] = [Waiting EXCEPT
                           !.op = op, !.step = "pull", !.name = n, !.id = rows[n].id]]
       \/ req' = [req EXCEPT ![r] = [Waiting EXCEPT !.op = "sync", !.step = "pull"]]
    /\ UNCHANGED <<rows, crs, repoVars, unsent, pushes, faults>>

AfterPull(step) ==
    CASE step = "pull" -> "look"
      [] step = "pullForSync" -> "list"
      [] step = "pullForWorkflow" -> "workflow"

(* Some file that git knows differs from what is staged, or is gone. *)
Unstaged ==
    workflow = "changed" \/ \E p \in Paths : index[p] # None /\ files[p] # index[p]

(* NewGitRepo.  New commits are fast-forwarded to and checked out by force  *)
(* and by hash; files that git does not know may be lost.  Where there are  *)
(* none nothing happens.                                                    *)
PullBranch ==
    /\ ~(ahead /\ moved)
    /\ IF moved
       THEN /\ ~Unstaged
            /\ head' = remote /\ index' = remote
            /\ \E kept \in SUBSET {p \in Paths : index[p] = None /\ remote[p] = None} :
                  files' = [p \in Paths |-> IF p \in kept THEN files[p] ELSE remote[p]]
            /\ branch' = IF branch = "head" THEN "level" ELSE branch
            /\ moved' = FALSE
       ELSE UNCHANGED <<files, index, head, branch, moved>>
    /\ UNCHANGED <<workflow, ahead, remote, unsent>>

(* A branch that has diverged cannot be pulled.  And HEAD is moved before   *)
(* the pull finds that somebody's write is not staged, and stops: the index *)
(* and the files stay those of the old commit.                              *)
PullStops ==
    /\ moved
    /\ \/ ahead /\ UNCHANGED <<head, moved>>
       \/ /\ ~ahead
          /\ Unstaged
          /\ head' = remote
          /\ moved' = FALSE
    /\ UNCHANGED <<files, index, workflow, branch, ahead, remote, unsent>>

(* The middleware pulls before every handler; a sync pulls twice more. *)
Pull(r) ==
    /\ req[r].step \in {"pull", "pullForSync", "pullForWorkflow"}
    /\ PullBranch
    /\ Goto(r, AfterPull(req[r].step))
    /\ UNCHANGED <<rows, crs, pushes, faults>>

(* The middleware answers with an error and does not stop the handler.  All *)
(* handlers but the one for deletions end before they change anything.      *)
PullFails(r) ==
    /\ req[r].step \in {"pull", "pullForSync", "pullForWorkflow"}
    /\ \/ PullStops /\ UNCHANGED faults
       \/ Fault /\ UNCHANGED <<repoVars, unsent>>
    /\ IF req[r].op = "delete"
       THEN req' = [req EXCEPT ![r].step = "look", ![r].repo = FALSE]
       ELSE Answer(r, "failed")
    /\ UNCHANGED <<rows, crs, pushes>>

(* Any other request of the project, such as to list its functions, pulls.  *)
PullForOther ==
    /\ moved
    /\ PullBranch \/ PullStops
    /\ UNCHANGED <<rows, crs, req, pushes, faults>>

------------------------------------------------------------------------------
(* CreateFunction, UpdateFunction and DeleteFunction.  The updates of       *)
(* is_async and path match no row, for the id they pass is not marked as    *)
(* valid; so an update is one of the code.                                  *)

(* The row that the request is about is still there. *)
Found(q) == rows[q.name] # None /\ rows[q.name].id = q.id

(* Variant: an update goes on although the function was not found. *)
LookUnchecked(r) ==
    LET q == req[r] IN
    /\ q.step = "look"
    /\ CASE q.op = "create" /\ rows[q.name] # None -> Answer(r, "failed")
         [] q.op = "create" /\ rows[q.name] = None -> Goto(r, "write")
         [] q.op \in {"update", "delete"} /\ ~Found(q) -> Goto(r, "write")
         [] q.op \in {"update", "delete"} /\ Found(q) ->
               req' = [req EXCEPT ![r].step = IF q.op = "update" THEN "write" ELSE "drop",
                                  ![r].lang = rows[q.name].lang]
         [] q.op = "sync" -> Goto(r, "pullForSync")
    /\ UNCHANGED <<rows, crs, repoVars, unsent, pushes, faults>>

(* A name that is taken is refused with 409, an id that is gone with 404. *)
Look(r) ==
    LET q == req[r] IN
    /\ q.step = "look"
    /\ CASE q.op = "create" /\ rows[q.name] # None -> Answer(r, "failed")
         [] q.op = "create" /\ rows[q.name] = None -> Goto(r, "write")
         [] q.op \in {"update", "delete"} /\ ~Found(q) -> Answer(r, "failed")
         [] q.op \in {"update", "delete"} /\ Found(q) ->
               req' = [req EXCEPT ![r].step = IF q.op = "update" THEN "write" ELSE "drop",
                                  ![r].lang = rows[q.name].lang]
         [] q.op = "sync" -> Goto(r, "pullForSync")
    /\ UNCHANGED <<rows, crs, repoVars, unsent, pushes, faults>>

Write(r) ==
    LET p == PathOf(req[r]) IN
    /\ req[r].step = "write"
    /\ files' = [files EXCEPT ![p] = r]
    /\ req' = [req EXCEPT ![r].step = "commit", ![r].was = head[p]]
    /\ UNCHANGED <<rows, crs, index, head, workflow, branch, ahead, remote, moved, unsent, pushes,
                   faults>>

(* The deletion of a row takes its endpoints with it.  Then the handler     *)
(* wants the repository, and panics if the middleware has not got it.       *)
Drop(r) ==
    LET q == req[r] IN
    /\ q.step = "drop"
    /\ rows' = IF Found(q) THEN [rows EXCEPT ![q.name] = None] ELSE rows
    /\ IF q.repo THEN Goto(r, "remove") ELSE Answer(r, "failed")
    /\ UNCHANGED <<crs, repoVars, unsent, pushes, faults>>

Remove(r) ==
    LET p == PathOf(req[r]) IN
    /\ req[r].step = "remove"
    /\ IF files[p] = None
       THEN Goto(r, "rollback") /\ UNCHANGED files
       ELSE /\ files' = [files EXCEPT ![p] = None]
            /\ req' = [req EXCEPT ![r].step = "commit", ![r].was = head[p]]
    /\ UNCHANGED <<rows, crs, index, head, workflow, branch, ahead, remote, moved, unsent, pushes,
                   faults>>

(* A delete that fails half-way tries to insert its row again. *)
GiveUp(r) ==
    IF req[r].op = "delete" THEN Goto(r, "rollback") ELSE Answer(r, "failed")

(* Variant: a file that is gone is not staged. *)
CommitKeepsDeleted(r) ==
    LET p == PathOf(req[r])
        tree == IF files[p] = None THEN index ELSE [index EXCEPT ![p] = files[p]] IN
    /\ req[r].step = "commit"
    /\ Goto(r, "push")
    /\ index' = tree /\ head' = tree
    /\ ahead' = (ahead \/ tree # head)
    /\ UNCHANGED <<rows, crs, files, workflow, branch, remote, moved, unsent, pushes, faults>>

(* The state of the file is staged, be it there or gone, and the index is   *)
(* committed, with whatever else it holds.  To stage a deletion of what git *)
(* does not know is an error; an empty commit is one for a delete only.     *)
Commit(r) ==
    LET p == PathOf(req[r])
        tree == [index EXCEPT ![p] = files[p]] IN
    /\ req[r].step = "commit"
    /\ IF files[p] = None /\ index[p] = None
       THEN GiveUp(r) /\ UNCHANGED <<index, head, ahead>>
       ELSE /\ IF tree = head /\ req[r].op = "delete" THEN GiveUp(r) ELSE Goto(r, "push")
            /\ index' = tree /\ head' = tree
            /\ ahead' = (ahead \/ tree # head)
    /\ UNCHANGED <<rows, crs, files, workflow, branch, remote, moved, unsent, pushes, faults>>

(* A sync writes the workflow file, which may differ from the one there...  *)
WriteWorkflow(r) ==
    /\ req[r].step = "workflow"
    /\ workflow' \in {workflow, "changed"}
    /\ Goto(r, "stage")
    /\ UNCHANGED <<rows, crs, files, index, head, branch, ahead, remote, moved, unsent, pushes,
                   faults>>

(* ... and commits it, be the commit empty or not. *)
CommitWorkflow(r) ==
    /\ req[r].step = "stage"
    /\ Goto(r, "push")
    /\ workflow' = "staged"
    /\ head' = index
    /\ ahead' = (ahead \/ workflow = "changed" \/ index # head)
    /\ UNCHANGED <<rows, crs, files, index, branch, remote, moved, unsent, pushes, faults>>

Published(r) ==
    IF req[r].op = "create" THEN Goto(r, "register") ELSE Answer(r, "ok")

(* The remote refuses a branch that has not got all of its commits. *)
Refused == branch = "behind" \/ (branch = "head" /\ moved)

(* The branch is pushed, whoever committed to it.  What HEAD has when it is *)
(* not on the branch is not sent, and having nothing to send is no error.   *)
SendBranch(r) ==
    IF branch = "head"
    THEN remote' = head /\ ahead' = FALSE /\ UNCHANGED unsent
    ELSE unsent' = (IF ahead THEN unsent \cup {r} ELSE unsent) /\ UNCHANGED <<remote, ahead>>

(* Variant: an error of the push is not looked at. *)
PushUnchecked(r) ==
    /\ req[r].step = "push"
    /\ IF Refused
       THEN UNCHANGED <<remote, ahead, unsent>>
       ELSE SendBranch(r)
    /\ Published(r)
    /\ UNCHANGED <<rows, crs, files, index, head, workflow, branch, moved, pushes, faults>>

(* The last of the git operations of a create, an update, a delete, a sync. *)
Push(r) ==
    /\ req[r].step = "push"
    /\ IF Refused
       THEN GiveUp(r) /\ UNCHANGED <<remote, ahead, unsent>>
       ELSE Published(r) /\ SendBranch(r)
    /\ UNCHANGED <<rows, crs, files, index, head, workflow, branch, moved, pushes, faults>>

(* CreateFunctionIfNotExists: an existing resource is left as it is. *)
CreateFunctionCRD(n, l) == crs' = IF crs[n] = None THEN [crs EXCEPT ![n] = l] ELSE crs

(* Variant: the violated constraint is not looked at. *)
RegisterUnchecked(r) ==
    LET q == req[r] IN
    /\ q.step = "register"
    /\ rows' = IF rows[q.name] = None
               THEN [rows EXCEPT ![q.name] = Row(q.lang, r, {"GET"})] ELSE rows
    /\ CreateFunctionCRD(q.name, q.lang)
    /\ Answer(r, "ok")
    /\ UNCHANGED <<repoVars, unsent, pushes, faults>>

(* The row, its endpoint and the resource.  Names are unique. *)
Register(r) ==
    LET q == req[r] IN
    /\ q.step = "register"
    /\ IF rows[q.name] = None
       THEN /\ rows' = [rows EXCEPT ![q.name] = Row(q.lang, r, {"GET"})]
            /\ CreateFunctionCRD(q.name, q.lang)
            /\ Answer(r, "ok")
       ELSE Answer(r, "failed") /\ UNCHANGED <<rows, crs>>
    /\ UNCHANGED <<repoVars, unsent, pushes, faults>>

(* Only the failure of the row is one of the request. *)
RegisterPartly(r) ==
    LET q == req[r] IN
    /\ q.step = "register"
    /\ rows[q.name] = None
    /\ Fault
    /\ \/ Answer(r, "failed") /\ UNCHANGED <<rows, crs>>
       \/ /\ rows' = [rows EXCEPT ![q.name] = Row(q.lang, r, {})]
          /\ CreateFunctionCRD(q.name, q.lang)
          /\ Answer(r, "ok")
       \/ /\ rows' = [rows EXCEPT ![q.name] = Row(q.lang, r, {"GET"})]
          /\ Answer(r, "ok")
          /\ UNCHANGED crs
    /\ UNCHANGED <<repoVars, unsent, pushes>>

(* Variant: the row is not inserted again. *)
RollbackSkipped(r) ==
    /\ req[r].step = "rollback"
    /\ Answer(r, "failed")
    /\ UNCHANGED <<rows, crs, repoVars, unsent, pushes, faults>>

(* The row gets a new id and no endpoint. *)
Rollback(r) ==
    LET q == req[r] IN
    /\ q.step = "rollback"
    /\ rows' = IF rows[q.name] = None
               THEN [rows EXCEPT ![q.name] = Row(q.lang, r, {})] ELSE rows
    /\ Answer(r, "failed")
    /\ UNCHANGED <<crs, repoVars, unsent, pushes, faults>>

(* A call of the database, of git or of the file system fails. *)
StepFails(r) ==
    /\ Fault
    /\ \/ req[r].step \in {"look", "list", "drop", "write"} /\ Answer(r, "failed")
       \/ req[r].step \in {"commit", "push"} /\ GiveUp(r)
       \/ req[r].step \in {"rollback", "workflow", "stage"} /\ Answer(r, "failed")
    /\ UNCHANGED <<rows, crs, repoVars, unsent, pushes>>

------------------------------------------------------------------------------
(* SyncProject *)

ListForSync(r) ==
    /\ req[r].step = "list"
    /\ req' = [req EXCEPT ![r].step = "walk", ![r].known = rows,
                          ![r].todo = {p \in Paths : files[p] # None}]
    /\ UNCHANGED <<rows, crs, repoVars, unsent, pushes, faults>>

(* A file without a row gets one, unless the name is taken; a row that had  *)
(* no GET endpoint gets one, if it is still there.                          *)
SyncPath(r, p) ==
    LET l == p[1]
        n == p[2]
        k == req[r].known[n] IN
    /\ req[r].step = "walk"
    /\ p \in req[r].todo
    /\ req' = [req EXCEPT ![r].todo = @ \ {p}]
    /\ \/ /\ k # None /\ k.lang = l
          /\ rows' = IF "GET" \notin k.endpoints /\ rows[n] # None /\ rows[n].id = k.id
                     THEN [rows EXCEPT ![n].endpoints = @ \cup {"GET"}] ELSE rows
          /\ UNCHANGED crs
       \/ /\ ~(k # None /\ k.lang = l)
          /\ IF rows[n] = None
             THEN rows' = [rows EXCEPT ![n] = Row(l, r, {"GET"})] /\ CreateFunctionCRD(n, l)
             ELSE UNCHANGED <<rows, crs>>
    /\ UNCHANGED <<repoVars, unsent, pushes, faults>>

WalkEnds(r) ==
    /\ req[r].step = "walk"
    /\ req[r].todo = {}
    /\ Goto(r, "pullForWorkflow")
    /\ UNCHANGED <<rows, crs, repoVars, unsent, pushes, faults>>

------------------------------------------------------------------------------
(* UpdateEndpoint: a single statement, refused if the method is taken. *)
UpdateEndpoint(n) ==
    /\ rows[n] # None
    /\ \E m \in rows[n].endpoints : \E new \in {"GET", "POST"} \ rows[n].endpoints :
          rows' = [rows EXCEPT ![n].endpoints = (@ \ {m}) \cup {new}]
    /\ UNCHANGED <<crs, repoVars, req, unsent, pushes, faults>>

(* Somebody else edits a function in the repository. *)
ExternalPush(p) ==
    /\ pushes < MaxPushes
    /\ pushes' = pushes + 1
    /\ remote' = [remote EXCEPT ![p] = pushes + 1]
    /\ moved' = TRUE
    /\ branch' = IF branch = "level" THEN "behind" ELSE branch
    /\ UNCHANGED <<rows, crs, files, index, head, workflow, ahead, req, unsent, faults>>

(* The portal starts again: requests are cut off, and the repository is     *)
(* cloned anew.                                                             *)
Restart ==
    /\ Fault
    /\ files' = remote /\ index' = remote /\ head' = remote
    /\ workflow' = "staged"
    /\ branch' = "head"
    /\ ahead' = FALSE
    /\ moved' = FALSE
    /\ req' = [r \in Requests |->
                  IF req[r].step \in Ended THEN req[r] ELSE [req[r] EXCEPT !.step = "done"]]
    /\ UNCHANGED <<rows, crs, remote, unsent, pushes>>

------------------------------------------------------------------------------

Next ==
    \/ \E r \in Requests :
          \/ Begin(r)
          \/ Pull(r) \/ PullFails(r)
          \/ Look(r) \/ Write(r) \/ Drop(r) \/ Remove(r)
          \/ Commit(r) \/ Push(r)
          \/ WriteWorkflow(r) \/ CommitWorkflow(r)
          \/ Register(r) \/ RegisterPartly(r)
          \/ Rollback(r) \/ StepFails(r)
          \/ ListForSync(r) \/ WalkEnds(r)
          \/ \E p \in Paths : SyncPath(r, p)
    \/ PullForOther
    \/ \E n \in Names : UpdateEndpoint(n)
    \/ \E p \in Paths : ExternalPush(p)
    \/ Restart

Spec == Init /\ [][Next]_vars

------------------------------------------------------------------------------
(* The request is answered in this step. *)
Answers(r, a) == req[r].answer = None /\ req'[r].answer = a

(* Somebody has set out to delete the function of this name. *)
Deleting(n) == \E r \in Requests : req[r].op = "delete" /\ req[r].name = n

(* A function whose creation was answered with 201 keeps its row, and its   *)
(* code, if the push has sent it, stays in the remote repository, until     *)
(* somebody sets out to delete it: through concurrent creates of the same   *)
(* name, syncs, pushes by others, failures and restarts.                    *)
AcknowledgedIsKept ==
    \A r \in Requests :
       (req[r].op = "create" /\ req[r].answer = "ok" /\ ~Deleting(req[r].name)) =>
          /\ rows[req[r].name] # None
          /\ rows[req[r].name].id = r
          /\ r \in unsent \/ remote[PathOf(req[r])] # None

(* When a create or an update is answered with success, the remote no       *)
(* longer has the code it had: it has this request's, or what another made  *)
(* of that.  Two things are no error and keep the code from the remote: of  *)
(* a new file, the commit of a concurrent deletion, and a push that sends   *)
(* nothing, which RepoIsSourceOfTruth is about.                             *)
SavedIsPublished ==
    [][\A r \in Requests :
          (/\ req[r].op \in {"create", "update"}
           /\ Answers(r, "ok")
           /\ r \notin unsent'
           /\ req[r].was # None \/ ~Deleting(req[r].name)) =>
             remote'[PathOf(req[r])] # req[r].was]_vars

(* When a delete is answered with success, the code that HEAD had when its  *)
(* file was removed is gone from the remote repository, unless the push has *)
(* sent nothing.                                                            *)
DeletedIsGone ==
    [][\A r \in Requests :
          (/\ req[r].op = "delete"
           /\ req[r].was # None
           /\ Answers(r, "ok")
           /\ r \notin unsent') =>
             remote'[PathOf(req[r])] # req[r].was]_vars

(* A delete that got its repository, has dropped the row and is then        *)
(* answered with an error has put the row back, unless that failed too:     *)
(* wherever the file operations, the commit or the push went wrong, and     *)
(* whoever took the name meanwhile.                                         *)
FailedDeleteKeepsRow ==
    [][\A r \in Requests :
          (/\ req[r].op = "delete"
           /\ req[r].step \notin {"pull", "look", "drop"}
           /\ Answers(r, "failed")) =>
             rows'[req[r].name] # None \/ faults' # faults]_vars

------------------------------------------------------------------------------
(* What the program says of itself, and a behaviour contradicts. *)

(* "Keep source-of-truth in your repo", and the answer "saved": when a      *)
(* create or an update is answered with success and nobody deletes the      *)
(* function, the remote repository no longer has the code it had.           *)
RepoIsSourceOfTruth ==
    [][\A r \in Requests :
          (/\ req[r].op \in {"create", "update"}
           /\ Answers(r, "ok")
           /\ ~Deleting(req[r].name)) =>
             remote'[PathOf(req[r])] # req[r].was]_vars

(* "created function crd": after a create that is answered with 201 there   *)
(* is a Function resource for the function, in its language.                *)
CrIsCreated ==
    [][\A r \in Requests :
          (req[r].op = "create" /\ Answers(r, "ok")) =>
             crs'[req[r].name] = req[r].lang]_vars
==============================================================================
