----------------------------- MODULE ProjectAccess -----------------------------
(***************************************************************************)
(* How a project comes to be and how users come to belong to it.           *)
(*                                                                         *)
(* To create a project, a transaction inserts its row and its owner, and   *)
(* then, still open, has the code host set up a repository, a webhook and  *)
(* a workflow file, none of which a rollback undoes.  Owners hand out      *)
(* invites, and whoever uses one becomes a viewer.                         *)
(*                                                                         *)
(* All requests here are about the project of one name.  What an open      *)
(* transaction has written is in its request, and becomes visible when it  *)
(* commits; what it has locked follows from the request's step.            *)
(***************************************************************************)
EXTENDS Naturals, FiniteSets

CONSTANTS
    Users,      \* users that are logged in
    Codes,      \* codes of invites
    Requests,   \* requests to the portal
    Roles,      \* "owner", "manager" and "viewer"
    None,       \* no user, no role, no code...
    MaxFaults   \* failed calls and restarts of the portal

ASSUME NoneAssumption ==
    None \notin Users \cup Codes \cup {"create", "invite", "join", "ok", "failed"}
ASSUME RolesAssumption == {"owner", "viewer"} \subseteq Roles /\ None \notin Roles
ASSUME FaultsAssumption == MaxFaults \in Nat

VARIABLES
    project,   \* who created the project, if anybody
    host,      \* what the code host has of it
    access,    \* the role of each user, if any
    invites,   \* who made each invite, and what became of it
    req,       \* the requests
    revoked,   \* users whose access was revoked at some time (history)
    faults     \* faults that may still happen

vars == <<project, host, access, invites, req, revoked, faults>>

Whole == {"repo", "hook", "workflow"}
Steps == {"waiting", "insert", "repo", "hook", "workflow",
          "role", "code", "get", "add", "mark", "commit", "done"}
Waiting == [op |-> None, step |-> "waiting", user |-> None, code |-> None,
            adds |-> FALSE, answer |-> None]
NoInvite == [by |-> None, state |-> "none"]

Goto(r, step) == req' = [req EXCEPT ![r].step = step]
Answer(r, a) == req' = [req EXCEPT ![r].step = "done", ![r].answer = a]
Fault == faults > 0 /\ faults' = faults - 1

(* The transactions that have inserted the project's name. *)
Creating == {r \in Requests :
                req[r].op = "create" /\ req[r].step \in Whole \cup {"commit"}}

(* Those that have the row of an invite locked. *)
Joining(c) == {r \in Requests : /\ req[r].op = "join" /\ req[r].code = c
                                /\ req[r].step \in {"add", "mark", "commit"}}

(* Those that have inserted the access of a user. *)
Adding(u) == {r \in Requests : req[r].user = u /\ req[r].adds /\ req[r].step # "done"}

TypeOK ==
    /\ project \in Users \cup {None}
    /\ host \subseteq Whole
    /\ access \in [Users -> Roles \cup {None}]
    /\ invites \in [Codes -> [by: Users \cup {None},
                              state: {"none", "valid", "used", "expired"}]]
    /\ req \in [Requests -> [op: {None, "create", "invite", "join"}, step: Steps,
                             user: Users \cup {None}, code: Codes \cup {None},
                             adds: BOOLEAN, answer: {None, "ok", "failed"}]]
    /\ \A c \in Codes : \A r \in Joining(c) : invites[c].by \notin {None, req[r].user}
    /\ revoked \subseteq Users
    /\ faults \in 0..MaxFaults

(* There is nothing yet, or a project with an invite that nobody has used. *)
Init ==
    /\ \/ /\ project = None
          /\ host = {}
          /\ access = [u \in Users |-> None]
          /\ invites = [c \in Codes |-> NoInvite]
       \/ \E u \in Users, c \in Codes :
             /\ project = u
             /\ host = Whole
             /\ access = [v \in Users |-> IF v = u THEN "owner" ELSE None]
             /\ invites = [d \in Codes |->
                              IF d = c THEN [by |-> u, state |-> "valid"] ELSE NoInvite]
    /\ req = [r \in Requests |-> Waiting]
    /\ revoked = {}
    /\ faults = MaxFaults

Begin(r, u) ==
    /\ req[r].step = "waiting"
    /\ \/ req' = [req EXCEPT ![r] =
                     [Waiting EXCEPT !.op = "create", !.step = "insert", !.user = u]]
       \/ /\ project # None
          /\ req' = [req EXCEPT ![r] =
                        [Waiting EXCEPT !.op = "invite", !.step = "role", !.user = u]]
       \/ \E c \in Codes :
             /\ invites[c].by # None
             /\ req' = [req EXCEPT ![r] = [Waiting EXCEPT
                           !.op = "join", !.step = "get", !.user = u, !.code = c]]
    /\ UNCHANGED <<project, host, access, invites, revoked, faults>>

------------------------------------------------------------------------------
(* CreateProject *)

(* The insert waits for one of the same name to be committed or undone. *)
InsertProject(r) ==
    /\ req[r].step = "insert"
    /\ Creating = {}
    /\ IF project = None THEN Goto(r, "repo") ELSE Answer(r, "failed")
    /\ UNCHANGED <<project, host, access, invites, revoked, faults>>

(* Variant: a repository that exists is an error. *)
CreateRepoOnce(r) ==
    /\ req[r].step = "repo"
    /\ IF "repo" \in host THEN Answer(r, "failed") ELSE Goto(r, "hook")
    /\ host' = host \cup {"repo"}
    /\ UNCHANGED <<project, access, invites, revoked, faults>>

(* What exists already, from an attempt that failed, is taken as it is. *)
CreateRepo(r) ==
    /\ req[r].step = "repo"
    /\ Goto(r, "hook")
    /\ host' = host \cup {"repo"}
    /\ UNCHANGED <<project, access, invites, revoked, faults>>

AddWebhook(r) ==
    /\ req[r].step = "hook"
    /\ Goto(r, "workflow")
    /\ host' = host \cup {"hook"}
    /\ UNCHANGED <<project, access, invites, revoked, faults>>

AddWorkflow(r) ==
    /\ req[r].step = "workflow"
    /\ Goto(r, "commit")
    /\ host' = host \cup {"workflow"}
    /\ UNCHANGED <<project, access, invites, revoked, faults>>

(* Variant: an error of the code host is only logged. *)
HostFailsSilently(r) ==
    /\ Fault
    /\ req[r].step \in Whole
    /\ Goto(r, CASE req[r].step = "repo" -> "hook"
                 [] req[r].step = "hook" -> "workflow"
                 [] req[r].step = "workflow" -> "commit")
    /\ UNCHANGED <<project, host, access, invites, revoked>>

(* The code host fails, be it before or after it did what it was asked. *)
HostFails(r) ==
    /\ Fault
    /\ req[r].step \in Whole
    /\ host' \in {host, host \cup {req[r].step}}
    /\ Answer(r, "failed")
    /\ UNCHANGED <<project, access, invites, revoked>>

------------------------------------------------------------------------------
(* CreateProjectInvite *)

CheckOwner(r) ==
    /\ req[r].step = "role"
    /\ IF access[req[r].user] = "owner" THEN Goto(r, "code") ELSE Answer(r, "failed")
    /\ UNCHANGED <<project, host, access, invites, revoked, faults>>

(* A code is random; one that is taken, or is about to be, is refused. *)
InsertInvite(r, c) ==
    /\ req[r].step = "code"
    /\ IF invites[c] = NoInvite /\ \A q \in Requests : req[q].code # c
       THEN req' = [req EXCEPT ![r].step = "commit", ![r].code = c]
       ELSE Answer(r, "failed")
    /\ UNCHANGED <<project, host, access, invites, revoked, faults>>

------------------------------------------------------------------------------
(* JoinProjectByInvite *)

Usable(r) == invites[req[r].code].state = "valid"
Own(r) == invites[req[r].code].by = req[r].user

(* Variant: the row of the invite is not locked. *)
GetInviteUnlocked(r) ==
    /\ req[r].step = "get"
    /\ IF Usable(r) /\ ~Own(r) THEN Goto(r, "add") ELSE Answer(r, "failed")
    /\ UNCHANGED <<project, host, access, invites, revoked, faults>>

(* Variant: an invite may be used by who made it. *)
GetAnyInvite(r) ==
    /\ req[r].step = "get"
    /\ Joining(req[r].code) = {}
    /\ IF Usable(r) THEN Goto(r, "add") ELSE Answer(r, "failed")
    /\ UNCHANGED <<project, host, access, invites, revoked, faults>>

(* SELECT ... FOR UPDATE: waits for the row's lock, and looks again. *)
GetInvite(r) ==
    /\ req[r].step = "get"
    /\ Joining(req[r].code) = {}
    /\ IF Usable(r) /\ ~Own(r) THEN Goto(r, "add") ELSE Answer(r, "failed")
    /\ UNCHANGED <<project, host, access, invites, revoked, faults>>

(* The role of a member stays what it is. *)
AddViewer(r) ==
    /\ req[r].step = "add"
    /\ Adding(req[r].user) = {}
    /\ req' = [req EXCEPT ![r].step = "mark", ![r].adds = access[req[r].user] = None]
    /\ UNCHANGED <<project, host, access, invites, revoked, faults>>

MarkInviteUsed(r) ==
    /\ req[r].step = "mark"
    /\ Goto(r, "commit")
    /\ UNCHANGED <<project, host, access, invites, revoked, faults>>

------------------------------------------------------------------------------
(* What the request's transaction has written becomes visible. *)
Effect(r) ==
    LET q == req[r] IN
    \/ /\ q.op = "create"
       /\ project' = q.user
       /\ access' = [access EXCEPT ![q.user] = "owner"]
       /\ UNCHANGED invites
    \/ /\ q.op = "invite"
       /\ invites' = [invites EXCEPT ![q.code] = [by |-> q.user, state |-> "valid"]]
       /\ UNCHANGED <<project, access>>
    \/ /\ q.op = "join"
       /\ access' = IF q.adds THEN [access EXCEPT ![q.user] = "viewer"] ELSE access
       /\ invites' = [invites EXCEPT ![q.code].state = "used"]
       /\ UNCHANGED project

(* Variant: the handler answers and lets its deferred rollback run. *)
CommitForgotten(r) ==
    /\ req[r].step = "commit"
    /\ Answer(r, "ok")
    /\ UNCHANGED <<project, access, invites, host, revoked, faults>>

Commit(r) ==
    /\ req[r].step = "commit"
    /\ Effect(r)
    /\ Answer(r, "ok")
    /\ UNCHANGED <<host, revoked, faults>>

(* A statement fails; the transaction is rolled back. *)
StatementFails(r) ==
    /\ Fault
    /\ req[r].step \in {"insert", "role", "code", "get", "add", "mark"}
    /\ Answer(r, "failed")
    /\ UNCHANGED <<project, host, access, invites, revoked>>

(* The connection is lost at the commit, which may yet have been done. *)
CommitFails(r) ==
    /\ Fault
    /\ req[r].step = "commit"
    /\ Effect(r) \/ UNCHANGED <<project, access, invites>>
    /\ Answer(r, "failed")
    /\ UNCHANGED <<host, revoked>>

------------------------------------------------------------------------------
(* UpdateProjectAccess and RevokeProjectAccess: single statements. *)

UpdateUserProjectRole(u, role) ==
    /\ access[u] # None
    /\ access' = [access EXCEPT ![u] = role]
    /\ UNCHANGED <<project, host, invites, req, revoked, faults>>

RevokeAccess(u) ==
    /\ access[u] \notin {None, "owner"}
    /\ access' = [access EXCEPT ![u] = None]
    /\ revoked' = revoked \cup {u}
    /\ UNCHANGED <<project, host, invites, req, faults>>

(* Whether an invite has expired is looked at when it is got. *)
Expire(c) ==
    /\ invites[c].state = "valid"
    /\ invites' = [invites EXCEPT ![c].state = "expired"]
    /\ UNCHANGED <<project, host, access, req, revoked, faults>>

(* The portal starts again: open transactions are rolled back. *)
Restart ==
    /\ Fault
    /\ req' = [r \in Requests |->
                  IF req[r].step = "waiting" THEN req[r] ELSE [req[r] EXCEPT !.step = "done"]]
    /\ UNCHANGED <<project, host, access, invites, revoked>>

------------------------------------------------------------------------------

RequestStep(r) ==
    \/ InsertProject(r) \/ CreateRepo(r) \/ AddWebhook(r) \/ AddWorkflow(r)
    \/ CheckOwner(r) \/ \E c \in Codes : InsertInvite(r, c)
    \/ GetInvite(r) \/ AddViewer(r) \/ MarkInviteUsed(r)
    \/ Commit(r)

Next ==
    \/ \E r \in Requests :
          \/ \E u \in Users : Begin(r, u)
          \/ RequestStep(r)
          \/ HostFails(r) \/ StatementFails(r) \/ CommitFails(r)
    \/ \E u \in Users : RevokeAccess(u) \/ \E role \in Roles : UpdateUserProjectRole(u, role)
    \/ \E c \in Codes : Expire(c)
    \/ Restart

Spec == Init /\ [][Next]_vars

(* A handler that has begun goes on; nobody need do anything else. *)
FairSpec == Spec /\ \A r \in Requests : WF_vars(RequestStep(r))

------------------------------------------------------------------------------
(* An invite is used once: of those who use it at the same time, or twice,  *)
(* one is answered with 200.                                                *)
InviteAdmitsOne ==
    \A c \in Codes :
       Cardinality({r \in Requests : /\ req[r].op = "join" /\ req[r].code = c
                                     /\ req[r].answer = "ok"}) <= 1

(* A project that there is has its repository, webhook and workflow: also   *)
(* if the attempts to create it failed half-way and were repeated, or went  *)
(* on beside each other.                                                    *)
ProjectIsWhole == project # None => host = Whole

(* Who joined, and was told so, is a member, unless access was revoked; and *)
(* the invite cannot be used again.                                         *)
JoinedIsMember ==
    \A r \in Requests :
       (req[r].op = "join" /\ req[r].answer = "ok") =>
          /\ access[req[r].user] # None \/ req[r].user \in revoked
          /\ invites[req[r].code].state # "valid"

(* To create a project again after an attempt failed, wherever it did,      *)
(* works once nothing fails any more: what the code host kept of it is not  *)
(* in the way.                                                              *)
CreateCanBeRepeated ==
    (faults = 0 /\ \E r \in Requests : req[r].op = "create" /\ req[r].step = "insert")
       ~> project # None
==============================================================================
