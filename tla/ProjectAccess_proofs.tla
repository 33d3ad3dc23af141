------------------------- MODULE ProjectAccess_proofs -------------------------
(***************************************************************************)
(* Proofs about ProjectAccess, for any users, codes, requests and roles:   *)
(* types, that a project is whole, and what an invite admits.              *)
(***************************************************************************)
EXTENDS ProjectAccess, FiniteSetTheorems, TLAPS

Requested == [op: {None, "create", "invite", "join"}, step: Steps,
              user: Users \cup {None}, code: Codes \cup {None},
              adds: BOOLEAN, answer: {None, "ok", "failed"}]

Typed ==
    /\ project \in Users \cup {None}
    /\ host \subseteq Whole
    /\ access \in [Users -> Roles \cup {None}]
    /\ invites \in [Codes -> [by: Users \cup {None},
                              state: {"none", "valid", "used", "expired"}]]
    /\ req \in [Requests -> Requested]
    /\ revoked \subseteq Users
    /\ faults \in 0..MaxFaults

(* The steps of each handler. *)
StepsFollowOp ==
    \A r \in Requests : LET q == req[r] IN
       /\ q.step = "waiting" => q.op = None /\ q.code = None
       /\ q.step # "waiting" => q.user \in Users
       /\ q.step \in {"insert"} \cup Whole => q.op = "create"
       /\ q.step \in {"role", "code"} => q.op = "invite" /\ q.code = None
       /\ q.step \in {"get", "add", "mark"} => q.op = "join"
       /\ q.step = "commit" => q.op # None
       /\ q.answer # None => q.step = "done"

(* The code that an invite is about to get is not that of another. *)
CodesAreNew ==
    \A r \in Requests :
       (req[r].op = "invite" /\ req[r].step = "commit") =>
          /\ req[r].code \in Codes
          /\ invites[req[r].code] = NoInvite
          /\ \A q \in Requests : req[q].code = req[r].code => q = r

(* An invite that somebody uses exists, and is that of somebody else. *)
JoinsAreInvited ==
    \A r \in Requests :
       req[r].op = "join" =>
          /\ req[r].code \in Codes
          /\ invites[req[r].code].by # None
          /\ req[r].step \in {"add", "mark", "commit"} =>
                invites[req[r].code].by # req[r].user

(* Who has the row of an invite, and who has joined. *)
Holds(q) == q.op = "join" /\ q.step \in {"add", "mark", "commit"}
Joined(q) == q.op = "join" /\ q.answer = "ok"
Used == {c \in Codes : invites[c].state = "used"}

(* Who has got an invite has it alone, and nobody has used it before. *)
InviteIsLocked ==
    /\ \A r, q \in Requests :
          (Holds(req[r]) /\ Holds(req[q]) /\ req[r].code = req[q].code) => r = q
    /\ \A r \in Requests : Holds(req[r]) => req[r].code \notin Used
    /\ \A r \in Requests : Joined(req[r]) => req[r].code \in Used
    /\ \A r, q \in Requests :
          (Joined(req[r]) /\ Joined(req[q]) /\ req[r].code = req[q].code) => r = q

(* A transaction has what its code host did before. *)
HostFollows ==
    /\ project # None => host = Whole
    /\ \A r \in Requests :
          /\ req[r].step = "hook" => "repo" \in host
          /\ req[r].step = "workflow" => {"repo", "hook"} \subseteq host
          /\ req[r].op = "create" /\ req[r].step = "commit" => host = Whole

(* Who need not be added is a member, or was one. *)
MembersAreKept ==
    \A r \in Requests :
       (/\ req[r].op = "join"
        /\ req[r].answer = "ok" \/ (req[r].step \in {"mark", "commit"} /\ ~req[r].adds)) =>
          access[req[r].user] # None \/ req[r].user \in revoked

TypeInv == Typed /\ StepsFollowOp /\ CodesAreNew /\ JoinsAreInvited

USE NoneAssumption, RolesAssumption, FaultsAssumption

(* What a request is after a step of it. *)
Moved(r, step, code, adds, answer) ==
    /\ req' \in [Requests -> Requested]
    /\ \A q \in Requests \ {r} : req'[q] = req[q]
    /\ req'[r].op = req[r].op /\ req'[r].user = req[r].user
    /\ req'[r].step = step /\ req'[r].code = code
    /\ req'[r].adds = adds /\ req'[r].answer = answer

------------------------------------------------------------------------------
(* The initial state satisfies all of these. *)
LEMMA InitInv == Init => TypeInv /\ InviteIsLocked /\ HostFollows /\ MembersAreKept
<1> SUFFICES ASSUME Init PROVE TypeInv /\ InviteIsLocked /\ HostFollows /\ MembersAreKept
  OBVIOUS
<1>1. Waiting \in Requested /\ NoInvite.by = None /\ NoInvite.state = "none"
  BY DEF Waiting, Requested, Steps, NoInvite
<1>2. /\ \A r \in Requests : req[r] = Waiting
      /\ Waiting.op = None /\ Waiting.step = "waiting" /\ Waiting.code = None
      /\ Waiting.answer = None
  BY DEF Init, Waiting
<1>3. req \in [Requests -> Requested] /\ revoked \subseteq Users /\ faults \in 0..MaxFaults
  BY <1>1 DEF Init
<1>4. /\ project \in Users \cup {None} /\ host \subseteq Whole
      /\ access \in [Users -> Roles \cup {None}]
      /\ project # None => host = Whole
  BY DEF Init, Whole
<1>5. /\ invites \in [Codes -> [by: Users \cup {None},
                                state: {"none", "valid", "used", "expired"}]]
      /\ \A c \in Codes : invites[c].state # "used"
  BY <1>1 DEF Init, NoInvite
<1>6. Typed
  BY <1>3, <1>4, <1>5 DEF Typed
<1>7. StepsFollowOp /\ CodesAreNew /\ JoinsAreInvited
  BY <1>2 DEF StepsFollowOp, CodesAreNew, JoinsAreInvited, Whole
<1>8. InviteIsLocked /\ HostFollows /\ MembersAreKept
  BY <1>2, <1>4 DEF InviteIsLocked, Holds, Joined, HostFollows, MembersAreKept
<1> QED
  BY <1>6, <1>7, <1>8 DEF TypeInv

------------------------------------------------------------------------------
(* A request goes on to another step... *)
LEMMA GotoMoves ==
    ASSUME Typed, NEW r \in Requests, NEW step \in Steps, Goto(r, step)
    PROVE  Moved(r, step, req[r].code, req[r].adds, req[r].answer)
<1> DEFINE x == [req[r] EXCEPT !.step = step]
<1>1. req[r] \in Requested
  BY DEF Typed
<1>2. /\ x \in Requested /\ x.op = req[r].op /\ x.user = req[r].user /\ x.step = step
      /\ x.code = req[r].code /\ x.adds = req[r].adds /\ x.answer = req[r].answer
  BY <1>1 DEF Requested
<1>3. req' = [req EXCEPT ![r] = x]
  BY DEF Goto
<1> HIDE DEF x
<1>4. req' \in [Requests -> Requested] /\ req'[r] = x /\ \A q \in Requests \ {r} : req'[q] = req[q]
  BY <1>2, <1>3 DEF Typed
<1> QED
  BY <1>2, <1>4 DEF Moved

(* ... or is answered. *)
LEMMA AnswerMoves ==
    ASSUME Typed, NEW r \in Requests, NEW a \in {"ok", "failed"}, Answer(r, a)
    PROVE  Moved(r, "done", req[r].code, req[r].adds, a)
<1> DEFINE x == [req[r] EXCEPT !.step = "done", !.answer = a]
<1>1. req[r] \in Requested
  BY DEF Typed
<1>2. /\ x \in Requested /\ x.op = req[r].op /\ x.user = req[r].user /\ x.step = "done"
      /\ x.code = req[r].code /\ x.adds = req[r].adds /\ x.answer = a
  BY <1>1 DEF Requested, Steps
<1>3. req' = [req EXCEPT ![r] = x]
  BY <1>1 DEF Answer, Typed, Requested
<1> HIDE DEF x
<1>4. req' \in [Requests -> Requested] /\ req'[r] = x /\ \A q \in Requests \ {r} : req'[q] = req[q]
  BY <1>2, <1>3 DEF Typed
<1> QED
  BY <1>2, <1>4 DEF Moved

(* The failures of a handler, and its steps that only move it. *)
Failing(r) == HostFails(r) \/ StatementFails(r)
Advancing(r) ==
    \/ InsertProject(r) \/ CreateRepo(r) \/ AddWebhook(r) \/ AddWorkflow(r)
    \/ CheckOwner(r) \/ GetInvite(r) \/ MarkInviteUsed(r)

(* The steps that follow each other. *)
Order == {<<"insert", "repo">>, <<"repo", "hook">>, <<"hook", "workflow">>,
          <<"workflow", "commit">>, <<"role", "code">>, <<"get", "add">>, <<"mark", "commit">>}

(* Where a step of a handler moves its request... *)
LEMMA AdvancingMoves ==
    ASSUME Typed, NEW r \in Requests, Advancing(r)
    PROVE  \/ Moved(r, "done", req[r].code, req[r].adds, "failed")
           \/ \E step \in Steps : /\ <<req[r].step, step>> \in Order
                                 /\ Moved(r, step, req[r].code, req[r].adds, req[r].answer)
<1>1. \A step \in Steps : Goto(r, step) => Moved(r, step, req[r].code, req[r].adds, req[r].answer)
  BY GotoMoves
<1>2. Answer(r, "failed") => Moved(r, "done", req[r].code, req[r].adds, "failed")
  BY AnswerMoves
<1>3. {"repo", "hook", "workflow", "commit", "code", "add"} \subseteq Steps
  BY DEF Steps
<1>4. CASE InsertProject(r)
  BY <1>1, <1>2, <1>3, <1>4 DEF InsertProject, Order
<1>5. CASE CreateRepo(r)
  BY <1>1, <1>2, <1>3, <1>5 DEF CreateRepo, Order
<1>6. CASE AddWebhook(r)
  BY <1>1, <1>2, <1>3, <1>6 DEF AddWebhook, Order
<1>7. CASE AddWorkflow(r)
  BY <1>1, <1>2, <1>3, <1>7 DEF AddWorkflow, Order
<1>8. CASE CheckOwner(r)
  BY <1>1, <1>2, <1>3, <1>8 DEF CheckOwner, Order
<1>9. CASE GetInvite(r)
  BY <1>1, <1>2, <1>3, <1>9 DEF GetInvite, Order
<1>10. CASE MarkInviteUsed(r)
  BY <1>1, <1>2, <1>3, <1>10 DEF MarkInviteUsed, Order
<1> QED
  BY <1>4, <1>5, <1>6, <1>7, <1>8, <1>9, <1>10 DEF Advancing

(* ... and a failure. *)
LEMMA FailingMoves ==
    ASSUME Typed, NEW r \in Requests, Failing(r)
    PROVE  Moved(r, "done", req[r].code, req[r].adds, "failed")
BY AnswerMoves DEF Failing, HostFails, StatementFails

(* The steps that move a request and do more. *)
LEMMA InsertInviteMoves ==
    ASSUME Typed, NEW r \in Requests, NEW c \in Codes, InsertInvite(r, c)
    PROVE  \/ Moved(r, "done", req[r].code, req[r].adds, "failed")
           \/ /\ Moved(r, "commit", c, req[r].adds, req[r].answer)
              /\ invites[c] = NoInvite /\ \A q \in Requests : req[q].code # c
<1>1. CASE Answer(r, "failed")
  BY <1>1, AnswerMoves
<1>2. CASE /\ req' = [req EXCEPT ![r].step = "commit", ![r].code = c]
           /\ invites[c] = NoInvite /\ \A q \in Requests : req[q].code # c
  <2> DEFINE x == [req[r] EXCEPT !.step = "commit", !.code = c]
  <2>1. req[r] \in Requested
    BY DEF Typed
  <2>2. /\ x \in Requested /\ x.op = req[r].op /\ x.user = req[r].user /\ x.step = "commit"
        /\ x.code = c /\ x.adds = req[r].adds /\ x.answer = req[r].answer
    BY <2>1 DEF Requested, Steps
  <2>3. req' = [req EXCEPT ![r] = x]
    BY <1>2, <2>1 DEF Typed, Requested
  <2> HIDE DEF x
  <2>4. req' \in [Requests -> Requested] /\ req'[r] = x /\ \A q \in Requests \ {r} : req'[q] = req[q]
    BY <2>2, <2>3 DEF Typed
  <2>5. Moved(r, "commit", c, req[r].adds, req[r].answer)
    BY <2>2, <2>4 DEF Moved
  <2> QED
    BY <1>2, <2>5
<1> QED
  BY <1>1, <1>2 DEF InsertInvite

(* Who is a member already is not added. *)
LEMMA AddViewerMoves ==
    ASSUME Typed, NEW r \in Requests, AddViewer(r)
    PROVE  Moved(r, "mark", req[r].code, access[req[r].user] = None, req[r].answer)
<1> DEFINE new == access[req[r].user] = None
           x == [req[r] EXCEPT !.step = "mark", !.adds = new]
<1>1. req[r] \in Requested
  BY DEF Typed
<1>2. new \in BOOLEAN
  OBVIOUS
<1>3. req' = [req EXCEPT ![r].step = "mark", ![r].adds = new]
  BY DEF AddViewer
<1> HIDE DEF new
<1>4. /\ x \in Requested /\ x.op = req[r].op /\ x.user = req[r].user /\ x.step = "mark"
      /\ x.code = req[r].code /\ x.adds = new /\ x.answer = req[r].answer
  BY <1>1, <1>2 DEF Requested, Steps
<1>5. req' = [req EXCEPT ![r] = x]
  BY <1>1, <1>3 DEF Typed, Requested
<1> HIDE DEF x
<1>6. req' \in [Requests -> Requested] /\ req'[r] = x /\ \A q \in Requests \ {r} : req'[q] = req[q]
  BY <1>4, <1>5 DEF Typed
<1>7. Moved(r, "mark", req[r].code, new, req[r].answer)
  BY <1>4, <1>6 DEF Moved
<1> QED
  BY <1>7 DEF new

(* A request that begins is about the project, or an invite that there is. *)
LEMMA BeginMoves ==
    ASSUME Typed, NEW r \in Requests, NEW u \in Users, Begin(r, u)
    PROVE  /\ req' \in [Requests -> Requested]
           /\ \A q \in Requests \ {r} : req'[q] = req[q]
           /\ req'[r].user = u /\ req'[r].answer = None
           /\ \/ req'[r].op = "create" /\ req'[r].step = "insert" /\ req'[r].code = None
              \/ req'[r].op = "invite" /\ req'[r].step = "role" /\ req'[r].code = None
              \/ /\ req'[r].op = "join" /\ req'[r].step = "get" /\ req'[r].code \in Codes
                 /\ invites[req'[r].code].by # None
<1>1. ASSUME NEW x \in Requested, req' = [req EXCEPT ![r] = x]
      PROVE  /\ req' \in [Requests -> Requested] /\ req'[r] = x
             /\ \A q \in Requests \ {r} : req'[q] = req[q]
  BY <1>1 DEF Typed
<1>2. CASE req' = [req EXCEPT ![r] =
                      [Waiting EXCEPT !.op = "create", !.step = "insert", !.user = u]]
  <2> DEFINE x == [Waiting EXCEPT !.op = "create", !.step = "insert", !.user = u]
  <2>1. /\ x \in Requested /\ x.op = "create" /\ x.step = "insert" /\ x.user = u
        /\ x.code = None /\ x.answer = None
    BY DEF Waiting, Requested, Steps
  <2>2. req' = [req EXCEPT ![r] = x]
    BY <1>2
  <2> HIDE DEF x
  <2> QED BY <1>1, <2>1, <2>2
<1>3. CASE req' = [req EXCEPT ![r] =
                      [Waiting EXCEPT !.op = "invite", !.step = "role", !.user = u]]
  <2> DEFINE x == [Waiting EXCEPT !.op = "invite", !.step = "role", !.user = u]
  <2>1. /\ x \in Requested /\ x.op = "invite" /\ x.step = "role" /\ x.user = u
        /\ x.code = None /\ x.answer = None
    BY DEF Waiting, Requested, Steps
  <2>2. req' = [req EXCEPT ![r] = x]
    BY <1>3
  <2> HIDE DEF x
  <2> QED BY <1>1, <2>1, <2>2
<1>4. ASSUME NEW c \in Codes, invites[c].by # None,
             req' = [req EXCEPT ![r] = [Waiting EXCEPT
                        !.op = "join", !.step = "get", !.user = u, !.code = c]]
      PROVE  /\ req' \in [Requests -> Requested]
             /\ \A q \in Requests \ {r} : req'[q] = req[q]
             /\ req'[r].user = u /\ req'[r].answer = None
             /\ req'[r].op = "join" /\ req'[r].step = "get" /\ req'[r].code = c
  <2> DEFINE x == [Waiting EXCEPT !.op = "join", !.step = "get", !.user = u, !.code = c]
  <2>1. /\ x \in Requested /\ x.op = "join" /\ x.step = "get" /\ x.user = u
        /\ x.code = c /\ x.answer = None
    BY DEF Waiting, Requested, Steps
  <2>2. req' = [req EXCEPT ![r] = x]
    BY <1>4
  <2> HIDE DEF x
  <2> QED BY <1>1, <2>1, <2>2
<1> QED
  BY <1>2, <1>3, <1>4 DEF Begin

(* A restart ends the requests that have begun, without an answer. *)
LEMMA RestartMoves ==
    ASSUME Typed, Restart
    PROVE  /\ req' \in [Requests -> Requested]
           /\ \A q \in Requests :
                 /\ req'[q].op = req[q].op /\ req'[q].user = req[q].user
                 /\ req'[q].code = req[q].code /\ req'[q].answer = req[q].answer
                 /\ \/ req'[q] = req[q] /\ req[q].step = "waiting"
                    \/ req'[q].step = "done" /\ req[q].step # "waiting"
<1> DEFINE x(q) == IF req[q].step = "waiting" THEN req[q] ELSE [req[q] EXCEPT !.step = "done"]
<1>1. ASSUME NEW q \in Requests
      PROVE  /\ x(q) \in Requested
             /\ x(q).op = req[q].op /\ x(q).user = req[q].user
             /\ x(q).code = req[q].code /\ x(q).answer = req[q].answer
             /\ \/ x(q) = req[q] /\ req[q].step = "waiting"
                \/ x(q).step = "done" /\ req[q].step # "waiting"
  <2>1. req[q] \in Requested
    BY DEF Typed
  <2> QED BY <2>1 DEF Requested, Steps
<1>2. req' = [q \in Requests |-> x(q)]
  BY DEF Restart
<1> HIDE DEF x
<1> QED
  BY <1>1, <1>2

(* What a commit makes visible has the declared types. *)
LEMMA EffectTyped ==
    ASSUME Typed, NEW r \in Requests, req[r].user \in Users, Effect(r)
    PROVE  /\ project' \in Users \cup {None}
           /\ access' \in [Users -> Roles \cup {None}]
           /\ invites' \in [Codes -> [by: Users \cup {None},
                                     state: {"none", "valid", "used", "expired"}]]
<1> DEFINE Invited == [by: Users \cup {None}, state: {"none", "valid", "used", "expired"}]
<1>1. CASE /\ project' = req[r].user
           /\ access' = [access EXCEPT ![req[r].user] = "owner"]
           /\ UNCHANGED invites
  BY <1>1 DEF Typed
<1>2. CASE /\ invites' = [invites EXCEPT ![req[r].code] = [by |-> req[r].user, state |-> "valid"]]
           /\ UNCHANGED <<project, access>>
  BY <1>2 DEF Typed
<1>3. CASE /\ access' = IF req[r].adds THEN [access EXCEPT ![req[r].user] = "viewer"] ELSE access
           /\ invites' = [invites EXCEPT ![req[r].code].state = "used"]
           /\ UNCHANGED project
  <2>1. access' \in [Users -> Roles \cup {None}]
    BY <1>3 DEF Typed
  <2>2. ASSUME NEW c \in Codes PROVE [invites[c] EXCEPT !.state = "used"] \in Invited
    BY DEF Typed
  <2>3. invites \in [Codes -> Invited]
    BY DEF Typed
  <2>4. invites' \in [Codes -> Invited]
    BY <1>3, <2>2, <2>3
  <2> QED BY <1>3, <2>1, <2>4 DEF Typed
<1> QED
  BY <1>1, <1>2, <1>3 DEF Effect

(* A commit answers, whether or not it was done. *)
LEMMA CommitMoves ==
    ASSUME Typed, StepsFollowOp, NEW r \in Requests, Commit(r)
    PROVE  /\ Moved(r, "done", req[r].code, req[r].adds, "ok")
           /\ req[r].user \in Users
<1>1. req[r].user \in Users
  BY DEF Commit, StepsFollowOp
<1>2. Moved(r, "done", req[r].code, req[r].adds, "ok")
  BY AnswerMoves DEF Commit
<1> QED
  BY <1>1, <1>2

(* So does one whose connection is lost. *)
LEMMA CommitFailsMoves ==
    ASSUME Typed, StepsFollowOp, NEW r \in Requests, CommitFails(r)
    PROVE  /\ Moved(r, "done", req[r].code, req[r].adds, "failed")
           /\ req[r].user \in Users
<1>1. req[r].user \in Users
  BY DEF CommitFails, StepsFollowOp
<1>2. Moved(r, "done", req[r].code, req[r].adds, "failed")
  BY AnswerMoves DEF CommitFails
<1> QED
  BY <1>1, <1>2

------------------------------------------------------------------------------
(* Every step keeps the types. *)
LEMMA NextTyped ==
    ASSUME Typed, StepsFollowOp, [Next]_vars
    PROVE  Typed'
<1>1. ASSUME NEW r \in Requests, NEW u \in Users, Begin(r, u) PROVE Typed'
  BY <1>1, BeginMoves DEF Moved, Typed, Fault, Begin
<1>2. ASSUME NEW r \in Requests, Advancing(r) PROVE Typed'
  BY <1>2, AdvancingMoves DEF Moved, Typed, Fault, Advancing, InsertProject, CreateRepo, AddWebhook, AddWorkflow, CheckOwner,
      GetInvite, MarkInviteUsed, Whole
<1>3. ASSUME NEW r \in Requests, NEW c \in Codes, InsertInvite(r, c) PROVE Typed'
  BY <1>3, InsertInviteMoves DEF Moved, Typed, Fault, InsertInvite
<1>4. ASSUME NEW r \in Requests, AddViewer(r) PROVE Typed'
  BY <1>4, AddViewerMoves DEF Moved, Typed, Fault, AddViewer
<1>5. ASSUME NEW r \in Requests, Commit(r) PROVE Typed'
  BY <1>5, CommitMoves, EffectTyped DEF Moved, Typed, Fault, Commit
<1>6. ASSUME NEW r \in Requests, Failing(r) PROVE Typed'
  <2>1. req' \in [Requests -> Requested]
    BY <1>6, FailingMoves DEF Moved
  <2>2. faults' \in 0..MaxFaults /\ UNCHANGED <<project, access, invites, revoked>>
    BY <1>6 DEF Typed, Fault, Failing, HostFails, StatementFails
  <2>3. host' \subseteq Whole
    BY <1>6 DEF Typed, Failing, HostFails, StatementFails
  <2> QED BY <2>1, <2>2, <2>3 DEF Typed
<1>7. ASSUME NEW r \in Requests, CommitFails(r) PROVE Typed'
  BY <1>7, CommitFailsMoves, EffectTyped DEF Moved, Typed, Fault, CommitFails
<1>8. ASSUME NEW u \in Users, RevokeAccess(u) PROVE Typed'
  BY <1>8 DEF Moved, Typed, Fault, RevokeAccess
<1>9. ASSUME NEW u \in Users, NEW role \in Roles, UpdateUserProjectRole(u, role) PROVE Typed'
  BY <1>9 DEF Moved, Typed, Fault, UpdateUserProjectRole
<1>10. ASSUME NEW c \in Codes, Expire(c) PROVE Typed'
  BY <1>10 DEF Moved, Typed, Fault, Expire
<1>11. CASE Restart
  BY <1>11, RestartMoves DEF Moved, Typed, Fault, Restart
<1>12. CASE UNCHANGED vars
  BY <1>12 DEF Moved, Typed, Fault, vars
<1> QED
  BY <1>1, <1>2, <1>3, <1>4, <1>5, <1>6, <1>7, <1>8, <1>9, <1>10, <1>11, <1>12
  DEF Next, RequestStep, Advancing, Failing

(* Every step is one of its handler's. *)
LEMMA NextFollows ==
    ASSUME Typed, StepsFollowOp, [Next]_vars
    PROVE  StepsFollowOp'
<1>1. ASSUME NEW r \in Requests, NEW u \in Users, Begin(r, u) PROVE StepsFollowOp'
  <2>1. /\ \A q \in Requests \ {r} : req'[q] = req[q]
        /\ req'[r].user = u /\ req'[r].answer = None
        /\ \/ req'[r].op = "create" /\ req'[r].step = "insert" /\ req'[r].code = None
           \/ req'[r].op = "invite" /\ req'[r].step = "role" /\ req'[r].code = None
           \/ req'[r].op = "join" /\ req'[r].step = "get"
    BY <1>1, BeginMoves
  <2> QED BY <2>1 DEF StepsFollowOp, Whole
<1>2. ASSUME NEW r \in Requests, Advancing(r) PROVE StepsFollowOp'
  BY <1>2, AdvancingMoves DEF Moved, StepsFollowOp, Order, Whole, Advancing, InsertProject, CreateRepo, AddWebhook, AddWorkflow, CheckOwner,
      GetInvite, MarkInviteUsed, Whole
<1>3. ASSUME NEW r \in Requests, NEW c \in Codes, InsertInvite(r, c) PROVE StepsFollowOp'
  BY <1>3, InsertInviteMoves DEF Moved, StepsFollowOp, Order, Whole, InsertInvite
<1>4. ASSUME NEW r \in Requests, AddViewer(r) PROVE StepsFollowOp'
  <2>1. /\ \A q \in Requests \ {r} : req'[q] = req[q]
        /\ req'[r].op = req[r].op /\ req'[r].user = req[r].user
        /\ req'[r].code = req[r].code /\ req'[r].answer = req[r].answer /\ req'[r].step = "mark"
    BY <1>4, AddViewerMoves DEF Moved
  <2>2. req[r].step = "add"
    BY <1>4 DEF AddViewer
  <2> QED BY <2>1, <2>2 DEF StepsFollowOp, Whole
<1>5. ASSUME NEW r \in Requests, Commit(r) PROVE StepsFollowOp'
  BY <1>5, CommitMoves, EffectTyped DEF Moved, StepsFollowOp, Order, Whole, Commit
<1>6. ASSUME NEW r \in Requests, Failing(r) PROVE StepsFollowOp'
  BY <1>6, FailingMoves DEF Moved, StepsFollowOp, Order, Whole, Failing, HostFails, StatementFails, Whole
<1>7. ASSUME NEW r \in Requests, CommitFails(r) PROVE StepsFollowOp'
  BY <1>7, CommitFailsMoves, EffectTyped DEF Moved, StepsFollowOp, Order, Whole, CommitFails
<1>8. ASSUME NEW u \in Users, RevokeAccess(u) PROVE StepsFollowOp'
  BY <1>8 DEF Moved, StepsFollowOp, Order, Whole, RevokeAccess
<1>9. ASSUME NEW u \in Users, NEW role \in Roles, UpdateUserProjectRole(u, role) PROVE StepsFollowOp'
  BY <1>9 DEF Moved, StepsFollowOp, Order, Whole, UpdateUserProjectRole
<1>10. ASSUME NEW c \in Codes, Expire(c) PROVE StepsFollowOp'
  BY <1>10 DEF Moved, StepsFollowOp, Order, Whole, Expire
<1>11. CASE Restart
  BY <1>11, RestartMoves DEF Moved, StepsFollowOp, Order, Whole, Restart
<1>12. CASE UNCHANGED vars
  BY <1>12 DEF Moved, StepsFollowOp, Order, Whole, vars
<1> QED
  BY <1>1, <1>2, <1>3, <1>4, <1>5, <1>6, <1>7, <1>8, <1>9, <1>10, <1>11, <1>12
  DEF Next, RequestStep, Advancing, Failing

(* A commit leaves all invites to those who made them. *)
LEMMA EffectInvites ==
    ASSUME TypeInv, NEW r \in Requests, req[r].step = "commit", Effect(r)
    PROVE  /\ \A c \in Codes : invites[c].by # None => invites'[c].by = invites[c].by
           /\ \A c \in Codes \ {req[r].code} : invites'[c] = invites[c]
           /\ req[r].op = "join" => /\ req[r].code \in Codes
                                    /\ invites'[req[r].code].state = "used"
           /\ req[r].op = "create" => invites' = invites
           /\ req[r].op = "invite" => invites'[req[r].code].state = "valid"
<1> DEFINE Invited == [by: Users \cup {None}, state: {"none", "valid", "used", "expired"}]
<1>1. invites \in [Codes -> Invited] /\ NoInvite.by = None
  BY DEF TypeInv, Typed, NoInvite
<1>2. CASE req[r].op = "create" /\ UNCHANGED invites
  BY <1>2
<1>3. CASE /\ req[r].op = "invite"
           /\ invites' = [invites EXCEPT ![req[r].code] = [by |-> req[r].user, state |-> "valid"]]
  <2>1. req[r].code \in Codes /\ invites[req[r].code].by = None
    BY <1>1, <1>3 DEF TypeInv, CodesAreNew
  <2> QED BY <1>1, <1>3, <2>1
<1>4. CASE /\ req[r].op = "join"
           /\ invites' = [invites EXCEPT ![req[r].code].state = "used"]
  <2>1. req[r].code \in Codes /\ invites[req[r].code] \in Invited
    BY <1>1, <1>4 DEF TypeInv, JoinsAreInvited
  <2> DEFINE x == [invites[req[r].code] EXCEPT !.state = "used"]
  <2>2. x.by = invites[req[r].code].by /\ x.state = "used"
    BY <2>1
  <2>3. invites' = [invites EXCEPT ![req[r].code] = x]
    BY <1>1, <1>4
  <2> HIDE DEF x
  <2> QED BY <1>1, <1>4, <2>1, <2>2, <2>3
<1> QED
  BY <1>2, <1>3, <1>4 DEF Effect

(* The code of an invite stays new until it is committed. *)
LEMMA NextCodes ==
    ASSUME TypeInv, [Next]_vars
    PROVE  CodesAreNew'
<1> USE DEF Moved
<1>1. Typed /\ StepsFollowOp /\ CodesAreNew /\ JoinsAreInvited
  BY DEF TypeInv
<1>2. NoInvite.by = None /\ NoInvite.state = "none"
  BY DEF NoInvite
<1>3. ASSUME NEW r \in Requests, NEW u \in Users, Begin(r, u) PROVE CodesAreNew'
  <2>1. UNCHANGED invites /\ \A q \in Requests \ {r} : req'[q] = req[q]
    BY <1>1, <1>3, BeginMoves DEF Begin
  <2>2. /\ req'[r].step # "commit"
        /\ req'[r].code \in Codes => invites[req'[r].code].by # None
    BY <1>1, <1>3, BeginMoves
  <2> QED BY <1>1, <1>2, <2>1, <2>2 DEF CodesAreNew
<1>4. ASSUME NEW r \in Requests, Advancing(r) PROVE CodesAreNew'
  <2>1. UNCHANGED invites
    BY <1>4 DEF Advancing, InsertProject, CreateRepo, AddWebhook, AddWorkflow, CheckOwner,
                GetInvite, MarkInviteUsed
  <2>2. req'[r].step = "commit" => req[r].op # "invite"
    BY <1>1, <1>4, AdvancingMoves DEF Order, StepsFollowOp, Whole
  <2>3. req'[r].op = req[r].op /\ req'[r].code = req[r].code
    BY <1>1, <1>4, AdvancingMoves
  <2>4. \A q \in Requests \ {r} : req'[q] = req[q]
    BY <1>1, <1>4, AdvancingMoves
  <2> QED BY <1>1, <2>1, <2>2, <2>3, <2>4 DEF CodesAreNew
<1>5. ASSUME NEW r \in Requests, NEW c \in Codes, InsertInvite(r, c) PROVE CodesAreNew'
  BY <1>1, <1>5, InsertInviteMoves DEF StepsFollowOp, CodesAreNew, InsertInvite
<1>6. ASSUME NEW r \in Requests, AddViewer(r) PROVE CodesAreNew'
  <2>1. UNCHANGED invites
    BY <1>6 DEF AddViewer
  <2>2. /\ req'[r].step = "mark" /\ req'[r].code = req[r].code
        /\ \A q \in Requests \ {r} : req'[q] = req[q]
    BY <1>1, <1>6, AddViewerMoves
  <2> QED BY <1>1, <2>1, <2>2 DEF CodesAreNew
<1>7. ASSUME NEW r \in Requests, req[r].step = "commit", Effect(r) \/ UNCHANGED invites,
             NEW a, Moved(r, "done", req[r].code, req[r].adds, a)
      PROVE  CodesAreNew'
  <2>1. /\ req'[r].step = "done" /\ req'[r].code = req[r].code
        /\ \A q \in Requests \ {r} : req'[q] = req[q]
    BY <1>7
  <2>2. ASSUME NEW q \in Requests \ {r}, req[q].op = "invite", req[q].step = "commit"
        PROVE  invites'[req[q].code] = invites[req[q].code]
    <3>1. req[q].code \in Codes /\ req[r].code # req[q].code
      BY <1>1, <2>2 DEF CodesAreNew
    <3> QED BY <1>7, <3>1, EffectInvites
  <2> QED BY <1>1, <2>1, <2>2 DEF CodesAreNew
<1>8. ASSUME NEW r \in Requests, Failing(r) PROVE CodesAreNew'
  <2>1. UNCHANGED invites
    BY <1>8 DEF Failing, HostFails, StatementFails
  <2>2. /\ req'[r].step = "done" /\ req'[r].code = req[r].code
        /\ \A q \in Requests \ {r} : req'[q] = req[q]
    BY <1>1, <1>8, FailingMoves
  <2> QED BY <1>1, <2>1, <2>2 DEF CodesAreNew
<1>9. ASSUME NEW u \in Users,
             RevokeAccess(u) \/ \E role \in Roles : UpdateUserProjectRole(u, role)
      PROVE CodesAreNew'
  BY <1>1, <1>9 DEF CodesAreNew, RevokeAccess, UpdateUserProjectRole
<1>10. ASSUME NEW c \in Codes, Expire(c) PROVE CodesAreNew'
  <2>1. \A d \in Codes : invites[d] = NoInvite => invites'[d] = NoInvite
    BY <1>1, <1>2, <1>10 DEF Expire, Typed
  <2> QED BY <1>1, <1>10, <2>1 DEF CodesAreNew, Expire
<1>11. CASE Restart
  <2>1. UNCHANGED invites
    BY <1>11 DEF Restart
  <2>2. \A q \in Requests : req'[q].step # "commit"
    BY <1>1, <1>11, RestartMoves
  <2> QED BY <2>2 DEF CodesAreNew
<1>12. CASE UNCHANGED vars
  BY <1>1, <1>12 DEF CodesAreNew, vars
<1>13. ASSUME NEW r \in Requests, Commit(r) \/ CommitFails(r) PROVE CodesAreNew'
  BY <1>1, <1>7, <1>13, CommitMoves, CommitFailsMoves DEF Commit, CommitFails
<1> QED
  BY <1>3, <1>4, <1>5, <1>6, <1>8, <1>9, <1>10, <1>11, <1>12, <1>13
  DEF Next, RequestStep, Advancing, Failing

(* What a step keeps of an invite that there is. *)
LEMMA NextInvites ==
    ASSUME TypeInv, [Next]_vars
    PROVE  \A c \in Codes : invites[c].by # None => invites'[c].by = invites[c].by
<1>1. Typed
  BY DEF TypeInv
<1>2. ASSUME NEW r \in Requests, Commit(r) \/ CommitFails(r)
      PROVE \A c \in Codes : invites[c].by # None => invites'[c].by = invites[c].by
  BY <1>2, EffectInvites DEF Commit, CommitFails
<1>3. ASSUME NEW d \in Codes, Expire(d)
      PROVE \A c \in Codes : invites'[c].by = invites[c].by
  BY <1>1, <1>3 DEF Expire, Typed
<1>4. ASSUME NEW r \in Requests,
             \/ \E u \in Users : Begin(r, u)
             \/ Advancing(r) \/ Failing(r) \/ AddViewer(r)
             \/ \E c \in Codes : InsertInvite(r, c)
      PROVE UNCHANGED invites
  BY <1>4 DEF Begin, Advancing, Failing, InsertProject, CreateRepo, AddWebhook, AddWorkflow,
              CheckOwner, InsertInvite, GetInvite, AddViewer, MarkInviteUsed, HostFails, StatementFails
<1>5. ASSUME NEW u \in Users,
             RevokeAccess(u) \/ \E role \in Roles : UpdateUserProjectRole(u, role)
      PROVE UNCHANGED invites
  BY <1>5 DEF RevokeAccess, UpdateUserProjectRole
<1>6. CASE Restart \/ UNCHANGED vars
  BY <1>6 DEF Restart, vars
<1> QED
  BY <1>2, <1>3, <1>4, <1>5, <1>6 DEF Next, RequestStep, Advancing, Failing

(* An invite stays, as does who made it. *)
LEMMA NextInvited ==
    ASSUME TypeInv, [Next]_vars
    PROVE  JoinsAreInvited'
<1> USE DEF Moved
<1> DEFINE Joins(q) ==
       req'[q].op = "join" =>
          /\ req'[q].code \in Codes
          /\ invites'[req'[q].code].by # None
          /\ req'[q].step \in {"add", "mark", "commit"} =>
                invites'[req'[q].code].by # req'[q].user
<1>1. Typed /\ StepsFollowOp /\ CodesAreNew /\ JoinsAreInvited
  BY DEF TypeInv
<1>2. \A c \in Codes : invites[c].by # None => invites'[c].by = invites[c].by
  BY NextInvites
<1>3. ASSUME NEW q \in Requests, req'[q].op = req[q].op, req'[q].code = req[q].code,
             req'[q].user = req[q].user,
             req'[q].step \in {"add", "mark", "commit"} => req[q].step \in {"add", "mark", "commit"}
      PROVE  Joins(q)
  BY <1>1, <1>2, <1>3 DEF JoinsAreInvited
<1> HIDE DEF Joins
<1>4. ASSUME NEW q \in Requests, req'[q] = req[q] PROVE Joins(q)
  BY <1>3, <1>4
<1>5. ASSUME NEW r \in Requests, NEW u \in Users, Begin(r, u)
      PROVE  \A q \in Requests : Joins(q)
  BY <1>1, <1>2, <1>4, <1>5, BeginMoves DEF Joins
<1>6. ASSUME NEW r \in Requests, Advancing(r) PROVE \A q \in Requests : Joins(q)
  <2>1. /\ \A q \in Requests \ {r} : req'[q] = req[q]
        /\ req'[r].op = req[r].op /\ req'[r].code = req[r].code /\ req'[r].user = req[r].user
    BY <1>1, <1>6, AdvancingMoves
  <2>2. CASE req[r].step = "get"
    <3>1. GetInvite(r)
      BY <1>6, <2>2 DEF Advancing, InsertProject, CreateRepo, AddWebhook, AddWorkflow, CheckOwner,
                        MarkInviteUsed
    <3>2. CASE ~Own(r)
      BY <1>1, <1>2, <1>4, <2>1, <3>2 DEF JoinsAreInvited, Own, Joins
    <3>3. CASE Own(r)
      <4>1. req'[r].step = "done"
        BY <1>1, <3>1, <3>3, AnswerMoves DEF GetInvite
      <4> QED BY <1>3, <1>4, <2>1, <4>1
    <3> QED BY <3>2, <3>3
  <2>3. CASE req[r].step # "get"
    <3>1. \/ req'[r].step \notin {"add", "mark", "commit"}
          \/ req[r].step \in {"add", "mark", "commit"}
          \/ req[r].op # "join"
      BY <1>1, <1>6, <2>3, AdvancingMoves DEF Order, StepsFollowOp, Whole
    <3>2. CASE req[r].op # "join"
      BY <1>4, <2>1, <3>2 DEF Joins
    <3> QED BY <1>3, <1>4, <2>1, <3>1, <3>2
  <2> QED BY <2>2, <2>3
<1>7. ASSUME NEW r \in Requests, NEW c \in Codes, InsertInvite(r, c)
      PROVE  \A q \in Requests : Joins(q)
  <2>1. \A q \in Requests \ {r} : req'[q] = req[q]
    BY <1>1, <1>7, InsertInviteMoves
  <2>2. req[r].op = "invite" /\ req'[r].op = "invite"
    BY <1>1, <1>7, InsertInviteMoves DEF InsertInvite, StepsFollowOp
  <2> QED BY <1>4, <2>1, <2>2 DEF Joins
<1>8. ASSUME NEW r \in Requests, AddViewer(r) PROVE \A q \in Requests : Joins(q)
  <2>1. /\ \A q \in Requests \ {r} : req'[q] = req[q]
        /\ req'[r].op = req[r].op /\ req'[r].code = req[r].code /\ req'[r].user = req[r].user
    BY <1>1, <1>8, AddViewerMoves
  <2>2. req[r].step = "add"
    BY <1>8 DEF AddViewer
  <2> QED BY <1>3, <1>4, <2>1, <2>2
<1>9. ASSUME NEW r \in Requests, Commit(r) \/ CommitFails(r) \/ Failing(r)
      PROVE  \A q \in Requests : Joins(q)
  <2>1. /\ \A q \in Requests \ {r} : req'[q] = req[q]
        /\ req'[r].op = req[r].op /\ req'[r].code = req[r].code /\ req'[r].user = req[r].user
        /\ req'[r].step = "done"
    BY <1>1, <1>9, CommitMoves, CommitFailsMoves, FailingMoves
  <2> QED BY <1>3, <1>4, <2>1
<1>10. ASSUME UNCHANGED req PROVE \A q \in Requests : Joins(q)
  BY <1>4, <1>10
<1>11. ASSUME Restart PROVE \A q \in Requests : Joins(q)
  <2>1. \A q \in Requests :
           /\ req'[q].op = req[q].op /\ req'[q].code = req[q].code /\ req'[q].user = req[q].user
           /\ req'[q].step \in {"waiting", "done"}
    BY <1>1, <1>11, RestartMoves
  <2> QED BY <1>3, <2>1
<1>12. \A q \in Requests : Joins(q)
  BY <1>5, <1>6, <1>7, <1>8, <1>9, <1>10, <1>11
  DEF Next, RequestStep, Advancing, Failing, RevokeAccess, UpdateUserProjectRole, Expire, vars
<1> QED
  BY <1>12 DEF JoinsAreInvited, Joins

------------------------------------------------------------------------------
(* A step that lets nobody have an invite, and uses none. *)
LEMMA QuietLocked ==
    ASSUME InviteIsLocked,
           \A q \in Requests : Holds(req'[q]) => Holds(req[q]) /\ req'[q].code = req[q].code,
           \A q \in Requests : Joined(req'[q]) => Joined(req[q]) /\ req'[q].code = req[q].code,
           \A q \in Requests : req'[q].op = "join" => (req'[q].code \in Used' <=> req'[q].code \in Used)
    PROVE  InviteIsLocked'
BY DEF InviteIsLocked, Holds, Joined

(* Most steps of a handler are of that kind. *)
LEMMA MovedLocked ==
    ASSUME TypeInv, InviteIsLocked, UNCHANGED invites,
           NEW r \in Requests, NEW step, NEW code, NEW adds, NEW a, Moved(r, step, code, adds, a),
           req[r].op = "join" =>
              /\ code = req[r].code
              /\ step \in {"add", "mark", "commit"} => req[r].step \in {"add", "mark", "commit"},
           a = "ok" => req[r].answer = "ok" \/ req[r].op # "join"
    PROVE  InviteIsLocked'
<1>1. \A q \in Requests \ {r} : req'[q] = req[q]
  BY DEF Moved
<1>2. /\ Holds(req'[r]) => Holds(req[r]) /\ req'[r].code = req[r].code
      /\ Joined(req'[r]) => Joined(req[r]) /\ req'[r].code = req[r].code
  BY DEF Holds, Joined, Moved
<1>3. Used' = Used
  BY DEF Used
<1> QED
  BY <1>1, <1>2, <1>3, QuietLocked

(* Who uses an invite has it, and is the only one who has used it. *)
LEMMA EffectLocked ==
    ASSUME TypeInv, InviteIsLocked, NEW r \in Requests, req[r].step = "commit", Effect(r),
           NEW a \in {"ok", "failed"}, Moved(r, "done", req[r].code, req[r].adds, a)
    PROVE  InviteIsLocked'
<1>1. Typed /\ StepsFollowOp /\ CodesAreNew /\ JoinsAreInvited
  BY DEF TypeInv
<1>2. /\ \A q \in Requests \ {r} : req'[q] = req[q]
      /\ req'[r].op = req[r].op /\ req'[r].step = "done" /\ req'[r].code = req[r].code
      /\ req'[r].answer = a
  BY DEF Moved
<1>3. CASE req[r].op = "join"
  <2>1. Holds(req[r]) /\ ~Holds(req'[r])
    BY <1>2, <1>3 DEF Holds
  <2>2. /\ req[r].code \in Codes /\ req[r].code \in Used'
        /\ \A c \in Codes \ {req[r].code} : c \in Used' <=> c \in Used
    BY <1>3, EffectInvites DEF Used
  <2>3. \A q \in Requests : req[q].op = "join" => req[q].code \in Codes
    BY <1>1 DEF JoinsAreInvited
  <2>4. \A q \in Requests : req[q].code = req[r].code => ~Joined(req[q])
    BY <2>1 DEF InviteIsLocked
  <2>5. \A q \in Requests : Holds(req'[q]) => q # r /\ Holds(req[q]) /\ req[q].code # req[r].code
    BY <1>2, <2>1 DEF InviteIsLocked
  <2>6. \A q \in Requests : Joined(req'[q]) => q = r \/ (Joined(req[q]) /\ req[q].code # req[r].code)
    BY <1>2, <2>4
  <2>7. \A q \in Requests : req'[q].code = req[q].code
    BY <1>2
  <2>8. \A q \in Requests : Holds(req'[q]) => req[q].code \notin Used'
    BY <2>2, <2>3, <2>5 DEF InviteIsLocked, Holds
  <2>9. \A q \in Requests : Joined(req'[q]) => req[q].code \in Used'
    BY <2>2, <2>3, <2>6 DEF InviteIsLocked, Joined
  <2> QED BY <2>5, <2>6, <2>7, <2>8, <2>9 DEF InviteIsLocked
<1>4. CASE req[r].op # "join"
  <2>1. ~Holds(req'[r]) /\ ~Joined(req'[r])
    BY <1>2, <1>4 DEF Holds, Joined
  <2>2. req[r].op = "invite" \/ req[r].op = "create"
    BY <1>1, <1>4 DEF StepsFollowOp, Typed, Requested
  <2>3. ASSUME NEW q \in Requests, req'[q].op = "join"
        PROVE  invites'[req'[q].code] = invites[req'[q].code]
    <3>1. q # r /\ req'[q] = req[q] /\ req[q].code \in Codes
      BY <1>1, <1>2, <1>4, <2>3 DEF JoinsAreInvited
    <3>2. CASE req[r].op = "invite"
      <4>1. req[q].code # req[r].code
        BY <1>1, <3>1, <3>2 DEF CodesAreNew
      <4> QED BY <3>1, <4>1, EffectInvites
    <3>3. CASE req[r].op = "create"
      BY <3>1, <3>3, EffectInvites
    <3> QED BY <2>2, <3>2, <3>3
  <2>4. \A q \in Requests : req'[q].op = "join" => (req'[q].code \in Used' <=> req'[q].code \in Used)
    BY <2>3 DEF Used
  <2>5. \A q \in Requests : Holds(req'[q]) => Holds(req[q]) /\ req'[q].code = req[q].code
    BY <1>2, <2>1
  <2>6. \A q \in Requests : Joined(req'[q]) => Joined(req[q]) /\ req'[q].code = req[q].code
    BY <1>2, <2>1
  <2> QED BY <2>4, <2>5, <2>6, QuietLocked
<1> QED
  BY <1>3, <1>4

(* An invite is got by one at a time, which no one has used. *)
LEMMA GetInviteLocked ==
    ASSUME TypeInv, InviteIsLocked, NEW r \in Requests, GetInvite(r)
    PROVE  InviteIsLocked'
<1>1. Typed /\ StepsFollowOp
  BY DEF TypeInv
<1>2. /\ req[r].step = "get" /\ Joining(req[r].code) = {} /\ UNCHANGED invites
      /\ req[r].op = "join"
  BY <1>1 DEF GetInvite, StepsFollowOp
<1>3. CASE Answer(r, "failed")
  <2>1. Moved(r, "done", req[r].code, req[r].adds, "failed")
    BY <1>1, <1>3, AnswerMoves
  <2> QED BY <1>2, <2>1, MovedLocked
<1>4. CASE Usable(r) /\ Goto(r, "add")
  <2>1. /\ \A q \in Requests \ {r} : req'[q] = req[q]
        /\ req'[r].op = req[r].op /\ req'[r].step = "add" /\ req'[r].code = req[r].code
        /\ req'[r].answer = req[r].answer
    BY <1>1, <1>4, GotoMoves DEF Moved, Steps
  <2>2. req[r].code \notin Used /\ Used' = Used
    BY <1>2, <1>4 DEF Usable, Used
  <2>3. \A q \in Requests : Holds(req[q]) => req[q].code # req[r].code
    BY <1>2 DEF Joining, Holds
  <2>4. \A q \in Requests : req'[q].code = req[q].code /\ (Joined(req'[q]) <=> Joined(req[q]))
    BY <2>1 DEF Joined
  <2>5. \A q \in Requests : Holds(req'[q]) => q = r \/ (Holds(req[q]) /\ req[q].code # req[r].code)
    BY <2>1, <2>3
  <2> QED BY <2>2, <2>4, <2>5 DEF InviteIsLocked
<1> QED
  BY <1>3, <1>4 DEF GetInvite

(* Every step keeps invites locked for those who have them. *)
LEMMA NextLocked ==
    ASSUME TypeInv, InviteIsLocked, [Next]_vars
    PROVE  InviteIsLocked'
<1>1. Typed /\ StepsFollowOp /\ JoinsAreInvited
  BY DEF TypeInv
<1>2. ASSUME NEW r \in Requests, NEW u \in Users, Begin(r, u) PROVE InviteIsLocked'
  <2>1. /\ \A q \in Requests \ {r} : req'[q] = req[q]
        /\ ~Holds(req'[r]) /\ ~Joined(req'[r]) /\ UNCHANGED invites
    BY <1>1, <1>2, BeginMoves DEF Begin, Holds, Joined
  <2>2. Used' = Used
    BY <2>1 DEF Used
  <2> QED BY <2>1, <2>2, QuietLocked
<1>3. ASSUME NEW r \in Requests, Advancing(r), ~GetInvite(r) PROVE InviteIsLocked'
  <2>1. UNCHANGED invites
    BY <1>3 DEF Advancing, InsertProject, CreateRepo, AddWebhook, AddWorkflow, CheckOwner, MarkInviteUsed
  <2>2. req[r].step # "get" /\ req[r].answer = None
    BY <1>1, <1>3 DEF StepsFollowOp, Advancing, InsertProject, CreateRepo, AddWebhook, AddWorkflow,
                      CheckOwner, MarkInviteUsed
  <2>3. CASE Moved(r, "done", req[r].code, req[r].adds, "failed")
    BY <2>1, <2>3, MovedLocked
  <2>4. ASSUME NEW step, <<req[r].step, step>> \in Order,
               Moved(r, step, req[r].code, req[r].adds, req[r].answer)
        PROVE  InviteIsLocked'
    <3>1. (req[r].op = "join" /\ step \in {"add", "mark", "commit"}) =>
             req[r].step \in {"add", "mark", "commit"}
      BY <1>1, <2>2, <2>4 DEF Order, StepsFollowOp, Whole
    <3> QED BY <2>1, <2>4, <3>1, MovedLocked
  <2> QED BY <1>1, <1>3, <2>3, <2>4, AdvancingMoves
<1>4. ASSUME NEW r \in Requests, NEW c \in Codes, InsertInvite(r, c) PROVE InviteIsLocked'
  <2>1. UNCHANGED invites /\ req[r].op = "invite"
    BY <1>1, <1>4 DEF InsertInvite, StepsFollowOp
  <2> QED BY <1>1, <1>4, <2>1, InsertInviteMoves, MovedLocked
<1>5. ASSUME NEW r \in Requests, AddViewer(r) PROVE InviteIsLocked'
  <2>1. UNCHANGED invites /\ req[r].step = "add"
    BY <1>5 DEF AddViewer
  <2>2. Moved(r, "mark", req[r].code, access[req[r].user] = None, req[r].answer)
    BY <1>1, <1>5, AddViewerMoves
  <2> QED BY <2>1, <2>2, MovedLocked
<1>6. ASSUME NEW r \in Requests, Failing(r) PROVE InviteIsLocked'
  <2>1. UNCHANGED invites
    BY <1>6 DEF Failing, HostFails, StatementFails
  <2> QED BY <1>1, <1>6, <2>1, FailingMoves, MovedLocked
<1>7. ASSUME NEW r \in Requests, Commit(r) PROVE InviteIsLocked'
  BY <1>1, <1>7, CommitMoves, EffectLocked DEF Commit
<1>8. ASSUME NEW r \in Requests, CommitFails(r) PROVE InviteIsLocked'
  <2>1. Moved(r, "done", req[r].code, req[r].adds, "failed") /\ req[r].step = "commit"
    BY <1>1, <1>8, CommitFailsMoves DEF CommitFails
  <2>2. CASE Effect(r)
    BY <2>1, <2>2, EffectLocked
  <2>3. CASE UNCHANGED invites
    BY <2>1, <2>3, MovedLocked
  <2> QED BY <1>8, <2>2, <2>3 DEF CommitFails
<1>9. ASSUME UNCHANGED req, Used' = Used PROVE InviteIsLocked'
  BY <1>1, <1>9, QuietLocked DEF JoinsAreInvited
<1>10. ASSUME NEW u \in Users,
              RevokeAccess(u) \/ \E role \in Roles : UpdateUserProjectRole(u, role)
       PROVE InviteIsLocked'
  BY <1>9, <1>10 DEF RevokeAccess, UpdateUserProjectRole, Used
<1>11. ASSUME NEW c \in Codes, Expire(c) PROVE InviteIsLocked'
  <2>1. Used' = Used
    BY <1>1, <1>11 DEF Expire, Used, Typed
  <2> QED BY <1>9, <1>11, <2>1 DEF Expire
<1>12. CASE Restart
  <2>1. UNCHANGED invites
    BY <1>12 DEF Restart
  <2>2. Used' = Used
    BY <2>1 DEF Used
  <2>3. \A q \in Requests :
           /\ req'[q].op = req[q].op /\ req'[q].code = req[q].code /\ req'[q].answer = req[q].answer
           /\ req'[q].step \in {"waiting", "done"}
    BY <1>1, <1>12, RestartMoves
  <2> QED BY <2>2, <2>3, QuietLocked DEF Holds, Joined
<1>13. CASE UNCHANGED vars
  BY <1>9, <1>13 DEF vars, Used
<1> QED
  BY <1>2, <1>3, <1>4, <1>5, <1>6, <1>7, <1>8, <1>10, <1>11, <1>12, <1>13, GetInviteLocked
  DEF Next, RequestStep, Advancing, Failing

------------------------------------------------------------------------------
(* Nothing takes away what the code host has; and the project is there when *)
(* a transaction that went through all of it has been committed.            *)
LEMMA NextHost ==
    ASSUME TypeInv, HostFollows, [Next]_vars
    PROVE  HostFollows'
<1>1. Typed /\ StepsFollowOp
  BY DEF TypeInv
<1>2. ASSUME host \subseteq host', host' \subseteq Whole, UNCHANGED project,
             \A q \in Requests :
                \/ req'[q].step = req[q].step /\ req'[q].op = req[q].op
                \/ req'[q].step \notin {"hook", "workflow"} /\ req'[q].op # "create"
                \/ req'[q].step \notin {"hook", "workflow", "commit"}
      PROVE  HostFollows'
  BY <1>2 DEF HostFollows
<1>3. host \subseteq Whole
  BY <1>1 DEF Typed
<1>4. ASSUME NEW r \in Requests, NEW u \in Users, Begin(r, u) PROVE HostFollows'
  <2>1. UNCHANGED <<host, project>>
    BY <1>4 DEF Begin
  <2>2. \A q \in Requests \ {r} : req'[q] = req[q]
    BY <1>1, <1>4, BeginMoves
  <2>3. req'[r].step \notin {"hook", "workflow", "commit"}
    BY <1>1, <1>4, BeginMoves
  <2> QED BY <1>2, <1>3, <2>1, <2>2, <2>3
<1>5. ASSUME NEW r \in Requests, Advancing(r) PROVE HostFollows'
  <2>1. UNCHANGED project
    BY <1>5 DEF Advancing, InsertProject, CreateRepo, AddWebhook, AddWorkflow, CheckOwner,
                GetInvite, MarkInviteUsed
  <2>2. host \subseteq host' /\ host' \subseteq Whole
    BY <1>3, <1>5 DEF Advancing, InsertProject, CreateRepo, AddWebhook, AddWorkflow, CheckOwner,
                      GetInvite, MarkInviteUsed, Whole
  <2>3. \A q \in Requests \ {r} : req'[q] = req[q]
    BY <1>1, <1>5, AdvancingMoves DEF Moved
  <2>4. CASE Moved(r, "done", req[r].code, req[r].adds, "failed")
    BY <1>2, <2>1, <2>2, <2>3, <2>4 DEF Moved
  <2>5. ASSUME NEW step, <<req[r].step, step>> \in Order,
               Moved(r, step, req[r].code, req[r].adds, req[r].answer)
        PROVE  HostFollows'
    <3>1. req'[r].step = step /\ req'[r].op = req[r].op
      BY <2>5 DEF Moved
    <3>2. CASE req[r].step \in {"insert", "role", "get"}
      <4>1. step \notin {"hook", "workflow", "commit"}
        BY <2>5, <3>2 DEF Order
      <4> QED BY <1>2, <2>1, <2>2, <2>3, <3>1, <4>1
    <3>3. CASE req[r].step = "mark"
      <4>1. step = "commit" /\ req[r].op = "join"
        BY <1>1, <2>5, <3>3 DEF Order, StepsFollowOp
      <4> QED BY <1>2, <2>1, <2>2, <2>3, <3>1, <4>1
    <3>4. CASE req[r].step = "repo"
      <4>1. step = "hook" /\ host' = host \cup {"repo"}
        BY <1>5, <2>5, <3>4 DEF Order, Advancing, InsertProject, CreateRepo, AddWebhook, AddWorkflow,
                                CheckOwner, GetInvite, MarkInviteUsed
      <4> QED BY <2>1, <2>2, <2>3, <3>1, <4>1 DEF HostFollows
    <3>5. CASE req[r].step = "hook"
      <4>1. step = "workflow" /\ host' = host \cup {"hook"}
        BY <1>5, <2>5, <3>5 DEF Order, Advancing, InsertProject, CreateRepo, AddWebhook, AddWorkflow,
                                CheckOwner, GetInvite, MarkInviteUsed
      <4> QED BY <2>1, <2>2, <2>3, <3>1, <3>5, <4>1 DEF HostFollows
    <3>6. CASE req[r].step = "workflow"
      <4>1. step = "commit" /\ host' = host \cup {"workflow"}
        BY <1>5, <2>5, <3>6 DEF Order, Advancing, InsertProject, CreateRepo, AddWebhook, AddWorkflow,
                                CheckOwner, GetInvite, MarkInviteUsed
      <4>2. host' = Whole
        BY <1>3, <3>6, <4>1 DEF HostFollows, Whole
      <4> QED BY <2>1, <2>2, <2>3, <3>1, <4>1, <4>2 DEF HostFollows
    <3> QED BY <2>5, <3>2, <3>3, <3>4, <3>5, <3>6 DEF Order
  <2> QED BY <1>1, <1>5, <2>4, <2>5, AdvancingMoves
<1>6. ASSUME NEW r \in Requests, NEW c \in Codes, InsertInvite(r, c) PROVE HostFollows'
  <2>1. UNCHANGED <<host, project>> /\ req[r].op = "invite"
    BY <1>1, <1>6 DEF InsertInvite, StepsFollowOp
  <2>2. \A q \in Requests \ {r} : req'[q] = req[q]
    BY <1>1, <1>6, InsertInviteMoves DEF Moved
  <2>3. req'[r].op = "invite" /\ req'[r].step \in {"done", "commit"}
    BY <1>1, <1>6, <2>1, InsertInviteMoves DEF Moved
  <2> QED BY <1>2, <1>3, <2>1, <2>2, <2>3
<1>7. ASSUME NEW r \in Requests, AddViewer(r) PROVE HostFollows'
  <2>1. UNCHANGED <<host, project>>
    BY <1>7 DEF AddViewer
  <2>2. req'[r].step = "mark" /\ \A q \in Requests \ {r} : req'[q] = req[q]
    BY <1>1, <1>7, AddViewerMoves DEF Moved
  <2> QED BY <1>2, <1>3, <2>1, <2>2
<1>8. ASSUME NEW r \in Requests, NEW a, Moved(r, "done", req[r].code, req[r].adds, a),
             req[r].step = "commit", UNCHANGED host, Effect(r) \/ UNCHANGED project
      PROVE  HostFollows'
  <2>1. req'[r].step = "done" /\ \A q \in Requests \ {r} : req'[q] = req[q]
    BY <1>8 DEF Moved
  <2>2. CASE UNCHANGED project
    BY <1>2, <1>3, <1>8, <2>1, <2>2
  <2>3. CASE req[r].op = "create"
    BY <1>8, <2>1, <2>3 DEF HostFollows
  <2> QED BY <1>8, <2>2, <2>3 DEF Effect
<1>9. ASSUME NEW r \in Requests, Commit(r) \/ CommitFails(r) PROVE HostFollows'
  BY <1>1, <1>8, <1>9, CommitMoves, CommitFailsMoves DEF Commit, CommitFails
<1>10. ASSUME NEW r \in Requests, Failing(r) PROVE HostFollows'
  <2>1. UNCHANGED project
    BY <1>10 DEF Failing, HostFails, StatementFails
  <2>2. host \subseteq host' /\ host' \subseteq Whole
    BY <1>3, <1>10 DEF Failing, HostFails, StatementFails
  <2>3. req'[r].step = "done" /\ \A q \in Requests \ {r} : req'[q] = req[q]
    BY <1>1, <1>10, FailingMoves DEF Moved
  <2> QED BY <1>2, <2>1, <2>2, <2>3
<1>11. ASSUME UNCHANGED <<host, project, req>> PROVE HostFollows'
  BY <1>11 DEF HostFollows
<1>12. CASE Restart
  <2>1. UNCHANGED <<host, project>>
    BY <1>12 DEF Restart
  <2>2. \A q \in Requests : req'[q].step \in {"waiting", "done"}
    BY <1>1, <1>12, RestartMoves
  <2> QED BY <1>2, <1>3, <2>1, <2>2
<1> QED
  BY <1>4, <1>5, <1>6, <1>7, <1>9, <1>10, <1>11, <1>12
  DEF Next, RequestStep, Advancing, Failing, RevokeAccess, UpdateUserProjectRole, Expire, vars

------------------------------------------------------------------------------
(* A member stays one, unless access is revoked. *)
LEMMA NextAccess ==
    ASSUME TypeInv, [Next]_vars
    PROVE  \A u \in Users : (access[u] # None \/ u \in revoked) =>
                               (access'[u] # None \/ u \in revoked')
<1> DEFINE Kept == \A u \in Users : (access[u] # None \/ u \in revoked) =>
                                       (access'[u] # None \/ u \in revoked')
<1>1. Typed
  BY DEF TypeInv
<1>2. ASSUME NEW r \in Requests, Effect(r) \/ UNCHANGED access, UNCHANGED revoked PROVE Kept
  <2>1. CASE access' = [access EXCEPT ![req[r].user] = "owner"]
    BY <1>1, <1>2, <2>1 DEF Typed
  <2>2. CASE access' = [access EXCEPT ![req[r].user] = "viewer"]
    BY <1>1, <1>2, <2>2 DEF Typed
  <2>3. CASE UNCHANGED access
    BY <1>2, <2>3
  <2> QED BY <1>2, <2>1, <2>2, <2>3 DEF Effect
<1>3. ASSUME NEW u \in Users, RevokeAccess(u) PROVE Kept
  BY <1>1, <1>3 DEF RevokeAccess, Typed
<1>4. ASSUME NEW u \in Users, NEW role \in Roles, UpdateUserProjectRole(u, role) PROVE Kept
  BY <1>1, <1>4 DEF UpdateUserProjectRole, Typed
<1>5. ASSUME NEW r \in Requests,
             \/ \E u \in Users : Begin(r, u)
             \/ Advancing(r) \/ Failing(r) \/ AddViewer(r)
             \/ \E c \in Codes : InsertInvite(r, c)
      PROVE UNCHANGED <<access, revoked>>
  BY <1>5 DEF Begin, Advancing, Failing, InsertProject, CreateRepo, AddWebhook, AddWorkflow,
              CheckOwner, InsertInvite, GetInvite, AddViewer, MarkInviteUsed, HostFails, StatementFails
<1>6. ASSUME Restart \/ UNCHANGED vars \/ \E c \in Codes : Expire(c)
      PROVE UNCHANGED <<access, revoked>>
  BY <1>6 DEF Restart, vars, Expire
<1>7. ASSUME UNCHANGED <<access, revoked>> PROVE Kept
  BY <1>7
<1>8. ASSUME NEW r \in Requests, Commit(r) \/ CommitFails(r) PROVE Kept
  BY <1>2, <1>8 DEF Commit, CommitFails
<1> HIDE DEF Kept
<1>9. Kept
  BY <1>3, <1>4, <1>5, <1>6, <1>7, <1>8 DEF Next, RequestStep, Advancing, Failing
<1> QED
  BY <1>9 DEF Kept

(* Who joins is a member when told so. *)
LEMMA NextMembers ==
    ASSUME TypeInv, MembersAreKept, [Next]_vars
    PROVE  MembersAreKept'
<1> DEFINE Kept(u) == access[u] # None \/ u \in revoked
           Settled(q) == /\ q.op = "join"
                         /\ q.answer = "ok" \/ (q.step \in {"mark", "commit"} /\ ~q.adds)
<1>1. Typed /\ StepsFollowOp
  BY DEF TypeInv
<1>2. \A q \in Requests : Settled(req[q]) => Kept(req[q].user)
  BY DEF MembersAreKept
<1>3. /\ \A u \in Users : Kept(u) => Kept(u)'
      /\ \A q \in Requests : Settled(req[q]) => req[q].user \in Users
  <2>1. \A u \in Users : Kept(u) => Kept(u)'
    BY NextAccess
  <2>2. \A q \in Requests : Settled(req[q]) => req[q].user \in Users
    BY <1>1 DEF StepsFollowOp, Typed, Requested
  <2> QED BY <2>1, <2>2
<1>4. SUFFICES ASSUME NEW q \in Requests, Settled(req'[q])
               PROVE  access'[req'[q].user] # None \/ req'[q].user \in revoked'
  BY DEF MembersAreKept
<1>5. ASSUME Settled(req[q]), req'[q].user = req[q].user
      PROVE  access'[req'[q].user] # None \/ req'[q].user \in revoked'
  BY <1>2, <1>3, <1>5
<1>6. ASSUME req'[q] = req[q] PROVE access'[req'[q].user] # None \/ req'[q].user \in revoked'
  BY <1>4, <1>5, <1>6
<1>7. ASSUME NEW r \in Requests, NEW u \in Users, Begin(r, u)
      PROVE  access'[req'[q].user] # None \/ req'[q].user \in revoked'
  <2>1. q # r
    BY <1>1, <1>4, <1>7, BeginMoves
  <2> QED BY <1>1, <1>6, <1>7, <2>1, BeginMoves
<1>8. ASSUME NEW r \in Requests, Advancing(r) \/ Failing(r) \/ \E c \in Codes : InsertInvite(r, c)
      PROVE  access'[req'[q].user] # None \/ req'[q].user \in revoked'
  <2>1. CASE q # r
    <3>1. CASE Advancing(r)
      BY <1>1, <1>6, <2>1, <3>1, AdvancingMoves DEF Moved
    <3>2. CASE Failing(r)
      BY <1>1, <1>6, <2>1, <3>2, FailingMoves DEF Moved
    <3>3. CASE \E c \in Codes : InsertInvite(r, c)
      BY <1>1, <1>6, <2>1, <3>3, InsertInviteMoves DEF Moved
    <3> QED BY <1>8, <3>1, <3>2, <3>3
  <2>2. CASE q = r
    <3>1. req'[q].op = req[q].op /\ req'[q].user = req[q].user /\ req'[q].adds = req[q].adds
      BY <1>1, <1>8, <2>2, AdvancingMoves, FailingMoves, InsertInviteMoves DEF Moved
    <3>2. req[q].answer = None
      BY <1>1, <1>8, <2>2
      DEF StepsFollowOp, Advancing, Failing, InsertProject, CreateRepo, AddWebhook, AddWorkflow,
          CheckOwner, InsertInvite, GetInvite, MarkInviteUsed, HostFails, StatementFails, Whole
    <3>3. CASE Advancing(r)
      <4>1. /\ req'[q].answer = "ok" => req[q].answer = "ok"
            /\ req'[q].step \in {"mark", "commit"} => req[q].step = "mark" \/ req[q].op # "join"
        BY <1>1, <2>2, <3>3, AdvancingMoves DEF Moved, Order, StepsFollowOp, Whole
      <4>2. Settled(req[q])
        BY <1>4, <3>1, <3>2, <4>1
      <4> QED BY <1>5, <3>1, <4>2
    <3>4. CASE Failing(r)
      BY <1>1, <1>4, <2>2, <3>4, FailingMoves DEF Moved
    <3>5. CASE \E c \in Codes : InsertInvite(r, c)
      <4>1. req[r].op = "invite"
        BY <1>1, <3>5 DEF InsertInvite, StepsFollowOp
      <4> QED BY <1>4, <2>2, <3>1, <4>1
    <3> QED BY <1>8, <3>3, <3>4, <3>5
  <2> QED BY <2>1, <2>2
<1>9. ASSUME NEW r \in Requests, AddViewer(r)
      PROVE  access'[req'[q].user] # None \/ req'[q].user \in revoked'
  <2>1. CASE q # r
    BY <1>1, <1>6, <1>9, <2>1, AddViewerMoves DEF Moved
  <2>2. CASE q = r
    <3>1. /\ req'[q].adds = (access[req[q].user] = None) /\ req'[q].user = req[q].user
          /\ req'[q].answer = req[q].answer /\ UNCHANGED access
      BY <1>1, <1>9, <2>2, AddViewerMoves DEF Moved, AddViewer
    <3>2. req[q].answer = None
      BY <1>1, <1>9, <2>2 DEF AddViewer, StepsFollowOp
    <3> QED BY <1>4, <3>1, <3>2
  <2> QED BY <2>1, <2>2
<1>10. ASSUME NEW r \in Requests, CommitFails(r)
       PROVE  access'[req'[q].user] # None \/ req'[q].user \in revoked'
  <2>1. q # r
    BY <1>1, <1>4, <1>10, CommitFailsMoves DEF Moved
  <2> QED BY <1>1, <1>6, <1>10, <2>1, CommitFailsMoves DEF Moved
<1>11. ASSUME NEW r \in Requests, Commit(r)
       PROVE  access'[req'[q].user] # None \/ req'[q].user \in revoked'
  <2>1. CASE q # r
    BY <1>1, <1>6, <1>11, <2>1, CommitMoves DEF Moved
  <2>2. CASE q = r
    <3>1. /\ req'[q].op = req[q].op /\ req'[q].user = req[q].user /\ req[q].user \in Users
          /\ req[q].step = "commit" /\ req[q].op = "join"
      BY <1>1, <1>4, <1>11, <2>2, CommitMoves DEF Moved, Commit
    <3>2. CASE ~req[q].adds
      BY <1>5, <3>1, <3>2
    <3>3. CASE req[q].adds
      <4>1. access' = [access EXCEPT ![req[q].user] = "viewer"]
        BY <1>11, <2>2, <3>1, <3>3 DEF Commit, Effect
      <4>2. access'[req[q].user] = "viewer"
        BY <1>1, <3>1, <4>1 DEF Typed
      <4> QED BY <3>1, <4>2
    <3> QED BY <3>2, <3>3
  <2> QED BY <2>1, <2>2
<1>12. ASSUME UNCHANGED req PROVE access'[req'[q].user] # None \/ req'[q].user \in revoked'
  BY <1>6, <1>12
<1>13. ASSUME Restart PROVE access'[req'[q].user] # None \/ req'[q].user \in revoked'
  <2>1. /\ req'[q].op = req[q].op /\ req'[q].user = req[q].user /\ req'[q].answer = req[q].answer
        /\ req'[q].step \in {"waiting", "done"}
    BY <1>1, <1>13, RestartMoves
  <2>2. Settled(req[q])
    BY <1>4, <2>1
  <2> QED BY <1>5, <2>1, <2>2
<1> QED
  BY <1>7, <1>8, <1>9, <1>10, <1>11, <1>12, <1>13
  DEF Next, RequestStep, Advancing, Failing, RevokeAccess, UpdateUserProjectRole, Expire, vars

------------------------------------------------------------------------------
(* The inductive invariant. *)
IInv == TypeInv /\ InviteIsLocked /\ HostFollows /\ MembersAreKept

(* It holds in every state. *)
LEMMA Invariance == Spec => []IInv
<1>1. Init => IInv
  BY InitInv DEF IInv
<1>2. IInv /\ [Next]_vars => IInv'
  <2> SUFFICES ASSUME IInv, [Next]_vars PROVE IInv'
    OBVIOUS
  <2>1. TypeInv'
    BY NextTyped, NextFollows, NextCodes, NextInvited DEF IInv, TypeInv
  <2> QED
    BY <2>1, NextLocked, NextHost, NextMembers DEF IInv
<1> QED
  BY <1>1, <1>2, PTL DEF Spec

(* Types, and that who has an invite in hand is not who made it. *)
THEOREM Types == Spec => []TypeOK
<1>1. IInv => TypeOK
  <2> SUFFICES ASSUME IInv PROVE TypeOK
    OBVIOUS
  <2>1. \A c \in Codes : \A r \in Joining(c) : invites[c].by \notin {None, req[r].user}
    BY DEF IInv, TypeInv, JoinsAreInvited, Joining
  <2> QED
    BY <2>1 DEF IInv, TypeInv, Typed, Requested, TypeOK
<1> QED
  BY <1>1, Invariance, PTL

(* However many use an invite at the same time or twice, JoinProjectByInvite *)
(* answers one of them with 200.                                             *)
THEOREM OneIsAdmitted == Spec => []InviteAdmitsOne
<1>1. IInv => InviteAdmitsOne
  <2> SUFFICES ASSUME IInv, NEW c \in Codes
               PROVE  Cardinality({r \in Requests : /\ req[r].op = "join" /\ req[r].code = c
                                                    /\ req[r].answer = "ok"}) <= 1
    BY DEF InviteAdmitsOne
  <2> DEFINE S == {r \in Requests : req[r].op = "join" /\ req[r].code = c /\ req[r].answer = "ok"}
  <2>1. \A r, q \in S : r = q
    BY DEF IInv, InviteIsLocked, Joined
  <2>2. CASE S = {}
    BY <2>2, FS_EmptySet
  <2>3. ASSUME NEW r \in S PROVE Cardinality(S) <= 1
    <3>1. S = {r}
      BY <2>1, <2>3
    <3>2. Cardinality({r}) = 1
      BY FS_Singleton
    <3> QED BY <3>1, <3>2
  <2> QED BY <2>2, <2>3
<1> QED
  BY <1>1, Invariance, PTL

(* A project that CreateProject has committed has all the code host is to   *)
(* keep of it.                                                              *)
THEOREM ProjectsAreWhole == Spec => []ProjectIsWhole
<1>1. IInv => ProjectIsWhole
  BY DEF IInv, HostFollows, ProjectIsWhole
<1> QED
  BY <1>1, Invariance, PTL

(* Who was told to have joined is a member, or access was revoked; and the  *)
(* invite cannot be used again.                                             *)
THEOREM JoinedAreMembers == Spec => []JoinedIsMember
<1>1. IInv => JoinedIsMember
  BY DEF IInv, MembersAreKept, InviteIsLocked, Joined, Used, JoinedIsMember
<1> QED
  BY <1>1, Invariance, PTL
===============================================================================
