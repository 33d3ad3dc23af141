------------------------ MODULE PortalFunctions_proofs ------------------------
(***************************************************************************)
(* Proofs about PortalFunctions, for any names, languages and requests and *)
(* any number of pushes by others and faults: types, and that what a       *)
(* request acknowledges is in the database and in the remote repository.   *)
(***************************************************************************)
EXTENDS PortalFunctions, TLAPS

USE BoundsAssumption, TokensAssumption

Requested ==
    [op: Ops \cup {None}, step: Steps,
     name: Names \cup {None}, lang: Languages \cup {None},
     id: Ids \cup {None}, repo: BOOLEAN, was: Codes,
     known: RowTables, todo: SUBSET Paths, answer: {None, "ok", "failed"}]

(* The steps that write to the repository, and what is known in each step.  *)
Writing == {"write", "drop", "remove", "commit", "push", "register", "rollback"}

Follows(q) ==
    /\ q.op = None <=> q.step = "waiting"
    /\ q.op \in {"create", "update", "delete"} => q.name \in Names
    /\ q.op = "create" \/ (q.op # "sync" /\ q.step \in Writing) => q.lang \in Languages
    /\ q.step = "write" => q.op \in {"create", "update"}
    /\ q.step \in {"drop", "remove", "rollback"} => q.op = "delete"
    /\ q.step = "commit" => q.op \in {"create", "update", "delete"}
    /\ q.step = "register" => q.op = "create"
    /\ q.step \in {"pullForSync", "list", "walk", "pullForWorkflow", "workflow", "stage"} =>
          q.op = "sync"
    /\ q.answer # None => q.step = "done"
    /\ q.was # None => q.step \in {"commit", "push", "register", "rollback", "done"}

StepsFollowOp == \A r \in Requests : Follows(req[r])

(* What has not been written yet is nowhere. *)
HasWritten(q) ==
    q.op \in {"create", "update"} /\ q.step \in {"commit", "push", "register", "done"}
Unwritten == {r \in Requests : ~HasWritten(req[r])} \cup {n \in Pushed : n > pushes}
ContentIsNew ==
    /\ \A p \in Paths : {files[p], index[p], head[p], remote[p]} \cap Unwritten = {}
    /\ \A r \in Requests : req[r].was \notin Unwritten

(* The index is that of HEAD's commit, unless a pull has stopped half-way:  *)
(* then what stopped it is still there, and stops the next pull.            *)
StaleIsUnstaged == index = head \/ Unstaged

(* Unless HEAD is ahead, what it has not got of the remote was pushed by    *)
(* others, since it had what any request replaces.                          *)
BehindIsPushed ==
    ~ahead => \A p \in Paths : remote[p] = head[p] \/
                 /\ remote[p] \in Pushed
                 /\ \A r \in Requests : PathOf(req[r]) = p => req[r].was # remote[p]

(* A file that was neither in the worktree nor staged cannot be committed.  *)
Lost(p, fs, ix) == fs[p] = None /\ ix[p] = None

(* A create has its file, in turn, in the worktree, the index and the       *)
(* commit, the remote and, acknowledged, its row, as long as nobody sets out *)
(* to delete it and its push has sent what there was.                       *)
CreateProgresses ==
    \A r \in Requests :
       (req[r].op = "create" /\ ~Deleting(req[r].name)) =>
          LET p == PathOf(req[r])
              n == req[r].name
              sent == r \notin unsent /\ (req[r].step = "register" \/ req[r].answer = "ok") IN
          /\ req[r].step = "commit" => files[p] # None \/ index[p] = None
          /\ req[r].step = "push" \/ sent => files[p] # None /\ index[p] # None /\ head[p] # None
          /\ sent => remote[p] # None
          /\ req[r].answer = "ok" => rows[n] # None /\ rows[n].id = r

(* The write of a request is not undone without an error. *)
Lasting(r) == req[r].was # None \/ (req[r].op # "delete" /\ ~Deleting(req[r].name))

(* What such a request replaces, or deletes, is gone: from the worktree,    *)
(* then from the index and HEAD, and from the remote when it has got that.  *)
GoneFrom(q, fs, ix, h, a, rm) ==
    LET p == PathOf(q) IN
    /\ q.step = "commit" => fs[p] # q.was \/ Lost(p, fs, ix)
    /\ q.step \in {"push", "register"} /\ q.op # "sync" =>
          fs[p] # q.was /\ ix[p] # q.was /\ h[p] # q.was /\ (a \/ rm[p] # q.was)
OldIsGone ==
    \A r \in Requests : Lasting(r) => GoneFrom(req[r], files, index, head, ahead, remote)
SentIsGone ==
    \A r \in Requests :
       (Lasting(r) /\ req[r].step = "register" /\ r \notin unsent) =>
          remote[PathOf(req[r])] # req[r].was

Typed ==
    /\ rows \in RowTables
    /\ crs \in [Names -> Languages \cup {None}]
    /\ files \in [Paths -> Codes]
    /\ index \in [Paths -> Codes]
    /\ head \in [Paths -> Codes]
    /\ workflow \in {"staged", "changed"}
    /\ branch \in {"head", "level", "behind"}
    /\ ahead \in BOOLEAN
    /\ remote \in [Paths -> Codes]
    /\ moved \in BOOLEAN
    /\ req \in [Requests -> Requested]
    /\ unsent \subseteq Requests
    /\ pushes \in 0..MaxPushes
    /\ faults \in 0..MaxFaults

IInv == /\ Typed /\ StepsFollowOp /\ ContentIsNew /\ StaleIsUnstaged /\ BehindIsPushed
        /\ CreateProgresses /\ OldIsGone /\ SentIsGone

------------------------------------------------------------------------------
(* What a request is after a step of it. *)
Moved(r, step, lang, was, answer) ==
    /\ req' \in [Requests -> Requested]
    /\ \A q \in Requests \ {r} : req'[q] = req[q]
    /\ req'[r].op = req[r].op /\ req'[r].name = req[r].name
    /\ req'[r].step = step /\ req'[r].lang = lang
    /\ req'[r].was = was /\ req'[r].answer = answer

(* The record of a request is replaced... *)
LEMMA Replaced ==
    ASSUME Typed, NEW r \in Requests, NEW x \in Requested, req' = [req EXCEPT ![r] = x]
    PROVE  /\ req' \in [Requests -> Requested] /\ req'[r] = x
           /\ \A q \in Requests \ {r} : req'[q] = req[q]
BY DEF Typed

(* ... by that of another step... *)
LEMMA GotoMoves ==
    ASSUME Typed, NEW r \in Requests, NEW step \in Steps, Goto(r, step)
    PROVE  Moved(r, step, req[r].lang, req[r].was, req[r].answer)
<1> DEFINE x == [req[r] EXCEPT !.step = step]
<1>1. req[r] \in Requested
  BY DEF Typed
<1>2. /\ x \in Requested /\ x.op = req[r].op /\ x.name = req[r].name /\ x.step = step
      /\ x.lang = req[r].lang /\ x.was = req[r].was /\ x.answer = req[r].answer
  BY <1>1 DEF Requested
<1>3. req' = [req EXCEPT ![r] = x]
  BY DEF Goto
<1> HIDE DEF x
<1> QED
  BY <1>2, <1>3, Replaced DEF Moved

(* ... with an answer at the end... *)
LEMMA AnswerMoves ==
    ASSUME Typed, NEW r \in Requests, NEW a \in {"ok", "failed"}, Answer(r, a)
    PROVE  Moved(r, "done", req[r].lang, req[r].was, a)
<1> DEFINE x == [req[r] EXCEPT !.step = "done", !.answer = a]
<1>1. req[r] \in Requested
  BY DEF Typed
<1>2. /\ x \in Requested /\ x.op = req[r].op /\ x.name = req[r].name /\ x.step = "done"
      /\ x.lang = req[r].lang /\ x.was = req[r].was /\ x.answer = a
  BY <1>1 DEF Requested, Steps, Ended
<1>3. req' = [req EXCEPT ![r] = x]
  BY <1>1 DEF Answer, Typed, Requested
<1> HIDE DEF x
<1> QED
  BY <1>2, <1>3, Replaced DEF Moved

(* ... with the language of the row that was found... *)
LEMMA FoundMoves ==
    ASSUME Typed, NEW r \in Requests, NEW step \in Steps, NEW l \in Languages,
           req' = [req EXCEPT ![r].step = step, ![r].lang = l]
    PROVE  Moved(r, step, l, req[r].was, req[r].answer)
<1> DEFINE x == [req[r] EXCEPT !.step = step, !.lang = l]
<1>1. req[r] \in Requested
  BY DEF Typed
<1>2. /\ x \in Requested /\ x.op = req[r].op /\ x.name = req[r].name /\ x.step = step
      /\ x.lang = l /\ x.was = req[r].was /\ x.answer = req[r].answer
  BY <1>1 DEF Requested
<1>3. req' = [req EXCEPT ![r] = x]
  BY <1>1 DEF Typed, Requested
<1> HIDE DEF x
<1> QED
  BY <1>2, <1>3, Replaced DEF Moved

(* ... or with the code that it replaces. *)
LEMMA WasMoves ==
    ASSUME Typed, NEW r \in Requests, NEW was \in Codes,
           req' = [req EXCEPT ![r].step = "commit", ![r].was = was]
    PROVE  Moved(r, "commit", req[r].lang, was, req[r].answer)
<1> DEFINE x == [req[r] EXCEPT !.step = "commit", !.was = was]
<1>1. req[r] \in Requested
  BY DEF Typed
<1>2. /\ x \in Requested /\ x.op = req[r].op /\ x.name = req[r].name /\ x.step = "commit"
      /\ x.lang = req[r].lang /\ x.was = was /\ x.answer = req[r].answer
  BY <1>1 DEF Requested, Steps
<1>3. req' = [req EXCEPT ![r] = x]
  BY <1>1 DEF Typed, Requested
<1> HIDE DEF x
<1> QED
  BY <1>2, <1>3, Replaced DEF Moved

(* A delete that goes on without a repository has nothing else changed. *)
LEMMA NoRepoMoves ==
    ASSUME Typed, NEW r \in Requests,
           req' = [req EXCEPT ![r].step = "look", ![r].repo = FALSE]
    PROVE  Moved(r, "look", req[r].lang, req[r].was, req[r].answer)
<1> DEFINE x == [req[r] EXCEPT !.step = "look", !.repo = FALSE]
<1>1. req[r] \in Requested
  BY DEF Typed
<1>2. /\ x \in Requested /\ x.op = req[r].op /\ x.name = req[r].name /\ x.step = "look"
      /\ x.lang = req[r].lang /\ x.was = req[r].was /\ x.answer = req[r].answer
  BY <1>1 DEF Requested, Steps
<1>3. req' = [req EXCEPT ![r] = x]
  BY <1>1 DEF Typed, Requested
<1> HIDE DEF x
<1> QED
  BY <1>2, <1>3, Replaced DEF Moved

(* So for a sync that lists the files and walks them. *)
LEMMA SyncMoves ==
    ASSUME Typed, NEW r \in Requests, ListForSync(r) \/ \E p \in Paths : SyncPath(r, p)
    PROVE  Moved(r, "walk", req[r].lang, req[r].was, req[r].answer)
<1>1. req[r] \in Requested
  BY DEF Typed
<1>2. CASE ListForSync(r)
  <2> DEFINE todo == {p \in Paths : files[p] # None}
             x == [req[r] EXCEPT !.step = "walk", !.known = rows, !.todo = todo]
  <2>1. rows \in RowTables /\ todo \in SUBSET Paths
    BY DEF Typed
  <2> HIDE DEF todo
  <2>2. /\ x \in Requested /\ x.op = req[r].op /\ x.name = req[r].name /\ x.step = "walk"
        /\ x.lang = req[r].lang /\ x.was = req[r].was /\ x.answer = req[r].answer
    BY <1>1, <2>1 DEF Requested, Steps
  <2>3. req' = [req EXCEPT ![r] = x]
    BY <1>1, <1>2 DEF ListForSync, Typed, Requested, todo
  <2> HIDE DEF x
  <2> QED BY <2>2, <2>3, Replaced DEF Moved
<1>3. ASSUME NEW p \in Paths, SyncPath(r, p)
      PROVE  Moved(r, "walk", req[r].lang, req[r].was, req[r].answer)
  <2> DEFINE x == [req[r] EXCEPT !.todo = @ \ {p}]
  <2>1. req[r].step = "walk"
    BY <1>3 DEF SyncPath
  <2>2. /\ x \in Requested /\ x.op = req[r].op /\ x.name = req[r].name /\ x.step = "walk"
        /\ x.lang = req[r].lang /\ x.was = req[r].was /\ x.answer = req[r].answer
    BY <1>1, <2>1 DEF Requested
  <2>3. req' = [req EXCEPT ![r] = x]
    BY <1>1, <1>3 DEF SyncPath, Typed, Requested
  <2> HIDE DEF x
  <2> QED BY <2>2, <2>3, Replaced DEF Moved
<1> QED
  BY <1>2, <1>3

(* What a request is when it has begun. *)
LEMMA BeginMoves ==
    ASSUME Typed, NEW r \in Requests, Begin(r)
    PROVE  /\ req' \in [Requests -> Requested]
           /\ \A q \in Requests \ {r} : req'[q] = req[q]
           /\ req'[r].step = "pull" /\ req'[r].was = None /\ req'[r].answer = None
           /\ req'[r].op \in Ops
           /\ req'[r].op # "sync" => req'[r].name \in Names
           /\ req'[r].op = "create" => req'[r].lang \in Languages
<1>1. NoRows \in RowTables /\ None \in Codes
  BY DEF NoRows, RowTables, Codes
<1>2. ASSUME NEW n \in Names, NEW l \in Languages,
             req' = [req EXCEPT ![r] = [Waiting EXCEPT
                        !.op = "create", !.step = "pull", !.name = n, !.lang = l]]
      PROVE  /\ req' \in [Requests -> Requested]
             /\ \A q \in Requests \ {r} : req'[q] = req[q]
             /\ req'[r].step = "pull" /\ req'[r].was = None /\ req'[r].answer = None
             /\ req'[r].op = "create" /\ req'[r].name = n /\ req'[r].lang = l
  <2> DEFINE x == [Waiting EXCEPT !.op = "create", !.step = "pull", !.name = n, !.lang = l]
  <2>1. /\ x \in Requested /\ x.step = "pull" /\ x.was = None /\ x.answer = None
        /\ x.op = "create" /\ x.name = n /\ x.lang = l
    BY <1>1 DEF Waiting, Requested, Steps, Ops
  <2>2. req' = [req EXCEPT ![r] = x]
    BY <1>2
  <2> HIDE DEF x
  <2> QED BY <2>1, <2>2, Replaced
<1>3. ASSUME NEW n \in Names, NEW op \in {"update", "delete"}, rows[n] # None,
             req' = [req EXCEPT ![r] = [Waiting EXCEPT
                        !.op = op, !.step = "pull", !.name = n, !.id = rows[n].id]]
      PROVE  /\ req' \in [Requests -> Requested]
             /\ \A q \in Requests \ {r} : req'[q] = req[q]
             /\ req'[r].step = "pull" /\ req'[r].was = None /\ req'[r].answer = None
             /\ req'[r].op = op /\ req'[r].name = n
  <2> DEFINE x == [Waiting EXCEPT !.op = op, !.step = "pull", !.name = n, !.id = rows[n].id]
  <2>1. rows[n].id \in Ids
    BY <1>3 DEF Typed, RowTables
  <2>2. /\ x \in Requested /\ x.step = "pull" /\ x.was = None /\ x.answer = None
        /\ x.op = op /\ x.name = n
    BY <1>1, <2>1 DEF Waiting, Requested, Steps, Ops
  <2>3. req' = [req EXCEPT ![r] = x]
    BY <1>3
  <2> HIDE DEF x
  <2> QED BY <2>2, <2>3, Replaced
<1>4. CASE req' = [req EXCEPT ![r] = [Waiting EXCEPT !.op = "sync", !.step = "pull"]]
  <2> DEFINE x == [Waiting EXCEPT !.op = "sync", !.step = "pull"]
  <2>1. /\ x \in Requested /\ x.step = "pull" /\ x.was = None /\ x.answer = None
        /\ x.op = "sync"
    BY <1>1 DEF Waiting, Requested, Steps, Ops
  <2>2. req' = [req EXCEPT ![r] = x]
    BY <1>4
  <2> HIDE DEF x
  <2>3. req' \in [Requests -> Requested] /\ req'[r] = x /\ \A q \in Requests \ {r} : req'[q] = req[q]
    BY <2>1, <2>2, Replaced
  <2> QED BY <2>1, <2>3 DEF Ops
<1> QED
  BY <1>2, <1>3, <1>4 DEF Begin, Ops

(* A restart ends the requests that have begun, without an answer. *)
LEMMA RestartMoves ==
    ASSUME Typed, Restart
    PROVE  /\ req' \in [Requests -> Requested]
           /\ \A q \in Requests :
                 /\ req'[q].op = req[q].op /\ req'[q].name = req[q].name
                 /\ req'[q].lang = req[q].lang /\ req'[q].was = req[q].was
                 /\ req'[q].answer = req[q].answer
                 /\ \/ req'[q].step = req[q].step /\ req[q].step \in Ended
                    \/ req'[q].step = "done" /\ req[q].step \notin Ended
<1> DEFINE x(q) == IF req[q].step \in Ended THEN req[q] ELSE [req[q] EXCEPT !.step = "done"]
<1>1. ASSUME NEW q \in Requests
      PROVE  /\ x(q) \in Requested /\ x(q).op = req[q].op /\ x(q).name = req[q].name
             /\ x(q).lang = req[q].lang /\ x(q).was = req[q].was /\ x(q).answer = req[q].answer
             /\ \/ x(q).step = req[q].step /\ req[q].step \in Ended
                \/ x(q).step = "done" /\ req[q].step \notin Ended
  <2>1. req[q] \in Requested
    BY DEF Typed
  <2>2. CASE req[q].step \in Ended
    BY <2>1, <2>2
  <2>3. CASE req[q].step \notin Ended
    BY <2>1, <2>3 DEF Requested, Steps, Ended
  <2> QED BY <2>2, <2>3
<1>2. req' = [q \in Requests |-> x(q)]
  BY DEF Restart
<1> HIDE DEF x
<1> QED
  BY <1>1, <1>2

------------------------------------------------------------------------------
(* A request goes on, fails, or gives up. *)
On(r, step) == Moved(r, step, req[r].lang, req[r].was, req[r].answer)
Fails(r) == Moved(r, "done", req[r].lang, req[r].was, "failed")
GivesUp(r) ==
    \/ req[r].op = "delete" /\ On(r, "rollback")
    \/ req[r].op # "delete" /\ Fails(r)

(* Giving up, step by step. *)
LEMMA GiveUpMoves ==
    ASSUME Typed, NEW r \in Requests, GiveUp(r)
    PROVE  GivesUp(r)
BY GotoMoves, AnswerMoves DEF GiveUp, GivesUp, On, Fails, Steps

(* Where the handlers' steps before they write move their request... *)
LEMMA ReadingMoves ==
    ASSUME Typed, StepsFollowOp, NEW r \in Requests
    PROVE  /\ Pull(r) => \/ req[r].step = "pull" /\ On(r, "look")
                         \/ req[r].step = "pullForSync" /\ On(r, "list")
                         \/ req[r].step = "pullForWorkflow" /\ On(r, "workflow")
           /\ PullFails(r) => \/ req[r].step = "pull" /\ req[r].op = "delete" /\ On(r, "look")
                              \/ req[r].step \notin Ended /\ Fails(r)
           /\ Look(r) =>
                 /\ req[r].step = "look"
                 /\ \/ Fails(r)
                    \/ req[r].op = "create" /\ On(r, "write")
                    \/ req[r].op = "sync" /\ On(r, "pullForSync")
                    \/ /\ req[r].op \in {"update", "delete"}
                       /\ \E l \in Languages :
                             Moved(r, IF req[r].op = "update" THEN "write" ELSE "drop", l,
                                   req[r].was, req[r].answer)
<1>1. \A step \in Steps : Goto(r, step) => On(r, step)
  BY GotoMoves DEF On
<1>2. Answer(r, "failed") => Fails(r)
  BY AnswerMoves DEF Fails
<1>3. {"look", "list", "workflow", "write", "drop", "pullForSync"} \subseteq Steps
  BY DEF Steps
<1>4. ASSUME Pull(r)
      PROVE  \/ req[r].step = "pull" /\ On(r, "look")
             \/ req[r].step = "pullForSync" /\ On(r, "list")
             \/ req[r].step = "pullForWorkflow" /\ On(r, "workflow")
  BY <1>1, <1>3, <1>4 DEF Pull, AfterPull
<1>5. ASSUME PullFails(r)
      PROVE  \/ req[r].step = "pull" /\ req[r].op = "delete" /\ On(r, "look")
             \/ req[r].step \notin Ended /\ Fails(r)
  <2>1. req[r].step \in {"pull", "pullForSync", "pullForWorkflow"}
    BY <1>5 DEF PullFails
  <2>2. CASE req[r].op = "delete"
    <3>1. req[r].step = "pull"
      BY <2>1, <2>2 DEF StepsFollowOp, Follows
    <3> QED BY <1>5, <2>2, <3>1, NoRepoMoves DEF PullFails, On
  <2>3. CASE req[r].op # "delete"
    BY <1>2, <1>5, <2>1, <2>3 DEF PullFails, Ended
  <2> QED BY <2>2, <2>3
<1>6. ASSUME Look(r)
      PROVE  /\ req[r].step = "look"
             /\ \/ Fails(r)
                \/ req[r].op = "create" /\ On(r, "write")
                \/ req[r].op = "sync" /\ On(r, "pullForSync")
                \/ /\ req[r].op \in {"update", "delete"}
                   /\ \E l \in Languages :
                         Moved(r, IF req[r].op = "update" THEN "write" ELSE "drop", l,
                               req[r].was, req[r].answer)
  <2>1. req[r].step = "look" /\ req[r].op \in Ops
    BY <1>6 DEF Look, StepsFollowOp, Follows, Typed, Requested
  <2>2. CASE req[r].op = "create"
    BY <1>1, <1>2, <1>3, <1>6, <2>1, <2>2 DEF Look
  <2>3. CASE req[r].op = "sync"
    BY <1>1, <1>3, <1>6, <2>1, <2>3 DEF Look
  <2>4. CASE req[r].op \in {"update", "delete"}
    <3>1. CASE ~Found(req[r])
      BY <1>2, <1>6, <2>1, <2>4, <3>1 DEF Look
    <3>2. CASE Found(req[r])
      <4>1. rows[req[r].name].lang \in Languages
        BY <2>4, <3>2 DEF Found, StepsFollowOp, Follows, Typed, RowTables
      <4>2. req' = [req EXCEPT ![r].step = IF req[r].op = "update" THEN "write" ELSE "drop",
                               ![r].lang = rows[req[r].name].lang]
        BY <1>6, <2>4, <3>2 DEF Look
      <4> QED BY <1>3, <2>1, <2>4, <4>1, <4>2, FoundMoves
    <3> QED BY <3>1, <3>2
  <2> QED BY <2>1, <2>2, <2>3, <2>4 DEF Ops
<1> QED
  BY <1>4, <1>5, <1>6

(* ... those that write to the repository... *)
LEMMA WritingMoves ==
    ASSUME Typed, StepsFollowOp, NEW r \in Requests
    PROVE  /\ Write(r) => /\ req[r].step = "write"
                          /\ Moved(r, "commit", req[r].lang, head[PathOf(req[r])], req[r].answer)
           /\ Remove(r) =>
                 /\ req[r].step = "remove"
                 /\ \/ On(r, "rollback") /\ UNCHANGED files
                    \/ /\ Moved(r, "commit", req[r].lang, head[PathOf(req[r])], req[r].answer)
                       /\ files' = [files EXCEPT ![PathOf(req[r])] = None]
           /\ Commit(r) => /\ req[r].step = "commit"
                           /\ GivesUp(r) \/ On(r, "push")
           /\ Push(r) =>
                 /\ req[r].step = "push"
                 /\ \/ Refused /\ GivesUp(r)
                    \/ ~Refused /\ req[r].op = "create" /\ On(r, "register")
                    \/ /\ ~Refused /\ req[r].op # "create"
                       /\ Moved(r, "done", req[r].lang, req[r].was, "ok")
           /\ WriteWorkflow(r) => req[r].step = "workflow" /\ On(r, "stage")
           /\ CommitWorkflow(r) => req[r].step = "stage" /\ On(r, "push")
<1>1. \A step \in Steps : Goto(r, step) => On(r, step)
  BY GotoMoves DEF On
<1>2. {"rollback", "push", "register", "stage"} \subseteq Steps
  BY DEF Steps
<1>3. req[r].step \in {"write", "remove"} => PathOf(req[r]) \in Paths
  BY DEF StepsFollowOp, Follows, PathOf, Paths, Writing
<1>4. ASSUME Write(r)
      PROVE  /\ req[r].step = "write"
             /\ Moved(r, "commit", req[r].lang, head[PathOf(req[r])], req[r].answer)
  <2>1. head[PathOf(req[r])] \in Codes
    BY <1>3, <1>4 DEF Write, Typed
  <2> QED BY <1>4, <2>1, WasMoves DEF Write
<1>5. ASSUME Remove(r)
      PROVE  /\ req[r].step = "remove"
             /\ \/ On(r, "rollback") /\ UNCHANGED files
                \/ /\ Moved(r, "commit", req[r].lang, head[PathOf(req[r])], req[r].answer)
                   /\ files' = [files EXCEPT ![PathOf(req[r])] = None]
  <2>1. head[PathOf(req[r])] \in Codes
    BY <1>3, <1>5 DEF Remove, Typed
  <2> QED BY <1>1, <1>2, <1>5, <2>1, WasMoves DEF Remove
<1>6. Commit(r) => req[r].step = "commit" /\ (GivesUp(r) \/ On(r, "push"))
  BY <1>1, <1>2, GiveUpMoves DEF Commit
<1>7. Push(r) =>
         /\ req[r].step = "push"
         /\ \/ Refused /\ GivesUp(r)
            \/ ~Refused /\ req[r].op = "create" /\ On(r, "register")
            \/ /\ ~Refused /\ req[r].op # "create"
               /\ Moved(r, "done", req[r].lang, req[r].was, "ok")
  BY <1>1, <1>2, GiveUpMoves, AnswerMoves DEF Push, Published
<1>8. /\ WriteWorkflow(r) => req[r].step = "workflow" /\ On(r, "stage")
      /\ CommitWorkflow(r) => req[r].step = "stage" /\ On(r, "push")
  BY <1>1, <1>2 DEF WriteWorkflow, CommitWorkflow
<1> QED
  BY <1>4, <1>5, <1>6, <1>7, <1>8

(* ... and the others. *)
LEMMA OtherMoves ==
    ASSUME Typed, StepsFollowOp, NEW r \in Requests
    PROVE  /\ Drop(r) => req[r].step = "drop" /\ (Fails(r) \/ On(r, "remove"))
           /\ Register(r) \/ RegisterPartly(r) =>
                 /\ req[r].step = "register"
                 /\ \/ Fails(r) /\ UNCHANGED rows
                    \/ /\ Moved(r, "done", req[r].lang, req[r].was, "ok")
                       /\ rows[req[r].name] = None
                       /\ \E e \in SUBSET {"GET", "POST"} :
                             rows' = [rows EXCEPT ![req[r].name] = Row(req[r].lang, r, e)]
           /\ Rollback(r) => req[r].step = "rollback" /\ Fails(r)
           /\ StepFails(r) => \/ req[r].step \notin Ended /\ Fails(r)
                              \/ req[r].step \in {"commit", "push"} /\ GivesUp(r)
           /\ ListForSync(r) => req[r].step = "list" /\ On(r, "walk")
           /\ \A p \in Paths : SyncPath(r, p) => req[r].step = "walk" /\ On(r, "walk")
           /\ WalkEnds(r) => req[r].step = "walk" /\ On(r, "pullForWorkflow")
<1>1. \A step \in Steps : Goto(r, step) => On(r, step)
  BY GotoMoves DEF On
<1>2. Answer(r, "failed") => Fails(r)
  BY AnswerMoves DEF Fails
<1>3. Answer(r, "ok") => Moved(r, "done", req[r].lang, req[r].was, "ok")
  BY AnswerMoves
<1>4. {"remove", "pullForWorkflow"} \subseteq Steps
  BY DEF Steps
<1>5. Drop(r) => req[r].step = "drop" /\ (Fails(r) \/ On(r, "remove"))
  BY <1>1, <1>2, <1>4 DEF Drop
<1>6. ASSUME Register(r) \/ RegisterPartly(r)
      PROVE  /\ req[r].step = "register"
             /\ \/ Fails(r) /\ UNCHANGED rows
                \/ /\ Moved(r, "done", req[r].lang, req[r].was, "ok")
                   /\ rows[req[r].name] = None
                   /\ \E e \in SUBSET {"GET", "POST"} :
                         rows' = [rows EXCEPT ![req[r].name] = Row(req[r].lang, r, e)]
  <2>1. {"GET"} \in SUBSET {"GET", "POST"} /\ {} \in SUBSET {"GET", "POST"}
    OBVIOUS
  <2>2. CASE Register(r)
    BY <1>2, <1>3, <2>1, <2>2 DEF Register
  <2>3. CASE RegisterPartly(r)
    BY <1>2, <1>3, <2>1, <2>3 DEF RegisterPartly
  <2> QED BY <1>6, <2>2, <2>3
<1>7. Rollback(r) => req[r].step = "rollback" /\ Fails(r)
  BY <1>2 DEF Rollback
<1>8. StepFails(r) => \/ req[r].step \notin Ended /\ Fails(r)
                      \/ req[r].step \in {"commit", "push"} /\ GivesUp(r)
  BY <1>2, GiveUpMoves DEF StepFails, Ended
<1>9. /\ ListForSync(r) => req[r].step = "list" /\ On(r, "walk")
      /\ \A p \in Paths : SyncPath(r, p) => req[r].step = "walk" /\ On(r, "walk")
  BY SyncMoves DEF ListForSync, SyncPath, On
<1>10. WalkEnds(r) => req[r].step = "walk" /\ On(r, "pullForWorkflow")
  BY <1>1, <1>4 DEF WalkEnds
<1> QED
  BY <1>5, <1>6, <1>7, <1>8, <1>9, <1>10

------------------------------------------------------------------------------
(* The others are as they were. *)
LEMMA OthersFollow ==
    ASSUME StepsFollowOp, NEW r \in Requests, Follows(req'[r]),
           \A q \in Requests \ {r} : req'[q] = req[q]
    PROVE  StepsFollowOp'
BY DEF StepsFollowOp

(* Every step is one of its handler's. *)
LEMMA NextFollows ==
    ASSUME Typed, StepsFollowOp, [Next]_vars
    PROVE  StepsFollowOp'
<1>1. ASSUME NEW r \in Requests, Begin(r) PROVE StepsFollowOp'
  <2>1. Follows(req'[r])
    BY <1>1, BeginMoves DEF Follows, Writing, Ops
  <2> QED BY <1>1, <2>1, BeginMoves, OthersFollow
<1>2. ASSUME NEW r \in Requests, NEW step, NEW lang, NEW was, NEW a,
             Moved(r, step, lang, was, a), Follows(req'[r])
      PROVE  StepsFollowOp'
  BY <1>2, OthersFollow DEF Moved
<1>3. ASSUME NEW r \in Requests, req[r].step \notin Ended, Fails(r) PROVE StepsFollowOp'
  <2>1. Follows(req[r]) /\ req[r].op # None
    BY <1>3 DEF StepsFollowOp, Follows, Ended
  <2>2. Follows(req'[r])
    BY <1>3, <2>1 DEF Fails, Moved, Follows, Writing
  <2> QED BY <1>2, <1>3, <2>2 DEF Fails
<1>4. ASSUME NEW r \in Requests, req[r].step \in {"commit", "push"}, GivesUp(r)
      PROVE  StepsFollowOp'
  <2>1. Follows(req[r]) /\ req[r].op # None
    BY <1>4 DEF StepsFollowOp, Follows
  <2>2. CASE req[r].op = "delete"
    <3>1. On(r, "rollback") /\ req[r].lang \in Languages
      BY <1>4, <2>1, <2>2 DEF GivesUp, Follows, Writing
    <3>2. Follows(req'[r])
      BY <1>4, <2>1, <2>2, <3>1 DEF On, Moved, Follows, Writing
    <3> QED BY <1>2, <3>1, <3>2 DEF On
  <2>3. CASE req[r].op # "delete"
    BY <1>3, <1>4, <2>3 DEF GivesUp, Ended
  <2> QED BY <2>2, <2>3
<1>5. ASSUME NEW r \in Requests, NEW step, On(r, step),
             \/ req[r].step = "pull" /\ step = "look"
             \/ req[r].step = "pullForSync" /\ step = "list"
             \/ req[r].step = "pullForWorkflow" /\ step = "workflow"
             \/ req[r].step = "look" /\ req[r].op = "create" /\ step = "write"
             \/ req[r].step = "look" /\ req[r].op = "sync" /\ step = "pullForSync"
             \/ req[r].step = "remove" /\ step = "rollback"
             \/ req[r].step = "commit" /\ step = "push"
             \/ req[r].step = "push" /\ req[r].op = "create" /\ step = "register"
             \/ req[r].step = "drop" /\ step = "remove"
             \/ req[r].step = "workflow" /\ step = "stage"
             \/ req[r].step = "stage" /\ step = "push"
             \/ req[r].step \in {"list", "walk"} /\ step \in {"walk", "pullForWorkflow"}
      PROVE  StepsFollowOp'
  <2>1. Follows(req[r])
    BY DEF StepsFollowOp
  <2>2. Follows(req'[r])
    BY <1>5, <2>1 DEF On, Moved, Follows, Writing
  <2> QED BY <1>2, <1>5, <2>2 DEF On
<1>6. ASSUME NEW r \in Requests, Pull(r) \/ PullFails(r) PROVE StepsFollowOp'
  BY <1>3, <1>5, <1>6, ReadingMoves
<1>7. ASSUME NEW r \in Requests, Look(r) PROVE StepsFollowOp'
  <2>1. req[r].step = "look" /\ Follows(req[r])
    BY <1>7, ReadingMoves DEF StepsFollowOp
  <2>2. ASSUME req[r].op \in {"update", "delete"}, NEW l \in Languages,
               Moved(r, IF req[r].op = "update" THEN "write" ELSE "drop", l, req[r].was, req[r].answer)
        PROVE  StepsFollowOp'
    <3>1. Follows(req'[r])
      BY <2>1, <2>2 DEF Moved, Follows, Writing
    <3> QED BY <1>2, <2>2, <3>1
  <2> QED BY <1>3, <1>5, <1>7, <2>1, <2>2, ReadingMoves DEF Ended
<1>8. ASSUME NEW r \in Requests, req[r].step \in {"write", "remove"}, NEW was,
             Moved(r, "commit", req[r].lang, was, req[r].answer)
      PROVE  StepsFollowOp'
  <2>1. Follows(req[r])
    BY DEF StepsFollowOp
  <2>2. Follows(req'[r])
    BY <1>8, <2>1 DEF Moved, Follows, Writing
  <2> QED BY <1>2, <1>8, <2>2
<1>9. ASSUME NEW r \in Requests, Write(r) \/ Remove(r) PROVE StepsFollowOp'
  BY <1>5, <1>8, <1>9, WritingMoves
<1>10. ASSUME NEW r \in Requests, req[r].step \notin Ended,
              Moved(r, "done", req[r].lang, req[r].was, "ok")
       PROVE  StepsFollowOp'
  <2>1. Follows(req[r]) /\ req[r].op # None
    BY <1>10 DEF StepsFollowOp, Follows, Ended
  <2>2. Follows(req'[r])
    BY <1>10, <2>1 DEF Moved, Follows, Writing
  <2> QED BY <1>2, <1>10, <2>2
<1>11. ASSUME NEW r \in Requests, Commit(r) PROVE StepsFollowOp'
  BY <1>4, <1>5, <1>11, WritingMoves
<1>12. ASSUME NEW r \in Requests, Push(r) PROVE StepsFollowOp'
  <2>1. req[r].step = "push" /\ req[r].step \notin Ended
    BY <1>12, WritingMoves DEF Ended
  <2> QED BY <1>4, <1>5, <1>10, <1>12, <2>1, WritingMoves
<1>20. ASSUME NEW r \in Requests, WriteWorkflow(r) \/ CommitWorkflow(r) PROVE StepsFollowOp'
  BY <1>5, <1>20, WritingMoves
<1>13. ASSUME NEW r \in Requests, Drop(r) PROVE StepsFollowOp'
  BY <1>3, <1>5, <1>13, OtherMoves DEF Ended
<1>14. ASSUME NEW r \in Requests, Register(r) \/ RegisterPartly(r) PROVE StepsFollowOp'
  BY <1>3, <1>10, <1>14, OtherMoves DEF Ended
<1>15. ASSUME NEW r \in Requests, Rollback(r) \/ StepFails(r) PROVE StepsFollowOp'
  BY <1>3, <1>4, <1>15, OtherMoves DEF Ended
<1>16. ASSUME NEW r \in Requests,
              ListForSync(r) \/ WalkEnds(r) \/ \E p \in Paths : SyncPath(r, p)
       PROVE  StepsFollowOp'
  BY <1>5, <1>16, OtherMoves
<1>17. CASE Restart
  <2>1. ASSUME NEW q \in Requests PROVE Follows(req'[q])
    <3>1. Follows(req[q])
      BY DEF StepsFollowOp
    <3>2. /\ req'[q].op = req[q].op /\ req'[q].name = req[q].name
          /\ req'[q].lang = req[q].lang /\ req'[q].was = req[q].was
          /\ req'[q].answer = req[q].answer
      BY <1>17, RestartMoves
    <3>3. CASE req'[q].step = req[q].step /\ req[q].step \in Ended
      BY <3>1, <3>2, <3>3 DEF Follows
    <3>4. CASE req'[q].step = "done" /\ req[q].step \notin Ended
      BY <3>1, <3>2, <3>4 DEF Follows, Ended, Writing
    <3> QED BY <1>17, <3>3, <3>4, RestartMoves
  <2> QED BY <2>1 DEF StepsFollowOp
<1>18. CASE UNCHANGED req
  BY <1>18 DEF StepsFollowOp
<1>19. ASSUME \/ PullForOther \/ UNCHANGED vars
              \/ \E n \in Names : UpdateEndpoint(n)
              \/ \E p \in Paths : ExternalPush(p)
       PROVE  UNCHANGED req
  BY <1>19 DEF PullForOther, vars, UpdateEndpoint, ExternalPush
<1> QED
  BY <1>1, <1>6, <1>7, <1>9, <1>11, <1>12, <1>13, <1>14, <1>15, <1>16, <1>17, <1>18, <1>19, <1>20
     DEF Next

------------------------------------------------------------------------------
(* Every step keeps the types of the requests... *)
LEMMA RequestsTyped ==
    ASSUME Typed, StepsFollowOp, [Next]_vars
    PROVE  req' \in [Requests -> Requested]
<1>1. ASSUME NEW r \in Requests, NEW step, NEW lang, NEW was, NEW a, Moved(r, step, lang, was, a)
      PROVE  req' \in [Requests -> Requested]
  BY <1>1 DEF Moved
<1>2. ASSUME NEW r \in Requests, Fails(r) \/ GivesUp(r) \/ \E step : On(r, step)
      PROVE  req' \in [Requests -> Requested]
  BY <1>1, <1>2 DEF Fails, GivesUp, On
<1>3. ASSUME NEW r \in Requests, Pull(r) \/ PullFails(r) \/ Look(r)
      PROVE  req' \in [Requests -> Requested]
  BY <1>1, <1>2, <1>3, ReadingMoves
<1>4. ASSUME NEW r \in Requests,
             \/ Write(r) \/ Remove(r) \/ Commit(r) \/ Push(r)
             \/ WriteWorkflow(r) \/ CommitWorkflow(r)
      PROVE  req' \in [Requests -> Requested]
  BY <1>1, <1>2, <1>4, WritingMoves
<1>5. ASSUME NEW r \in Requests,
             \/ Drop(r) \/ Register(r) \/ RegisterPartly(r) \/ Rollback(r) \/ StepFails(r)
             \/ ListForSync(r) \/ WalkEnds(r) \/ \E p \in Paths : SyncPath(r, p)
      PROVE  req' \in [Requests -> Requested]
  BY <1>1, <1>2, <1>5, OtherMoves
<1>6. ASSUME \/ PullForOther \/ UNCHANGED vars
             \/ \E n \in Names : UpdateEndpoint(n)
             \/ \E p \in Paths : ExternalPush(p)
      PROVE  req' \in [Requests -> Requested]
  BY <1>6 DEF PullForOther, vars, UpdateEndpoint, ExternalPush, Typed
<1> QED
  BY <1>3, <1>4, <1>5, <1>6, BeginMoves, RestartMoves DEF Next

(* A row is inserted. *)
LEMMA RowInserted ==
    ASSUME Typed, NEW n \in Names, NEW l \in Languages, NEW i \in Ids,
           NEW e \in SUBSET {"GET", "POST"}
    PROVE  [rows EXCEPT ![n] = Row(l, i, e)] \in RowTables
<1>1. Row(l, i, e) \in [lang: Languages, id: Ids, endpoints: SUBSET {"GET", "POST"}]
  BY DEF Row
<1> HIDE DEF Row
<1> QED
  BY <1>1 DEF Typed, RowTables

(* The endpoints of a row are changed: it stays that row. *)
LEMMA EndpointsChanged ==
    ASSUME Typed, NEW n \in Names, rows[n] # None, NEW e \in SUBSET {"GET", "POST"},
           rows' = [rows EXCEPT ![n].endpoints = e]
    PROVE  /\ rows' \in RowTables
           /\ rows'[n] # None /\ rows'[n].id = rows[n].id
           /\ \A m \in Names \ {n} : rows'[m] = rows[m]
<1> DEFINE x == [rows[n] EXCEPT !.endpoints = e]
<1>1. rows[n] \in [lang: Languages, id: Ids, endpoints: SUBSET {"GET", "POST"}]
  BY DEF Typed, RowTables
<1>2. /\ x \in [lang: Languages, id: Ids, endpoints: SUBSET {"GET", "POST"}]
      /\ x.id = rows[n].id /\ x = Row(rows[n].lang, rows[n].id, e)
  BY <1>1 DEF Row
<1>3. x # None
  BY <1>1, <1>2
<1>4. rows' = [rows EXCEPT ![n] = x]
  OBVIOUS
<1> HIDE DEF x
<1> QED
  BY <1>2, <1>3, <1>4 DEF Typed, RowTables

(* What becomes of the rows when a sync visits a file... *)
LEMMA SyncRows ==
    ASSUME Typed, NEW r \in Requests, NEW p \in Paths, SyncPath(r, p)
    PROVE  \/ UNCHANGED rows
           \/ /\ rows[p[2]] = None
              /\ rows' = [rows EXCEPT ![p[2]] = Row(p[1], r, {"GET"})]
           \/ /\ rows[p[2]] # None
              /\ rows' = [rows EXCEPT ![p[2]].endpoints = rows[p[2]].endpoints \cup {"GET"}]
BY DEF SyncPath

(* ... the rows... *)
LEMMA RowsTyped ==
    ASSUME Typed, StepsFollowOp, [Next]_vars
    PROVE  rows' \in RowTables /\ crs' \in [Names -> Languages \cup {None}]
<1>1. ASSUME NEW n \in Names, NEW l \in Languages, CreateFunctionCRD(n, l) \/ UNCHANGED crs
      PROVE  crs' \in [Names -> Languages \cup {None}]
  BY <1>1 DEF CreateFunctionCRD, Typed
<1>2. rows \in RowTables /\ crs \in [Names -> Languages \cup {None}]
  BY DEF Typed
<1>3. ASSUME NEW r \in Requests, req[r].step \in {"drop", "register", "rollback"}
      PROVE  req[r].name \in Names /\ req[r].lang \in Languages
  BY <1>3 DEF StepsFollowOp, Follows, Writing
<1>4. {"GET"} \in SUBSET {"GET", "POST"} /\ {} \in SUBSET {"GET", "POST"}
  OBVIOUS
<1>5. ASSUME NEW r \in Requests, Drop(r)
      PROVE  rows' \in RowTables /\ crs' \in [Names -> Languages \cup {None}]
  BY <1>2, <1>3, <1>5 DEF Drop, RowTables
<1>6. ASSUME NEW r \in Requests, Register(r) \/ RegisterPartly(r)
      PROVE  rows' \in RowTables /\ crs' \in [Names -> Languages \cup {None}]
  <2>1. req[r].step = "register" /\ req[r].name \in Names /\ req[r].lang \in Languages /\ r \in Ids
    BY <1>3, <1>6 DEF Register, RegisterPartly, Ids
  <2>2. \/ UNCHANGED rows
        \/ \E e \in SUBSET {"GET", "POST"} :
              rows' = [rows EXCEPT ![req[r].name] = Row(req[r].lang, r, e)]
    BY <1>4, <1>6 DEF Register, RegisterPartly
  <2>4. rows' \in RowTables
    <3>1. ASSUME NEW e \in SUBSET {"GET", "POST"}
          PROVE  [rows EXCEPT ![req[r].name] = Row(req[r].lang, r, e)] \in RowTables
      BY <2>1, RowInserted
    <3> HIDE DEF Row, RowTables
    <3> QED BY <1>2, <2>2, <3>1
  <2>3. CreateFunctionCRD(req[r].name, req[r].lang) \/ UNCHANGED crs
    BY <1>6 DEF Register, RegisterPartly
  <2> QED BY <1>1, <2>1, <2>3, <2>4
<1>7. ASSUME NEW r \in Requests, Rollback(r)
      PROVE  rows' \in RowTables /\ crs' \in [Names -> Languages \cup {None}]
  <2>1. req[r].name \in Names /\ req[r].lang \in Languages /\ r \in Ids
    BY <1>3, <1>7 DEF Rollback, Ids
  <2>2. [rows EXCEPT ![req[r].name] = Row(req[r].lang, r, {})] \in RowTables
    BY <1>4, <2>1, RowInserted
  <2> QED BY <1>2, <1>7, <2>2 DEF Rollback
<1>8. ASSUME NEW r \in Requests, NEW p \in Paths, SyncPath(r, p)
      PROVE  rows' \in RowTables /\ crs' \in [Names -> Languages \cup {None}]
  <2>1. p[1] \in Languages /\ p[2] \in Names /\ r \in Ids
    BY DEF Paths, Ids
  <2>2. rows' \in RowTables
    <3>1. CASE rows[p[2]] # None
      <4>1. rows[p[2]].endpoints \cup {"GET"} \in SUBSET {"GET", "POST"}
        BY <1>2, <2>1, <3>1 DEF RowTables
      <4> QED BY <1>2, <1>8, <2>1, <3>1, <4>1, SyncRows, EndpointsChanged
    <3>2. CASE rows[p[2]] = None
      <4>1. [rows EXCEPT ![p[2]] = Row(p[1], r, {"GET"})] \in RowTables
        BY <1>4, <2>1, RowInserted
      <4> QED BY <1>2, <1>8, <3>2, <4>1, SyncRows
    <3> QED BY <3>1, <3>2
  <2>3. CreateFunctionCRD(p[2], p[1]) \/ UNCHANGED crs
    BY <1>8 DEF SyncPath
  <2> QED BY <1>1, <2>1, <2>2, <2>3
<1>9. ASSUME NEW n \in Names, UpdateEndpoint(n)
      PROVE  rows' \in RowTables /\ crs' \in [Names -> Languages \cup {None}]
  <2>1. PICK m \in rows[n].endpoints, new \in {"GET", "POST"} \ rows[n].endpoints :
           rows' = [rows EXCEPT ![n].endpoints = (rows[n].endpoints \ {m}) \cup {new}]
    BY <1>9 DEF UpdateEndpoint
  <2>2. rows[n] # None /\ rows[n].endpoints \in SUBSET {"GET", "POST"}
    BY <1>2, <1>9 DEF UpdateEndpoint, RowTables
  <2>3. (rows[n].endpoints \ {m}) \cup {new} \in SUBSET {"GET", "POST"}
    BY <2>2
  <2>4. rows' \in RowTables
    BY <2>1, <2>2, <2>3, EndpointsChanged
  <2> QED BY <1>2, <1>9, <2>4 DEF UpdateEndpoint
<1>10. ASSUME UNCHANGED <<rows, crs>>
       PROVE  rows' \in RowTables /\ crs' \in [Names -> Languages \cup {None}]
  BY <1>2, <1>10
<1>11. ASSUME NEW r \in Requests,
              \/ Begin(r) \/ Pull(r) \/ PullFails(r) \/ Look(r) \/ Write(r) \/ Remove(r)
              \/ Commit(r) \/ Push(r) \/ WriteWorkflow(r) \/ CommitWorkflow(r)
              \/ StepFails(r) \/ ListForSync(r) \/ WalkEnds(r)
       PROVE  UNCHANGED <<rows, crs>>
  BY <1>11 DEF Begin, Pull, PullFails, Look, Write, Remove, Commit, Push, WriteWorkflow,
               CommitWorkflow, StepFails, ListForSync, WalkEnds
<1>12. ASSUME PullForOther \/ Restart \/ UNCHANGED vars \/ \E p \in Paths : ExternalPush(p)
       PROVE  UNCHANGED <<rows, crs>>
  BY <1>12 DEF PullForOther, Restart, vars, ExternalPush
<1> QED
  BY <1>5, <1>6, <1>7, <1>8, <1>9, <1>10, <1>11, <1>12 DEF Next

------------------------------------------------------------------------------
(* What a pull does to the clone... *)
LEMMA PullFacts ==
    ASSUME Typed, PullBranch
    PROVE  /\ UNCHANGED <<workflow, ahead, remote, unsent>>
           /\ \/ UNCHANGED <<files, index, head, branch, moved>>
              \/ /\ moved /\ ~ahead /\ ~Unstaged
                 /\ head' = remote /\ index' = remote /\ moved' = FALSE
                 /\ branch' \in {"head", "level", "behind"}
                 /\ files' \in [Paths -> Codes]
                 /\ \A p \in Paths : \/ files'[p] = remote[p]
                                     \/ /\ index[p] = None /\ remote[p] = None
                                        /\ files'[p] = files[p]
<1>1. UNCHANGED <<workflow, ahead, remote, unsent>>
  BY DEF PullBranch
<1>2. CASE moved
  <2>1. ~ahead /\ ~Unstaged /\ head' = remote /\ index' = remote /\ moved' = FALSE
    BY <1>2 DEF PullBranch
  <2>2. branch' \in {"head", "level", "behind"}
    BY <1>2 DEF PullBranch, Typed
  <2>3. PICK kept \in SUBSET {p \in Paths : index[p] = None /\ remote[p] = None} :
           files' = [p \in Paths |-> IF p \in kept THEN files[p] ELSE remote[p]]
    BY <1>2 DEF PullBranch
  <2>4. files' \in [Paths -> Codes]
    BY <2>3 DEF Typed
  <2>5. \A p \in Paths : \/ files'[p] = remote[p]
                         \/ /\ index[p] = None /\ remote[p] = None
                            /\ files'[p] = files[p]
    BY <2>3
  <2> QED BY <1>1, <1>2, <2>1, <2>2, <2>4, <2>5
<1>3. CASE ~moved
  BY <1>1, <1>3 DEF PullBranch
<1> QED
  BY <1>2, <1>3

(* ... and one that stops. *)
LEMMA StopFacts ==
    ASSUME PullStops
    PROVE  /\ UNCHANGED <<files, index, workflow, branch, ahead, remote, unsent>>
           /\ \/ UNCHANGED <<head, moved>>
              \/ ~ahead /\ Unstaged /\ head' = remote /\ moved' = FALSE
BY DEF PullStops

(* What a commit does to it. *)
LEMMA CommitFacts ==
    ASSUME NEW r \in Requests, Commit(r)
    PROVE  LET p == PathOf(req[r]) IN
           /\ UNCHANGED <<files, workflow, branch, remote, moved, unsent, pushes>>
           /\ \/ Lost(p, files, index) /\ GiveUp(r) /\ UNCHANGED <<index, head, ahead>>
              \/ /\ ~Lost(p, files, index)
                 /\ index' = [index EXCEPT ![p] = files[p]] /\ head' = index'
                 /\ ahead' = (ahead \/ head' # head)
                 /\ head' = head /\ req[r].op = "delete" => GiveUp(r)
BY DEF Commit, Lost

(* What a push that is not refused does. *)
LEMMA PushFacts ==
    ASSUME NEW r \in Requests, Push(r)
    PROVE  /\ UNCHANGED <<files, index, head, workflow, branch, moved, pushes>>
           /\ \/ Refused /\ UNCHANGED <<remote, ahead, unsent>>
              \/ ~Refused /\ remote' = head /\ ahead' = FALSE /\ UNCHANGED unsent
              \/ /\ ~Refused /\ UNCHANGED <<remote, ahead>>
                 /\ unsent' = IF ahead THEN unsent \cup {r} ELSE unsent
BY DEF Push, SendBranch

(* Most steps leave the clone and the remote alone... *)
Still == UNCHANGED <<repoVars, unsent, pushes>>

(* ... and these do not. *)
LEMMA RepoSteps ==
    ASSUME [Next]_vars
    PROVE  \/ Still
           \/ (PullBranch \/ PullStops) /\ UNCHANGED pushes
           \/ Restart
           \/ \E p \in Paths : ExternalPush(p)
           \/ \E r \in Requests : \/ Write(r) \/ Remove(r) \/ Commit(r) \/ Push(r)
                                  \/ WriteWorkflow(r) \/ CommitWorkflow(r)
<1>1. ASSUME NEW r \in Requests,
             \/ Begin(r) \/ Look(r) \/ Drop(r) \/ Register(r) \/ RegisterPartly(r)
             \/ Rollback(r) \/ StepFails(r) \/ ListForSync(r) \/ WalkEnds(r)
             \/ \E p \in Paths : SyncPath(r, p)
      PROVE  Still
  BY <1>1 DEF Begin, Look, Drop, Register, RegisterPartly, Rollback, StepFails, ListForSync,
              WalkEnds, SyncPath, Still
<1>2. ASSUME NEW r \in Requests, Pull(r) \/ PullFails(r)
      PROVE  Still \/ ((PullBranch \/ PullStops) /\ UNCHANGED pushes)
  BY <1>2 DEF Pull, PullFails, Still
<1>3. ASSUME PullForOther
      PROVE  (PullBranch \/ PullStops) /\ UNCHANGED pushes
  BY <1>3 DEF PullForOther
<1>4. ASSUME UNCHANGED vars \/ \E n \in Names : UpdateEndpoint(n)
      PROVE  Still
  BY <1>4 DEF vars, UpdateEndpoint, Still
<1> QED
  BY <1>1, <1>2, <1>3, <1>4 DEF Next

(* Every step keeps the types of the repository... *)
RepoIsTyped ==
    /\ files \in [Paths -> Codes] /\ index \in [Paths -> Codes] /\ head \in [Paths -> Codes]
    /\ workflow \in {"staged", "changed"} /\ branch \in {"head", "level", "behind"}
    /\ remote \in [Paths -> Codes]
    /\ ahead \in BOOLEAN /\ moved \in BOOLEAN
    /\ unsent \subseteq Requests /\ pushes \in 0..MaxPushes
(* ... whichever it is... *)
LEMMA RepoTyped ==
    ASSUME Typed, StepsFollowOp, [Next]_vars
    PROVE  RepoIsTyped'
<1>1. RepoIsTyped
  BY DEF Typed, RepoIsTyped
<1>0. None \in Codes /\ Requests \subseteq Codes
  BY DEF Codes, Ids
<1>2. ASSUME Still PROVE RepoIsTyped'
  BY <1>1, <1>2 DEF Still, repoVars, RepoIsTyped
<1>3. ASSUME PullBranch, UNCHANGED pushes PROVE RepoIsTyped'
  <2>1. CASE UNCHANGED <<files, index, head, branch, moved>>
    BY <1>1, <1>3, <2>1, PullFacts DEF RepoIsTyped
  <2>2. CASE /\ head' = remote /\ index' = remote /\ moved' = FALSE
             /\ branch' \in {"head", "level", "behind"} /\ files' \in [Paths -> Codes]
    <3>1. UNCHANGED <<workflow, ahead, remote, unsent>>
      BY <1>3, PullFacts
    <3> QED BY <1>1, <1>3, <2>2, <3>1 DEF RepoIsTyped
  <2> QED BY <1>3, <2>1, <2>2, PullFacts
<1>4. ASSUME PullStops, UNCHANGED pushes PROVE RepoIsTyped'
  BY <1>1, <1>4, StopFacts DEF RepoIsTyped
<1>5. ASSUME Restart PROVE RepoIsTyped'
  BY <1>1, <1>5 DEF Restart, RepoIsTyped
<1>6. ASSUME NEW p \in Paths, ExternalPush(p) PROVE RepoIsTyped'
  <2>1. pushes' \in 0..MaxPushes /\ pushes + 1 \in Codes
    BY <1>1, <1>6 DEF ExternalPush, Codes, Pushed, RepoIsTyped
  <2>2. remote' \in [Paths -> Codes]
    BY <1>1, <1>6, <2>1 DEF ExternalPush, RepoIsTyped
  <2>3. moved' \in BOOLEAN /\ branch' \in {"head", "level", "behind"}
    BY <1>1, <1>6 DEF ExternalPush, RepoIsTyped
  <2> QED BY <1>1, <1>6, <2>1, <2>2, <2>3 DEF ExternalPush, RepoIsTyped
<1>7. ASSUME NEW r \in Requests, Write(r) \/ Remove(r) PROVE RepoIsTyped'
  BY <1>0, <1>1, <1>7 DEF Write, Remove, RepoIsTyped
<1>8. ASSUME NEW r \in Requests, Commit(r) PROVE RepoIsTyped'
  <2>1. ahead' \in BOOLEAN
    BY <1>1, <1>8, CommitFacts DEF RepoIsTyped
  <2>2. PathOf(req[r]) \in Paths
    BY <1>8 DEF Commit, StepsFollowOp, Follows, PathOf, Paths, Writing
  <2>3. index' \in [Paths -> Codes] /\ head' \in [Paths -> Codes]
    BY <1>1, <1>8, <2>2, CommitFacts DEF RepoIsTyped
  <2> QED BY <1>1, <1>8, <2>1, <2>3, CommitFacts DEF RepoIsTyped
<1>9. ASSUME NEW r \in Requests, Push(r) PROVE RepoIsTyped'
  BY <1>1, <1>9, PushFacts DEF RepoIsTyped
<1>10. ASSUME NEW r \in Requests, WriteWorkflow(r) PROVE RepoIsTyped'
  BY <1>1, <1>10 DEF WriteWorkflow, RepoIsTyped
<1>11. ASSUME NEW r \in Requests, CommitWorkflow(r) PROVE RepoIsTyped'
  BY <1>1, <1>11 DEF CommitWorkflow, RepoIsTyped
<1> QED
  BY <1>2, <1>3, <1>4, <1>5, <1>6, <1>7, <1>8, <1>9, <1>10, <1>11, RepoSteps

(* ... and the number of faults. *)
LEMMA FaultsTyped ==
    ASSUME Typed, [Next]_vars
    PROVE  faults' \in 0..MaxFaults
<1>1. faults \in 0..MaxFaults
  BY DEF Typed
<1>2. ASSUME Fault \/ UNCHANGED faults PROVE faults' \in 0..MaxFaults
  BY <1>1, <1>2 DEF Fault
<1>3. ASSUME NEW r \in Requests,
             \/ Begin(r) \/ Pull(r) \/ PullFails(r) \/ Look(r) \/ Write(r) \/ Drop(r) \/ Remove(r)
             \/ Commit(r) \/ Push(r) \/ WriteWorkflow(r) \/ CommitWorkflow(r)
             \/ Register(r) \/ RegisterPartly(r) \/ Rollback(r)
             \/ StepFails(r) \/ ListForSync(r) \/ WalkEnds(r) \/ \E p \in Paths : SyncPath(r, p)
      PROVE  Fault \/ UNCHANGED faults
  BY <1>3 DEF Begin, Pull, PullFails, Look, Write, Drop, Remove, Commit, Push, WriteWorkflow,
              CommitWorkflow, Register, RegisterPartly, Rollback, StepFails, ListForSync, WalkEnds,
              SyncPath
<1>4. ASSUME \/ PullForOther \/ Restart \/ UNCHANGED vars
             \/ \E n \in Names : UpdateEndpoint(n)
             \/ \E p \in Paths : ExternalPush(p)
      PROVE  Fault \/ UNCHANGED faults
  BY <1>4 DEF PullForOther, Restart, vars, UpdateEndpoint, ExternalPush
<1> QED
  BY <1>2, <1>3, <1>4 DEF Next

(* Every step keeps the types. *)
LEMMA NextTyped ==
    ASSUME Typed, StepsFollowOp, [Next]_vars
    PROVE  Typed'
BY RequestsTyped, RowsTyped, RepoTyped, FaultsTyped DEF Typed, RepoIsTyped

------------------------------------------------------------------------------
(* At first all requests wait, and the branch is what the remote has. *)
LEMMA InitInv == Init => IInv
<1> SUFFICES ASSUME Init PROVE IInv
  OBVIOUS
<1>1. /\ None \in Codes /\ Seed \in Codes /\ Seed \in Ids /\ {"GET"} \in SUBSET {"GET", "POST"}
      /\ NoRows \in RowTables /\ NoFiles \in [Paths -> Codes]
      /\ \A p \in Paths : NoFiles[p] \in {None, Seed}
  BY DEF Codes, Ids, NoRows, RowTables, NoFiles
<1>2. Waiting \in Requested
  BY <1>1 DEF Waiting, Requested, Steps, Ended
<1>3. /\ req \in [Requests -> Requested]
      /\ \A r \in Requests :
            /\ req[r].op = None /\ req[r].step = "waiting" /\ req[r].lang = None
            /\ req[r].was = None /\ req[r].answer = None
  BY <1>2 DEF Init, Waiting
<1>4. /\ rows \in RowTables /\ crs \in [Names -> Languages \cup {None}]
      /\ files \in [Paths -> Codes] /\ \A p \in Paths : files[p] \in {None, Seed}
  <2>1. CASE rows = NoRows /\ crs = NoRows /\ files = NoFiles
    BY <1>1, <2>1 DEF NoRows
  <2>2. ASSUME NEW l \in Languages, NEW n \in Names, rows = [NoRows EXCEPT ![n] = Row(l, Seed, {"GET"})],
               crs = [NoRows EXCEPT ![n] = l], files = [NoFiles EXCEPT ![<<l, n>>] = Seed]
        PROVE  /\ rows \in RowTables /\ crs \in [Names -> Languages \cup {None}]
               /\ files \in [Paths -> Codes] /\ \A p \in Paths : files[p] \in {None, Seed}
    <3>1. Row(l, Seed, {"GET"}) \in [lang: Languages, id: Ids, endpoints: SUBSET {"GET", "POST"}]
      BY <1>1 DEF Row
    <3> HIDE DEF Row
    <3>2. rows \in RowTables
      BY <1>1, <2>2, <3>1 DEF RowTables
    <3>3. crs \in [Names -> Languages \cup {None}]
      BY <2>2 DEF NoRows
    <3>4. files \in [Paths -> Codes] /\ \A p \in Paths : files[p] \in {None, Seed}
      BY <1>1, <2>2
    <3> QED BY <3>2, <3>3, <3>4
  <2> QED BY <2>1, <2>2 DEF Init
<1>5. Typed
  <2>1. /\ ahead \in BOOLEAN /\ moved \in BOOLEAN
        /\ workflow \in {"staged", "changed"} /\ branch \in {"head", "level", "behind"}
    BY DEF Init
  <2>2. index = files /\ head = files /\ remote = files /\ unsent = {} /\ pushes = 0 /\ faults = MaxFaults
    BY DEF Init
  <2> QED BY <1>3, <1>4, <2>1, <2>2 DEF Typed
<1>6. StepsFollowOp
  BY <1>3 DEF StepsFollowOp, Follows, Writing, Ops
<1>7. ContentIsNew
  <2>1. None \notin Unwritten /\ Seed \notin Unwritten
    BY DEF Unwritten, Ids
  <2> QED BY <1>3, <1>4, <2>1 DEF ContentIsNew, Init
<1>8. BehindIsPushed /\ StaleIsUnstaged
  BY DEF Init, BehindIsPushed, StaleIsUnstaged
<1>9. CreateProgresses /\ OldIsGone /\ SentIsGone
  BY <1>3 DEF CreateProgresses, OldIsGone, SentIsGone, GoneFrom, Ops
<1> QED
  BY <1>5, <1>6, <1>7, <1>8, <1>9 DEF IInv

------------------------------------------------------------------------------
(* What a request keeps in every step. *)
Keeps(q) ==
    /\ req[q].op # None => req'[q].op = req[q].op /\ req'[q].name = req[q].name
    /\ HasWritten(req[q]) => HasWritten(req'[q])
    /\ \/ req'[q].was = None
       \/ req'[q].was = req[q].was /\ PathOf(req'[q]) = PathOf(req[q])
       \/ /\ Write(q) \/ Remove(q)
          /\ req'[q].was = head[PathOf(req[q])] /\ PathOf(req'[q]) = PathOf(req[q])
    /\ req'[q].op = "create" =>
          \/ req'[q].step = "pull" /\ req'[q].answer = None
          \/ req[q].op = "create" /\ PathOf(req'[q]) = PathOf(req[q])

(* A request that is not moved keeps it all... *)
LEMMA OthersKeep ==
    ASSUME NEW r \in Requests, Keeps(r), \A q \in Requests \ {r} : req'[q] = req[q]
    PROVE  \A q \in Requests : Keeps(q)
BY DEF Keeps

(* ... and so does one that is. *)
LEMMA RequestsKeep ==
    ASSUME Typed, StepsFollowOp, [Next]_vars
    PROVE  \A q \in Requests : Keeps(q)
<1> DEFINE Goal == \A q \in Requests : Keeps(q)
<1>1. ASSUME NEW r \in Requests, Begin(r) PROVE Goal
  <2>1. req[r].op = None
    BY <1>1 DEF Begin, StepsFollowOp, Follows
  <2>2. Keeps(r)
    BY <1>1, <2>1, BeginMoves DEF Keeps, HasWritten, Ops
  <2> QED BY <1>1, <2>2, BeginMoves, OthersKeep
<1>2. ASSUME NEW r \in Requests, NEW step, NEW a, req[r].step \notin Ended,
             Moved(r, step, req[r].lang, req[r].was, a),
             HasWritten(req[r]) => step \in {"commit", "push", "register", "done"}
      PROVE  Goal
  <2>1. Keeps(r)
    BY <1>2 DEF Keeps, Moved, HasWritten, PathOf
  <2> QED BY <1>2, <2>1, OthersKeep DEF Moved
<1>3. ASSUME NEW r \in Requests, req[r].step \notin Ended, Fails(r) \/ GivesUp(r) PROVE Goal
  BY <1>2, <1>3 DEF Fails, GivesUp, On, HasWritten
<1>4. ASSUME NEW r \in Requests, NEW step, On(r, step),
             \/ req[r].step \notin Ended \cup {"commit", "push", "register"}
             \/ step \in {"commit", "push", "register", "done"} /\ req[r].step \notin Ended
      PROVE  Goal
  BY <1>2, <1>4 DEF On, HasWritten, Ended
<1>5. ASSUME NEW r \in Requests, Pull(r) \/ PullFails(r) PROVE Goal
  BY <1>3, <1>4, <1>5, ReadingMoves DEF Ended
<1>6. ASSUME NEW r \in Requests, Look(r) PROVE Goal
  <2>1. req[r].step = "look" /\ req[r].was = None
    BY <1>6, ReadingMoves DEF StepsFollowOp, Follows
  <2>2. ASSUME req[r].op \in {"update", "delete"}, NEW step, NEW l,
               Moved(r, step, l, req[r].was, req[r].answer)
        PROVE  Goal
    <3>1. Keeps(r)
      BY <2>1, <2>2 DEF Keeps, Moved, HasWritten
    <3> QED BY <2>2, <3>1, OthersKeep DEF Moved
  <2> QED BY <1>3, <1>4, <1>6, <2>1, <2>2, ReadingMoves DEF Ended
<1>7. ASSUME NEW r \in Requests, Write(r) \/ Remove(r) PROVE Goal
  <2>1. CASE Moved(r, "commit", req[r].lang, head[PathOf(req[r])], req[r].answer)
    <3>1. req[r].step \in {"write", "remove"}
      BY <1>7, WritingMoves
    <3>2. Keeps(r)
      BY <1>7, <2>1, <3>1 DEF Keeps, Moved, HasWritten, PathOf
    <3> QED BY <2>1, <3>2, OthersKeep DEF Moved
  <2>2. CASE req[r].step = "remove" /\ On(r, "rollback")
    BY <1>4, <2>2 DEF Ended
  <2> QED BY <1>7, <2>1, <2>2, WritingMoves
<1>8. ASSUME NEW r \in Requests, Commit(r) PROVE Goal
  BY <1>3, <1>4, <1>8, WritingMoves DEF Ended
<1>9. ASSUME NEW r \in Requests, Push(r) \/ WriteWorkflow(r) \/ CommitWorkflow(r) PROVE Goal
  BY <1>2, <1>3, <1>4, <1>9, WritingMoves DEF Ended
<1>10. ASSUME NEW r \in Requests, Drop(r) \/ Rollback(r) \/ StepFails(r) PROVE Goal
  BY <1>3, <1>4, <1>10, OtherMoves DEF Ended
<1>11. ASSUME NEW r \in Requests, Register(r) \/ RegisterPartly(r) PROVE Goal
  BY <1>2, <1>3, <1>11, OtherMoves DEF Ended
<1>12. ASSUME NEW r \in Requests,
              ListForSync(r) \/ WalkEnds(r) \/ \E p \in Paths : SyncPath(r, p)
       PROVE  Goal
  BY <1>4, <1>12, OtherMoves DEF Ended
<1>13. CASE Restart
  BY <1>13, RestartMoves DEF Keeps, HasWritten, PathOf
<1>14. CASE UNCHANGED req
  BY <1>14 DEF Keeps
<1>15. ASSUME \/ PullForOther \/ UNCHANGED vars
              \/ \E n \in Names : UpdateEndpoint(n)
              \/ \E p \in Paths : ExternalPush(p)
       PROVE  UNCHANGED req
  BY <1>15 DEF PullForOther, vars, UpdateEndpoint, ExternalPush
<1> QED
  BY <1>1, <1>5, <1>6, <1>7, <1>8, <1>9, <1>10, <1>11, <1>12, <1>13, <1>14, <1>15 DEF Next

(* A deletion that was set out for stays one. *)
LEMMA DeletingKept ==
    ASSUME Typed, StepsFollowOp, [Next]_vars, NEW n, Deleting(n)
    PROVE  Deleting(n)'
<1>1. PICK r \in Requests : req[r].op = "delete" /\ req[r].name = n
  BY DEF Deleting
<1>2. req'[r].op = "delete" /\ req'[r].name = n
  BY <1>1, RequestsKeep DEF Keeps, Ops
<1> QED
  BY <1>2 DEF Deleting

(* What is written in a step was not before, and nothing else becomes new. *)
LEMMA UnwrittenShrinks ==
    ASSUME Typed, StepsFollowOp, [Next]_vars
    PROVE  /\ Unwritten' \subseteq Unwritten /\ None \notin Unwritten
           /\ \A r \in Requests : Write(r) => r \notin Unwritten'
           /\ \A p \in Paths : ExternalPush(p) => pushes + 1 \notin Unwritten'
<1>1. pushes \in Nat /\ pushes' \in Nat /\ Pushed \subseteq Nat
  BY RepoTyped DEF RepoIsTyped, Typed, Pushed
<1>2. pushes' >= pushes
  <2>1. UNCHANGED pushes \/ \E p \in Paths : ExternalPush(p)
    BY RepoSteps DEF Still, Restart, Write, Remove, Commit, Push, WriteWorkflow, CommitWorkflow
  <2> QED BY <1>1, <2>1 DEF ExternalPush
<1>3. Unwritten' \subseteq Unwritten
  <2>1. \A r \in Requests : HasWritten(req[r]) => HasWritten(req'[r])
    BY RequestsKeep DEF Keeps
  <2>2. ASSUME NEW n \in Pushed, n > pushes' PROVE n > pushes
    <3>1. n \in Nat /\ pushes \in Nat /\ pushes' \in Nat
      BY <1>1
    <3> QED BY <1>2, <2>2, <3>1
  <2> QED BY <2>1, <2>2 DEF Unwritten
<1>4. None \notin Unwritten
  BY DEF Unwritten, Ids
<1>5. ASSUME NEW r \in Requests, Write(r) PROVE r \notin Unwritten'
  <2>1. req[r].op \in {"create", "update"}
    BY <1>5, WritingMoves DEF StepsFollowOp, Follows
  <2>2. HasWritten(req'[r])
    BY <1>5, <2>1, WritingMoves DEF Moved, HasWritten
  <2>3. r \notin Pushed
    BY DEF Ids
  <2> QED BY <2>2, <2>3 DEF Unwritten
<1>6. ASSUME NEW p \in Paths, ExternalPush(p) PROVE pushes + 1 \notin Unwritten'
  <2>1. pushes' = pushes + 1 /\ pushes + 1 \in Pushed
    BY <1>6, <1>1 DEF ExternalPush, Pushed, Typed
  <2>2. pushes + 1 \notin Requests
    BY <2>1 DEF Ids
  <2> QED BY <1>1, <2>1, <2>2 DEF Unwritten
<1> QED
  BY <1>3, <1>4, <1>5, <1>6

(* Paths of the steps that write. *)
LEMMA PathsKnown ==
    ASSUME Typed, StepsFollowOp, NEW r \in Requests,
           req[r].op = "create" \/ (req[r].op # "sync" /\ req[r].step \in Writing)
    PROVE  PathOf(req[r]) \in Paths
<1>1. req[r].op \in Ops
  BY DEF StepsFollowOp, Follows, Typed, Requested, Writing, Ops
<1>2. req[r].op \in {"create", "update", "delete"}
  BY <1>1 DEF Ops
<1> QED
  BY <1>2 DEF StepsFollowOp, Follows, PathOf, Paths

(* A commit is of a path. *)
LEMMA CommitPath ==
    ASSUME StepsFollowOp, NEW r \in Requests,
           req[r].step \in {"write", "remove", "commit", "register"}
    PROVE  req[r].op # "sync" /\ PathOf(req[r]) \in Paths
BY DEF StepsFollowOp, Follows, PathOf, Paths, Writing

(* Every step keeps what is unwritten new. *)
LEMMA NextContent ==
    ASSUME Typed, StepsFollowOp, ContentIsNew, [Next]_vars
    PROVE  ContentIsNew'
<1> DEFINE Old(c) == c \notin Unwritten'
           Goal(p) == Old(files'[p]) /\ Old(index'[p]) /\ Old(head'[p]) /\ Old(remote'[p])
<1>1. /\ \A c : c \notin Unwritten => Old(c)
      /\ Old(None)
      /\ \A r \in Requests : Write(r) => Old(r)
      /\ \A p \in Paths : ExternalPush(p) => Old(pushes + 1)
  BY UnwrittenShrinks
<1>2. /\ \A p \in Paths : Old(files[p]) /\ Old(index[p]) /\ Old(head[p]) /\ Old(remote[p])
      /\ \A r \in Requests : Old(req[r].was)
  BY <1>1 DEF ContentIsNew
<1> HIDE DEF Old
<1>3. /\ files \in [Paths -> Codes] /\ index \in [Paths -> Codes] /\ head \in [Paths -> Codes]
      /\ remote \in [Paths -> Codes]
  BY DEF Typed
<1>4. ASSUME NEW p \in Paths PROVE Goal(p)
  <2>1. CASE Still
    BY <1>2, <2>1 DEF Still, repoVars
  <2>2. CASE PullBranch
    BY <1>2, <2>2, PullFacts
  <2>3. CASE PullStops
    BY <1>2, <2>3, StopFacts
  <2>4. CASE Restart
    BY <1>2, <2>4 DEF Restart
  <2>5. ASSUME NEW p1 \in Paths, ExternalPush(p1) PROVE Goal(p)
    BY <1>1, <1>2, <1>3, <2>5 DEF ExternalPush
  <2>6. ASSUME NEW r \in Requests, Write(r) \/ Remove(r) PROVE Goal(p)
    BY <1>1, <1>2, <1>3, <2>6 DEF Write, Remove
  <2>7. ASSUME NEW r \in Requests, Commit(r) PROVE Goal(p)
    BY <1>2, <1>3, <2>7, CommitFacts
  <2>8. ASSUME NEW r \in Requests, Push(r) PROVE Goal(p)
    BY <1>2, <2>8, PushFacts
  <2>9. ASSUME NEW r \in Requests, WriteWorkflow(r) \/ CommitWorkflow(r) PROVE Goal(p)
    BY <1>2, <2>9 DEF WriteWorkflow, CommitWorkflow
  <2> QED
    BY <2>1, <2>2, <2>3, <2>4, <2>5, <2>6, <2>7, <2>8, <2>9, RepoSteps
<1>5. ASSUME NEW r \in Requests PROVE Old(req'[r].was)
  <2>1. Write(r) \/ Remove(r) => PathOf(req[r]) \in Paths
    BY CommitPath, WritingMoves
  <2> QED BY <1>1, <1>2, <2>1, RequestsKeep DEF Keeps
<1> QED
  BY <1>4, <1>5 DEF ContentIsNew, Old

(* Every step keeps a stale index beside what stops the next pull. *)
LEMMA NextStale ==
    ASSUME Typed, StepsFollowOp, ContentIsNew, StaleIsUnstaged, [Next]_vars
    PROVE  StaleIsUnstaged'
<1>1. /\ files \in [Paths -> Codes] /\ index \in [Paths -> Codes] /\ head \in [Paths -> Codes]
  BY DEF Typed
<1>2. ASSUME UNCHANGED <<files, index, workflow>> PROVE Unstaged => Unstaged'
  BY <1>2 DEF Unstaged
<1>3. CASE Still
  BY <1>2, <1>3 DEF Still, repoVars, StaleIsUnstaged
<1>4. CASE PullBranch
  <2>1. UNCHANGED <<files, index, head, workflow>> \/ index' = head'
    BY <1>4, PullFacts
  <2> QED BY <1>2, <2>1 DEF StaleIsUnstaged
<1>5. CASE PullStops
  BY <1>2, <1>5, StopFacts DEF StaleIsUnstaged
<1>6. CASE Restart
  BY <1>6 DEF Restart, StaleIsUnstaged
<1>7. ASSUME NEW p \in Paths, ExternalPush(p) PROVE StaleIsUnstaged'
  BY <1>2, <1>7 DEF ExternalPush, StaleIsUnstaged
<1>8. ASSUME NEW r \in Requests, Write(r) \/ Remove(r) PROVE StaleIsUnstaged'
  <2>1. UNCHANGED <<index, head, workflow>>
    BY <1>8 DEF Write, Remove
  <2>2. ASSUME NEW p \in Paths, index[p] # None, files[p] # index[p]
        PROVE  files'[p] # index[p]
    <3>1. index[p] \notin Unwritten /\ (Write(r) => r \in Unwritten)
      BY DEF ContentIsNew, Write, Unwritten, HasWritten
    <3>2. files'[p] \in {files[p], None} \/ (Write(r) /\ files'[p] = r)
      BY <1>1, <1>8 DEF Write, Remove
    <3> QED BY <2>2, <3>1, <3>2
  <2>3. Unstaged => Unstaged'
    BY <2>1, <2>2 DEF Unstaged
  <2> QED BY <2>1, <2>3 DEF StaleIsUnstaged
<1>9. ASSUME NEW r \in Requests, Commit(r) PROVE StaleIsUnstaged'
  BY <1>2, <1>9, CommitFacts DEF StaleIsUnstaged
<1>10. ASSUME NEW r \in Requests, Push(r) PROVE StaleIsUnstaged'
  BY <1>2, <1>10, PushFacts DEF StaleIsUnstaged
<1>11. ASSUME NEW r \in Requests, WriteWorkflow(r) PROVE StaleIsUnstaged'
  BY <1>11 DEF WriteWorkflow, StaleIsUnstaged, Unstaged
<1>12. ASSUME NEW r \in Requests, CommitWorkflow(r) PROVE StaleIsUnstaged'
  BY <1>12 DEF CommitWorkflow, StaleIsUnstaged
<1> QED
  BY <1>3, <1>4, <1>5, <1>6, <1>7, <1>8, <1>9, <1>10, <1>11, <1>12, RepoSteps

(* Every step keeps HEAD ahead, or behind pushes only. *)
LEMMA NextBehind ==
    ASSUME Typed, StepsFollowOp, ContentIsNew, BehindIsPushed, [Next]_vars
    PROVE  BehindIsPushed'
<1> DEFINE Behind(p, c) == c \in Pushed /\ \A r \in Requests : PathOf(req[r]) = p => req[r].was # c
<1> SUFFICES ASSUME ~ahead', NEW p \in Paths
             PROVE  remote'[p] = head'[p] \/ Behind(p, remote[p])'
  BY DEF BehindIsPushed
<1>1. head \in [Paths -> Codes] /\ remote \in [Paths -> Codes]
  BY DEF Typed
<1>2. ~ahead => remote[p] = head[p] \/ Behind(p, remote[p])
  BY DEF BehindIsPushed
<1>3. None \notin Pushed
  OBVIOUS
<1>4. ASSUME UNCHANGED <<head, remote>>, ~ahead
      PROVE  remote'[p] = head'[p] \/ Behind(p, remote[p])'
  <2>1. CASE remote[p] = head[p]
    BY <1>4, <2>1
  <2>2. CASE remote[p] # head[p] /\ Behind(p, remote[p])
    <3>1. ASSUME NEW r \in Requests, PathOf(req'[r]) = p PROVE req'[r].was # remote[p]
      BY <1>3, <2>2, <3>1, RequestsKeep DEF Keeps
    <3> QED BY <1>4, <2>2, <3>1
  <2> QED BY <1>2, <1>4, <2>1, <2>2
<1>5. ASSUME head' = remote, remote' = remote
      PROVE  remote'[p] = head'[p] \/ Behind(p, remote[p])'
  BY <1>5
<1>6. CASE Still
  BY <1>4, <1>6 DEF Still, repoVars
<1>7. CASE PullBranch
  BY <1>4, <1>5, <1>7, PullFacts
<1>8. CASE PullStops
  BY <1>4, <1>5, <1>8, StopFacts
<1>9. CASE Restart
  BY <1>9 DEF Restart
<1>10. ASSUME NEW p1 \in Paths, ExternalPush(p1)
       PROVE  remote'[p] = head'[p] \/ Behind(p, remote[p])'
  <2>1. UNCHANGED <<head, ahead, req>> /\ remote' = [remote EXCEPT ![p1] = pushes + 1]
    BY <1>10 DEF ExternalPush
  <2>2. pushes + 1 \in Pushed /\ pushes + 1 \in Unwritten
    BY <1>10 DEF ExternalPush, Unwritten, Pushed, Typed
  <2>3. CASE p = p1
    BY <1>1, <2>1, <2>2, <2>3 DEF ContentIsNew
  <2>4. CASE p # p1
    BY <1>1, <1>2, <2>1, <2>4
  <2> QED BY <2>3, <2>4
<1>11. ASSUME NEW r \in Requests, Write(r) \/ Remove(r) \/ WriteWorkflow(r)
       PROVE  remote'[p] = head'[p] \/ Behind(p, remote[p])'
  BY <1>4, <1>11 DEF Write, Remove, WriteWorkflow
<1>12. ASSUME NEW r \in Requests, Commit(r)
       PROVE  remote'[p] = head'[p] \/ Behind(p, remote[p])'
  <2>1. UNCHANGED <<head, remote>> /\ ~ahead
    BY <1>12, CommitFacts
  <2> QED BY <1>4, <2>1
<1>13. ASSUME NEW r \in Requests, CommitWorkflow(r)
       PROVE  remote'[p] = head'[p] \/ Behind(p, remote[p])'
  <2>1. UNCHANGED <<head, remote>> /\ ~ahead
    BY <1>13 DEF CommitWorkflow
  <2> QED BY <1>4, <2>1
<1>14. ASSUME NEW r \in Requests, Push(r)
       PROVE  remote'[p] = head'[p] \/ Behind(p, remote[p])'
  BY <1>4, <1>14, PushFacts
<1> QED
  BY <1>6, <1>7, <1>8, <1>9, <1>10, <1>11, <1>12, <1>13, <1>14, RepoSteps

------------------------------------------------------------------------------
(* How a request gets to a step of its publication, and to its answer. *)
Reaches(q) ==
    /\ req'[q].step \in {"commit", "push", "register"} =>
          \/ req'[q] = req[q]
          \/ req'[q].step = "commit" /\ Write(q)
          \/ req'[q].step = "commit" /\ Remove(q)
          \/ req'[q].step = "push" /\ Commit(q)
          \/ req'[q].step = "push" /\ CommitWorkflow(q) /\ req'[q].op = "sync"
          \/ req'[q].step = "register" /\ Push(q) /\ ~Refused
    /\ req'[q].answer = "ok" =>
          \/ req[q].answer = "ok" /\ req[q].step = "done"
          \/ Push(q) /\ ~Refused /\ req[q].op # "create"
          \/ /\ Register(q) \/ RegisterPartly(q)
             /\ \E e \in SUBSET {"GET", "POST"} :
                   rows' = [rows EXCEPT ![req[q].name] = Row(req[q].lang, q, e)]

(* The requests that do not move are where they were... *)
LEMMA OthersReach ==
    ASSUME StepsFollowOp, NEW r \in Requests, Reaches(r), \A q \in Requests \ {r} : req'[q] = req[q]
    PROVE  \A q \in Requests : Reaches(q)
BY DEF Reaches, StepsFollowOp, Follows

(* ... and one that does gets there by the steps of its handler only. *)
LEMMA RequestsReach ==
    ASSUME Typed, StepsFollowOp, [Next]_vars
    PROVE  \A q \in Requests : Reaches(q)
<1> DEFINE Goal == \A q \in Requests : Reaches(q)
<1>1. ASSUME NEW r \in Requests, Begin(r) PROVE Goal
  <2>1. Reaches(r)
    BY <1>1, BeginMoves DEF Reaches
  <2> QED BY <1>1, <2>1, BeginMoves, OthersReach
<1>2. ASSUME NEW r \in Requests, NEW step, NEW lang, NEW was, NEW a, Moved(r, step, lang, was, a),
             step \notin {"commit", "push", "register"}, a # "ok"
      PROVE  Goal
  <2>1. Reaches(r)
    BY <1>2 DEF Reaches, Moved
  <2> QED BY <1>2, <2>1, OthersReach DEF Moved
<1>3. ASSUME NEW r \in Requests, Fails(r) \/ GivesUp(r), req[r].step \notin Ended PROVE Goal
  <2>1. req[r].answer # "ok"
    BY <1>3 DEF StepsFollowOp, Follows, Ended
  <2> QED BY <1>2, <1>3, <2>1 DEF Fails, GivesUp, On
<1>4. ASSUME NEW r \in Requests, NEW step, On(r, step), req[r].step # "done",
             step \notin {"commit", "push", "register"}
      PROVE  Goal
  <2>1. req[r].answer # "ok"
    BY <1>4 DEF StepsFollowOp, Follows
  <2> QED BY <1>2, <1>4, <2>1 DEF On
<1>5. ASSUME NEW r \in Requests, Pull(r) \/ PullFails(r) PROVE Goal
  BY <1>3, <1>4, <1>5, ReadingMoves
<1>6. ASSUME NEW r \in Requests, Look(r) PROVE Goal
  <2>1. req[r].step = "look" /\ req[r].answer # "ok"
    BY <1>6, ReadingMoves DEF StepsFollowOp, Follows
  <2> QED BY <1>2, <1>3, <1>4, <1>6, <2>1, ReadingMoves DEF Ended
<1>7. ASSUME NEW r \in Requests, Write(r) \/ Remove(r) PROVE Goal
  <2>1. req[r].step \in {"write", "remove"} /\ req[r].answer # "ok"
    BY <1>7, WritingMoves DEF StepsFollowOp, Follows
  <2>2. CASE Moved(r, "commit", req[r].lang, head[PathOf(req[r])], req[r].answer)
    <3>1. Reaches(r)
      BY <1>7, <2>1, <2>2 DEF Moved, Reaches
    <3> QED BY <2>2, <3>1, OthersReach DEF Moved
  <2>3. CASE On(r, "rollback")
    BY <1>4, <2>1, <2>3
  <2> QED BY <1>7, <2>2, <2>3, WritingMoves
<1>8. ASSUME NEW r \in Requests, Commit(r) PROVE Goal
  <2>1. req[r].step = "commit" /\ req[r].answer # "ok"
    BY <1>8, WritingMoves DEF StepsFollowOp, Follows
  <2>2. CASE On(r, "push")
    <3>1. Reaches(r)
      BY <1>8, <2>1, <2>2 DEF On, Moved, Reaches
    <3> QED BY <2>2, <3>1, OthersReach DEF On, Moved
  <2> QED BY <1>3, <1>8, <2>1, <2>2, WritingMoves DEF Ended
<1>9. ASSUME NEW r \in Requests, Push(r) PROVE Goal
  <2>1. req[r].step = "push" /\ req[r].answer # "ok"
    BY <1>9, WritingMoves DEF StepsFollowOp, Follows
  <2>2. CASE ~Refused /\ On(r, "register")
    <3>1. Reaches(r)
      BY <1>9, <2>1, <2>2 DEF On, Moved, Reaches
    <3> QED BY <2>2, <3>1, OthersReach DEF On, Moved
  <2>3. CASE ~Refused /\ req[r].op # "create" /\ Moved(r, "done", req[r].lang, req[r].was, "ok")
    <3>1. Reaches(r)
      BY <1>9, <2>1, <2>3 DEF Moved, Reaches
    <3> QED BY <2>3, <3>1, OthersReach DEF Moved
  <2> QED BY <1>3, <1>9, <2>1, <2>2, <2>3, WritingMoves DEF Ended
<1>15. ASSUME NEW r \in Requests, CommitWorkflow(r) PROVE Goal
  <2>1. req[r].step = "stage" /\ req[r].op = "sync" /\ req[r].answer # "ok" /\ On(r, "push")
    BY <1>15, WritingMoves DEF StepsFollowOp, Follows
  <2>2. Reaches(r)
    BY <1>15, <2>1 DEF On, Moved, Reaches
  <2> QED BY <2>1, <2>2, OthersReach DEF On, Moved
<1>16. ASSUME NEW r \in Requests, WriteWorkflow(r) PROVE Goal
  BY <1>4, <1>16, WritingMoves
<1>10. ASSUME NEW r \in Requests, Register(r) \/ RegisterPartly(r) PROVE Goal
  <2>1. req[r].step = "register"
    BY <1>10, OtherMoves
  <2>2. ASSUME Moved(r, "done", req[r].lang, req[r].was, "ok"),
               NEW e \in SUBSET {"GET", "POST"},
               rows' = [rows EXCEPT ![req[r].name] = Row(req[r].lang, r, e)]
        PROVE  Goal
    <3>1. Reaches(r)
      BY <1>10, <2>2 DEF Moved, Reaches
    <3> QED BY <2>2, <3>1, OthersReach DEF Moved
  <2> QED BY <1>3, <1>10, <2>1, <2>2, OtherMoves DEF Ended
<1>11. ASSUME NEW r \in Requests,
              \/ Drop(r) \/ Rollback(r) \/ StepFails(r)
              \/ ListForSync(r) \/ WalkEnds(r) \/ \E p \in Paths : SyncPath(r, p)
       PROVE  Goal
  BY <1>3, <1>4, <1>11, OtherMoves DEF Ended
<1>12. CASE Restart
  BY <1>12, RestartMoves DEF Reaches, Ended, StepsFollowOp, Follows
<1>13. CASE UNCHANGED req
  BY <1>13 DEF Reaches, StepsFollowOp, Follows
<1>14. ASSUME \/ PullForOther \/ UNCHANGED vars
              \/ \E n \in Names : UpdateEndpoint(n)
              \/ \E p \in Paths : ExternalPush(p)
       PROVE  UNCHANGED req
  BY <1>14 DEF PullForOther, vars, UpdateEndpoint, ExternalPush
<1> QED
  BY <1>1, <1>5, <1>6, <1>7, <1>8, <1>9, <1>10, <1>11, <1>12, <1>13, <1>14, <1>15,
     <1>16 DEF Next

(* The row of a function that nobody deletes stays. *)
LEMMA RowsStay ==
    ASSUME Typed, StepsFollowOp, [Next]_vars, NEW n \in Names, ~Deleting(n), rows[n] # None
    PROVE  rows'[n] # None /\ rows'[n].id = rows[n].id
<1> DEFINE Goal == rows'[n] # None /\ rows'[n].id = rows[n].id
<1>1. rows \in RowTables
  BY DEF Typed
<1>2. ASSUME NEW m \in Names, NEW x, rows[m] = None, rows' = [rows EXCEPT ![m] = x] PROVE Goal
  BY <1>1, <1>2 DEF RowTables
<1>3. ASSUME NEW m \in Names, rows[m] # None, NEW e \in SUBSET {"GET", "POST"},
             rows' = [rows EXCEPT ![m].endpoints = e]
      PROVE  Goal
  BY <1>3, EndpointsChanged
<1>4. ASSUME NEW r \in Requests, Drop(r) PROVE Goal
  <2>1. req[r].op = "delete"
    BY <1>4, OtherMoves DEF StepsFollowOp, Follows
  <2>2. req[r].name # n
    BY <2>1 DEF Deleting
  <2> QED BY <1>1, <1>4, <2>2 DEF Drop, RowTables
<1>5. ASSUME NEW r \in Requests, Register(r) \/ RegisterPartly(r) PROVE Goal
  <2>1. req[r].name \in Names
    BY <1>5, OtherMoves DEF StepsFollowOp, Follows
  <2>2. UNCHANGED rows \/ \E x : rows[req[r].name] = None /\ rows' = [rows EXCEPT ![req[r].name] = x]
    BY <1>5 DEF Register, RegisterPartly
  <2> QED BY <1>2, <2>1, <2>2
<1>6. ASSUME NEW r \in Requests, Rollback(r) PROVE Goal
  <2>1. req[r].name \in Names
    BY <1>6, OtherMoves DEF StepsFollowOp, Follows
  <2>2. UNCHANGED rows \/ \E x : rows[req[r].name] = None /\ rows' = [rows EXCEPT ![req[r].name] = x]
    BY <1>6 DEF Rollback
  <2> QED BY <1>2, <2>1, <2>2
<1>7. ASSUME NEW r \in Requests, NEW p \in Paths, SyncPath(r, p) PROVE Goal
  <2>1. p[2] \in Names
    BY DEF Paths
  <2>2. rows[p[2]] # None => rows[p[2]].endpoints \cup {"GET"} \in SUBSET {"GET", "POST"}
    BY <1>1, <2>1 DEF RowTables
  <2> QED BY <1>2, <1>3, <1>7, <2>1, <2>2, SyncRows
<1>8. ASSUME NEW m \in Names, UpdateEndpoint(m) PROVE Goal
  <2>1. PICK old \in rows[m].endpoints, new \in {"GET", "POST"} \ rows[m].endpoints :
           rows' = [rows EXCEPT ![m].endpoints = (rows[m].endpoints \ {old}) \cup {new}]
    BY <1>8 DEF UpdateEndpoint
  <2>2. rows[m] # None /\ (rows[m].endpoints \ {old}) \cup {new} \in SUBSET {"GET", "POST"}
    BY <1>1, <1>8 DEF UpdateEndpoint, RowTables
  <2> QED BY <1>3, <2>1, <2>2
<1>9. ASSUME NEW r \in Requests,
             \/ Begin(r) \/ Pull(r) \/ PullFails(r) \/ Look(r) \/ Write(r) \/ Remove(r)
             \/ Commit(r) \/ Push(r) \/ WriteWorkflow(r) \/ CommitWorkflow(r)
             \/ StepFails(r) \/ ListForSync(r) \/ WalkEnds(r)
      PROVE  UNCHANGED rows
  BY <1>9 DEF Begin, Pull, PullFails, Look, Write, Remove, Commit, Push, WriteWorkflow,
              CommitWorkflow, StepFails, ListForSync, WalkEnds
<1>10. ASSUME PullForOther \/ Restart \/ UNCHANGED vars \/ \E p \in Paths : ExternalPush(p)
       PROVE  UNCHANGED rows
  BY <1>10 DEF PullForOther, Restart, vars, ExternalPush
<1> QED
  BY <1>4, <1>5, <1>6, <1>7, <1>8, <1>9, <1>10 DEF Next

(* What was not sent is known for good. *)
LEMMA UnsentGrows ==
    ASSUME Typed, [Next]_vars
    PROVE  unsent \subseteq unsent'
<1>1. PullBranch \/ PullStops => unsent' = unsent
  BY PullFacts, StopFacts
<1>2. \A r \in Requests : Commit(r) => unsent' = unsent
  BY CommitFacts
<1>3. \A r \in Requests : Push(r) => unsent \subseteq unsent'
  BY PushFacts
<1> QED
  BY <1>1, <1>2, <1>3, RepoSteps
     DEF Still, Restart, ExternalPush, Write, Remove, WriteWorkflow, CommitWorkflow

(* The file is in the worktree, the index and the commit. *)
Present(p, fs, ix, h) == fs[p] # None /\ ix[p] # None /\ h[p] # None

(* A pull keeps it there. *)
LEMMA PullsKeepFiles ==
    ASSUME Typed, StaleIsUnstaged, BehindIsPushed, PullBranch \/ PullStops, NEW p \in Paths
    PROVE  /\ Present(p, files, index, head) => Present(p, files', index', head')
           /\ files[p] # None \/ index[p] = None => files'[p] # None \/ index'[p] = None
<1>1. ~ahead /\ head[p] # None => remote[p] # None
  BY DEF BehindIsPushed
<1>2. CASE PullBranch
  <2>1. CASE UNCHANGED <<files, index, head, branch, moved>>
    BY <2>1 DEF Present
  <2>2. CASE /\ ~ahead /\ ~Unstaged /\ head' = remote /\ index' = remote
             /\ \A x \in Paths : \/ files'[x] = remote[x]
                                 \/ /\ index[x] = None /\ remote[x] = None
                                    /\ files'[x] = files[x]
    BY <1>1, <2>2 DEF Present
  <2> QED BY <1>2, <2>1, <2>2, PullFacts
<1>3. CASE PullStops
  BY <1>1, <1>3, StopFacts DEF Present
<1> QED
  BY <1>2, <1>3

(* Only a deletion, or a restart, takes it from there; and it takes a push  *)
(* to take it from the remote.                                              *)
LEMMA FilesStay ==
    ASSUME Typed, StepsFollowOp, StaleIsUnstaged, BehindIsPushed, [Next]_vars,
           NEW p \in Paths, ~Deleting(p[2])
    PROVE  /\ Present(p, files, index, head) => Present(p, files', index', head') \/ Restart
           /\ files[p] # None \/ index[p] = None =>
                 files'[p] # None \/ index'[p] = None \/ Restart
           /\ remote[p] # None /\ head[p] # None => remote'[p] # None
<1> DEFINE Goal ==
              /\ Present(p, files, index, head) => Present(p, files', index', head') \/ Restart
              /\ files[p] # None \/ index[p] = None =>
                    files'[p] # None \/ index'[p] = None \/ Restart
              /\ remote[p] # None /\ head[p] # None => remote'[p] # None
<1>1. /\ files \in [Paths -> Codes] /\ index \in [Paths -> Codes] /\ head \in [Paths -> Codes]
      /\ remote \in [Paths -> Codes]
  BY DEF Typed
<1>2. CASE Still
  BY <1>2 DEF Still, repoVars
<1>3. CASE PullBranch \/ PullStops
  <2>1. remote' = remote
    BY <1>3, PullFacts, StopFacts
  <2> QED BY <1>3, <2>1, PullsKeepFiles
<1>4. CASE Restart
  BY <1>4 DEF Restart
<1>5. ASSUME NEW p1 \in Paths, ExternalPush(p1) PROVE Goal
  <2>1. pushes + 1 # None
    BY <1>5 DEF ExternalPush, Pushed, Typed
  <2> QED BY <1>1, <1>5, <2>1 DEF ExternalPush
<1>6. ASSUME NEW r \in Requests, Write(r) PROVE Goal
  <2>1. r # None
    BY DEF Ids
  <2> QED BY <1>1, <1>6, <2>1 DEF Write, Present
<1>7. ASSUME NEW r \in Requests, Remove(r) PROVE Goal
  <2>1. req[r].op = "delete"
    BY <1>7, WritingMoves DEF StepsFollowOp, Follows
  <2>2. PathOf(req[r]) # p
    BY <2>1 DEF Deleting, PathOf
  <2>3. files'[p] = files[p] /\ UNCHANGED <<index, head, remote>>
    BY <1>1, <1>7, <2>2 DEF Remove
  <2> QED BY <2>3 DEF Present
<1>8. ASSUME NEW r \in Requests, Commit(r) PROVE Goal
  <2>1. UNCHANGED <<files, remote>>
    BY <1>8, CommitFacts
  <2>2. CASE UNCHANGED <<index, head>>
    BY <2>1, <2>2
  <2>3. CASE index' = [index EXCEPT ![PathOf(req[r])] = files[PathOf(req[r])]] /\ head' = index'
    BY <1>1, <2>1, <2>3 DEF Present
  <2> QED BY <1>8, <2>2, <2>3, CommitFacts
<1>9. ASSUME NEW r \in Requests, Push(r) PROVE Goal
  BY <1>9, PushFacts
<1>10. ASSUME NEW r \in Requests, WriteWorkflow(r) \/ CommitWorkflow(r) PROVE Goal
  BY <1>10 DEF WriteWorkflow, CommitWorkflow, Present
<1> QED
  BY <1>2, <1>3, <1>4, <1>5, <1>6, <1>7, <1>8, <1>9, <1>10, RepoSteps

(* Every step keeps a create's file where it has got. *)
LEMMA NextCreate ==
    ASSUME Typed, StepsFollowOp, StaleIsUnstaged, BehindIsPushed, CreateProgresses, [Next]_vars
    PROVE  CreateProgresses'
<1> DEFINE Sent(r) == r \notin unsent /\ (req[r].step = "register" \/ req[r].answer = "ok")
<1> SUFFICES ASSUME NEW r \in Requests, req'[r].op = "create", ~Deleting(req[r].name)'
             PROVE  LET p == PathOf(req'[r])
                        n == req'[r].name IN
                    /\ req'[r].step = "commit" => files'[p] # None \/ index'[p] = None
                    /\ req'[r].step = "push" \/ Sent(r)' =>
                          files'[p] # None /\ index'[p] # None /\ head'[p] # None
                    /\ Sent(r)' => remote'[p] # None
                    /\ req'[r].answer = "ok" => rows'[n] # None /\ rows'[n].id = r
  BY DEF CreateProgresses
<1>1. CASE req'[r].step = "pull" /\ req'[r].answer = None
  BY <1>1
<1>2. CASE req[r].op = "create" /\ PathOf(req'[r]) = PathOf(req[r])
  <2> DEFINE p == PathOf(req[r])
             n == req[r].name
  <2>1. /\ req'[r].name = n /\ n \in Names /\ p \in Paths /\ p[2] = n
    BY <1>2, PathsKnown DEF StepsFollowOp, Follows, PathOf
  <2>2. ~Deleting(n)
    BY <2>1, DeletingKept
  <2>3. /\ req[r].step = "commit" => files[p] # None \/ index[p] = None
        /\ req[r].step = "push" \/ Sent(r) => Present(p, files, index, head)
        /\ Sent(r) => remote[p] # None
        /\ req[r].answer = "ok" => rows[n] # None /\ rows[n].id = r
    BY <1>2, <2>2 DEF CreateProgresses, Present
  <2>4. /\ Present(p, files, index, head) => Present(p, files', index', head') \/ Restart
        /\ files[p] # None \/ index[p] = None =>
              files'[p] # None \/ index'[p] = None \/ Restart
        /\ remote[p] # None /\ head[p] # None => remote'[p] # None
    BY <2>1, <2>2, FilesStay
  <2>5. Restart => /\ files' = remote /\ index' = remote /\ head' = remote /\ remote' = remote
                   /\ req'[r].step \in Ended /\ req'[r].answer = req[r].answer
    BY RestartMoves DEF Restart, Ended
  <2>6. /\ files \in [Paths -> Codes] /\ index \in [Paths -> Codes] /\ head \in [Paths -> Codes]
        /\ r # None
    BY DEF Typed, Ids
  <2>7. Write(r) => files'[p] # None
    BY <2>1, <2>6 DEF Write
  <2>8. ~Remove(r) /\ ~CommitWorkflow(r)
    BY <1>2, WritingMoves DEF StepsFollowOp, Follows
  <2>9. Commit(r) /\ req'[r].step = "push" => Present(p, files', index', head')
    <3> SUFFICES ASSUME Commit(r), req'[r].step = "push" PROVE Present(p, files', index', head')
      OBVIOUS
    <3>1. req[r].step = "commit"
      BY WritingMoves
    <3>2. ~GiveUp(r)
      BY <1>2, GiveUpMoves DEF GivesUp, Fails, Moved
    <3>3. ~Lost(p, files, index) /\ index' = [index EXCEPT ![p] = files[p]] /\ head' = index'
          /\ files' = files
      BY <3>2, CommitFacts
    <3>4. files[p] # None
      BY <2>3, <3>1, <3>3 DEF Lost
    <3> QED BY <2>1, <2>6, <3>3, <3>4 DEF Present
  <2>10. Push(r) /\ ~Refused /\ Sent(r)' =>
            Present(p, files', index', head') /\ remote'[p] # None
    <3> SUFFICES ASSUME Push(r), ~Refused, r \notin unsent'
                 PROVE  Present(p, files', index', head') /\ remote'[p] # None
      OBVIOUS
    <3>1. Present(p, files, index, head)
      BY <2>3, WritingMoves
    <3>2. UNCHANGED <<files, index, head>> /\ (remote' = head \/ (~ahead /\ remote' = remote))
      BY PushFacts
    <3>3. ~ahead => remote[p] # None
      BY <2>1, <3>1 DEF BehindIsPushed, Present
    <3> QED BY <3>1, <3>2, <3>3 DEF Present
  <2>11. Sent(r) => Present(p, files', index', head') /\ remote'[p] # None
    <3> SUFFICES ASSUME Sent(r) PROVE Present(p, files', index', head') /\ remote'[p] # None
      OBVIOUS
    <3>1. Present(p, files, index, head) /\ remote[p] # None
      BY <2>3
    <3> HIDE DEF Sent
    <3>2. remote'[p] # None
      BY <2>4, <3>1 DEF Present
    <3>3. Restart => Present(p, files', index', head')
      BY <2>5, <3>1 DEF Present
    <3> QED BY <2>4, <3>1, <3>2, <3>3
  <2>12. Register(r) \/ RegisterPartly(r) => req[r].step = "register"
    BY DEF Register, RegisterPartly
  <2>13. \A e \in SUBSET {"GET", "POST"} :
            rows' = [rows EXCEPT ![n] = Row(req[r].lang, r, e)] => rows'[n].id = r /\ rows'[n] # None
    <3>1. ASSUME NEW e \in SUBSET {"GET", "POST"}, rows' = [rows EXCEPT ![n] = Row(req[r].lang, r, e)]
          PROVE  rows'[n] = Row(req[r].lang, r, e)
      BY <2>1, <3>1 DEF Typed, RowTables
    <3>2. ASSUME NEW e \in SUBSET {"GET", "POST"} PROVE Row(req[r].lang, r, e) # None
      BY <1>2 DEF StepsFollowOp, Follows, Ids
    <3>3. \A e : Row(req[r].lang, r, e).id = r
      BY DEF Row
    <3> QED BY <3>1, <3>2, <3>3
  <2> HIDE DEF p, n
  <2>14. req'[r].answer = "ok" => rows'[n] # None /\ rows'[n].id = r
    BY <1>2, <2>1, <2>2, <2>3, <2>13, RowsStay, RequestsReach DEF Reaches, n
  <2>15. Reaches(r) /\ (r \notin unsent' => r \notin unsent)
    BY RequestsReach, UnsentGrows
  <2>16. req'[r].step = "commit" => files'[p] # None \/ index'[p] = None
    <3>1. CASE req'[r] = req[r]
      BY <2>3, <2>4, <2>5, <3>1 DEF Ended
    <3> QED BY <2>7, <2>8, <2>15, <3>1 DEF Reaches
  <2>17. req'[r].step = "push" => Present(p, files', index', head')
    <3>1. CASE req'[r] = req[r]
      BY <2>3, <2>4, <2>5, <3>1 DEF Ended
    <3> QED BY <2>8, <2>9, <2>15, <3>1 DEF Reaches
  <2>18. Sent(r)' => Present(p, files', index', head') /\ remote'[p] # None
    <3>1. CASE req'[r].answer = "ok"
      <4>1. CASE req[r].answer = "ok"
        BY <2>11, <2>15, <4>1
      <4>2. CASE Register(r) \/ RegisterPartly(r)
        BY <2>11, <2>12, <2>15, <4>2
      <4> QED BY <1>2, <2>15, <3>1, <4>1, <4>2 DEF Reaches
    <3>2. CASE req'[r].step = "register"
      <4>1. CASE req'[r] = req[r]
        BY <2>11, <2>15, <3>2, <4>1
      <4> QED BY <2>10, <2>15, <3>2, <4>1 DEF Reaches
    <3> QED BY <3>1, <3>2
  <2> QED
    BY <1>2, <2>1, <2>14, <2>16, <2>17, <2>18 DEF p, n, Present
<1> QED
  BY <1>1, <1>2, RequestsKeep DEF Keeps

------------------------------------------------------------------------------
(* A write that lasts has lasted. *)
LEMMA HasLasted ==
    ASSUME Typed, StepsFollowOp, [Next]_vars, NEW q \in Requests, req[q].op # None,
           req'[q].was = req[q].was, Lasting(q)'
    PROVE  Lasting(q)
<1>1. req'[q].op = req[q].op /\ req'[q].name = req[q].name
  BY RequestsKeep DEF Keeps
<1>2. Deleting(req[q].name) => Deleting(req[q].name)'
  BY <1>1, RequestsKeep DEF Keeps, Deleting, Ops
<1> QED
  BY <1>1, <1>2 DEF Lasting

(* A pull does not bring back what a request replaces. *)
LEMMA PullsKeepGone ==
    ASSUME Typed, StepsFollowOp, StaleIsUnstaged, BehindIsPushed, PullBranch \/ PullStops,
           NEW q \in Requests, PathOf(req[q]) \in Paths,
           GoneFrom(req[q], files, index, head, ahead, remote)
    PROVE  GoneFrom(req[q], files', index', head', ahead', remote')
<1> DEFINE p == PathOf(req[q])
           was == req[q].was
<1>1. ~ahead => remote[p] = head[p] \/ remote[p] # was
  BY DEF BehindIsPushed
<1>2. UNCHANGED <<ahead, remote>>
  BY PullFacts, StopFacts
<1>3. CASE UNCHANGED <<files, index, head>>
  BY <1>2, <1>3
<1>4. CASE UNCHANGED <<files, index>> /\ ~ahead /\ head' = remote
  BY <1>1, <1>2, <1>4 DEF GoneFrom
<1>5. CASE /\ ~ahead /\ ~Unstaged /\ head' = remote /\ index' = remote
           /\ \A x \in Paths : \/ files'[x] = remote[x]
                               \/ index[x] = None /\ remote[x] = None /\ files'[x] = files[x]
  <2>1. \/ files'[p] = remote[p]
        \/ index[p] = None /\ remote[p] = None /\ files'[p] = files[p]
    BY <1>5
  <2>2. index[p] = head[p] /\ (index[p] # None => files[p] = index[p])
    BY <1>5 DEF StaleIsUnstaged, Unstaged
  <2>3. ASSUME req[q].step = "commit"
        PROVE  files'[p] # was \/ Lost(p, files', index')
    <3>1. files[p] # was \/ (files[p] = None /\ index[p] = None)
      BY <2>3 DEF GoneFrom, Lost
    <3>2. CASE remote[p] = was
      BY <1>1, <1>5, <2>1, <2>2, <3>1, <3>2 DEF Lost
    <3>3. CASE remote[p] # was
      BY <1>5, <2>1, <3>1, <3>3 DEF Lost
    <3> QED BY <3>2, <3>3
  <2>4. ASSUME req[q].step \in {"push", "register"}, req[q].op # "sync"
        PROVE  files'[p] # was /\ index'[p] # was /\ head'[p] # was /\ remote'[p] # was
    <3>1. files[p] # was /\ head[p] # was
      BY <2>4 DEF GoneFrom
    <3> QED BY <1>1, <1>2, <1>5, <2>1, <3>1
  <2> QED BY <2>3, <2>4 DEF GoneFrom
<1> QED
  BY <1>3, <1>4, <1>5, PullFacts, StopFacts

(* Nor does anything else that others do. *)
LEMMA OldStaysGone ==
    ASSUME Typed, StepsFollowOp, ContentIsNew, StaleIsUnstaged, BehindIsPushed, OldIsGone,
           [Next]_vars, ~Restart,
           NEW q \in Requests, req'[q] = req[q], Lasting(q)', req[q].op # "sync",
           req[q].step \in {"commit", "push", "register"}
    PROVE  GoneFrom(req[q], files', index', head', ahead', remote')
<1> DEFINE p == PathOf(req[q])
           was == req[q].was
           Goal == GoneFrom(req[q], files', index', head', ahead', remote')
<1>1. /\ files \in [Paths -> Codes] /\ index \in [Paths -> Codes] /\ head \in [Paths -> Codes]
      /\ remote \in [Paths -> Codes] /\ p \in Paths /\ p[2] = req[q].name
  BY PathsKnown DEF Typed, Writing, PathOf
<1>2. req[q].op \in {"create", "update", "delete"}
  BY DEF StepsFollowOp, Follows, Typed, Requested, Ops
<1>3. GoneFrom(req[q], files, index, head, ahead, remote)
  <2>1. req[q].op # None /\ req'[q].was = req[q].was
    BY <1>2 DEF Ops
  <2> QED BY <2>1, HasLasted DEF OldIsGone
<1>4. was \notin Unwritten /\ (was # None \/ ~Deleting(p[2])')
  BY <1>1 DEF ContentIsNew, Lasting
<1>5. CASE Still
  BY <1>3, <1>5 DEF Still, repoVars
<1>6. CASE PullBranch \/ PullStops
  BY <1>1, <1>3, <1>6, PullsKeepGone
<1>7. ASSUME NEW p1 \in Paths, ExternalPush(p1) PROVE Goal
  <2>1. /\ UNCHANGED <<files, index, head, ahead>> /\ remote' = [remote EXCEPT ![p1] = pushes + 1]
        /\ pushes + 1 \in Unwritten
    BY <1>7 DEF ExternalPush, Unwritten, Pushed, Typed
  <2>2. remote[p] # was => remote'[p] # was
    BY <1>1, <1>4, <2>1
  <2> QED BY <1>3, <2>1, <2>2 DEF GoneFrom
<1>8. ASSUME NEW r \in Requests, Write(r) PROVE Goal
  <2>1. /\ UNCHANGED <<index, head, ahead, remote>> /\ files' = [files EXCEPT ![PathOf(req[r])] = r]
        /\ r \in Unwritten
    BY <1>8 DEF Write, Unwritten, HasWritten
  <2>2. files'[p] # was \/ files'[p] = files[p]
    BY <1>1, <1>4, <2>1
  <2> QED BY <1>3, <2>1, <2>2 DEF GoneFrom, Lost
<1>9. ASSUME NEW r \in Requests, Remove(r) PROVE Goal
  <2>1. UNCHANGED <<index, head, ahead, remote>>
    BY <1>9 DEF Remove
  <2>2. files'[p] # was \/ files'[p] = files[p]
    <3>1. CASE was # None
      BY <1>1, <1>9, <3>1 DEF Remove
    <3>2. CASE ~Deleting(p[2])'
      <4>1. req[r].op = "delete"
        BY <1>9, WritingMoves DEF StepsFollowOp, Follows
      <4>2. PathOf(req[r]) # p
        BY <3>2, <4>1, DeletingKept DEF Deleting, PathOf
      <4> QED BY <1>1, <1>9, <4>2 DEF Remove
    <3> QED BY <1>4, <3>1, <3>2
  <2> QED BY <1>3, <2>1, <2>2 DEF GoneFrom, Lost
<1>10. ASSUME NEW r \in Requests, Commit(r) PROVE Goal
  <2>1. UNCHANGED <<files, remote>>
    BY <1>10, CommitFacts
  <2>2. CASE UNCHANGED <<index, head, ahead>>
    BY <1>3, <2>1, <2>2
  <2>3. CASE /\ ~Lost(PathOf(req[r]), files, index)
             /\ index' = [index EXCEPT ![PathOf(req[r])] = files[PathOf(req[r])]]
             /\ head' = index' /\ (ahead => ahead')
    <3>1. index'[p] \in {index[p], files[p]} /\ head'[p] = index'[p]
      BY <1>1, <2>3
    <3>2. Lost(p, files, index) => index'[p] = index[p]
      BY <1>1, <2>3
    <3> QED BY <1>3, <2>1, <2>3, <3>1, <3>2 DEF GoneFrom, Lost
  <2>4. ahead \in BOOLEAN
    BY DEF Typed
  <2> QED BY <1>10, <2>2, <2>3, <2>4, CommitFacts
<1>11. ASSUME NEW r \in Requests, Push(r) PROVE Goal
  <2>1. UNCHANGED <<files, index, head>>
    BY <1>11, PushFacts
  <2>2. CASE UNCHANGED <<remote, ahead>>
    BY <1>3, <2>1, <2>2
  <2>3. CASE remote' = head
    BY <1>3, <2>1, <2>3 DEF GoneFrom
  <2> QED BY <1>11, <2>2, <2>3, PushFacts
<1>12. ASSUME NEW r \in Requests, WriteWorkflow(r) PROVE Goal
  BY <1>3, <1>12 DEF WriteWorkflow
<1>13. ASSUME NEW r \in Requests, CommitWorkflow(r) PROVE Goal
  <2>1. UNCHANGED <<files, index, remote>> /\ head' = index /\ (ahead => ahead')
    BY <1>13 DEF CommitWorkflow
  <2> QED BY <1>3, <2>1 DEF GoneFrom
<1> QED
  BY <1>5, <1>6, <1>7, <1>8, <1>9, <1>10, <1>11, <1>12, <1>13, RepoSteps

(* Every step keeps what is replaced gone. *)
LEMMA NextOld ==
    ASSUME Typed, StepsFollowOp, ContentIsNew, StaleIsUnstaged, BehindIsPushed, OldIsGone,
           [Next]_vars
    PROVE  OldIsGone'
<1> SUFFICES ASSUME NEW q \in Requests, Lasting(q)'
             PROVE  GoneFrom(req'[q], files', index', head', ahead', remote')
  BY DEF OldIsGone
<1> DEFINE p == PathOf(req[q])
           Goal == GoneFrom(req'[q], files', index', head', ahead', remote')
<1>1. /\ files \in [Paths -> Codes] /\ index \in [Paths -> Codes] /\ head \in [Paths -> Codes]
  BY DEF Typed
<1>2. CASE req'[q].step \notin {"commit", "push", "register"}
  BY <1>2 DEF GoneFrom
<1>3. CASE req'[q].step \in {"commit", "push", "register"} /\ req'[q] = req[q]
  <2>1. ~Restart
    BY <1>3, RestartMoves DEF Ended
  <2>2. CASE req[q].op # "sync"
    BY <1>3, <2>1, <2>2, OldStaysGone
  <2>3. CASE req[q].op = "sync"
    <3>1. req[q].step # "commit"
      BY <2>3 DEF StepsFollowOp, Follows
    <3> QED BY <1>3, <2>3, <3>1 DEF GoneFrom
  <2> QED BY <2>2, <2>3
<1>4. CASE Write(q)
  <2>1. Moved(q, "commit", req[q].lang, head[p], req[q].answer) /\ req[q].step = "write"
    BY <1>4, WritingMoves
  <2>2. p \in Paths /\ PathOf(req'[q]) = p /\ q \in Unwritten
    BY <2>1, CommitPath DEF Moved, PathOf, Unwritten, HasWritten
  <2>3. files'[p] = q /\ q # head[p]
    BY <1>1, <1>4, <2>2 DEF Write, ContentIsNew
  <2> QED BY <2>1, <2>2, <2>3 DEF GoneFrom, Moved
<1>5. CASE Remove(q) /\ req'[q].step = "commit"
  <2>1. /\ Moved(q, "commit", req[q].lang, head[p], req[q].answer) /\ req[q].op = "delete"
        /\ req[q].step = "remove" /\ files' = [files EXCEPT ![p] = None]
    BY <1>5, WritingMoves DEF On, Moved, StepsFollowOp, Follows
  <2>2. p \in Paths /\ PathOf(req'[q]) = p /\ req'[q].was # None
    BY <2>1, CommitPath DEF Moved, PathOf, Lasting
  <2>3. files'[p] = None
    BY <1>1, <2>1, <2>2
  <2> QED BY <1>5, <2>2, <2>3 DEF GoneFrom
<1>6. CASE Commit(q) /\ req'[q].step = "push"
  <2>1. On(q, "push") /\ req[q].step = "commit" /\ req[q].op # None
    BY <1>6, WritingMoves DEF GivesUp, Fails, On, Moved, StepsFollowOp, Follows
  <2>2. p \in Paths /\ PathOf(req'[q]) = p /\ req'[q].was = req[q].was
    BY <2>1, CommitPath DEF On, Moved, PathOf
  <2>3. files[p] # req[q].was \/ Lost(p, files, index)
    BY <2>1, <2>2, HasLasted DEF OldIsGone, GoneFrom
  <2>4. ~GiveUp(q)
    BY <1>6, GiveUpMoves DEF GivesUp, Fails, On, Moved
  <2>5. /\ ~Lost(p, files, index) /\ index' = [index EXCEPT ![p] = files[p]] /\ head' = index'
        /\ ahead' = (ahead \/ head' # head) /\ UNCHANGED <<files, remote>>
    BY <1>6, <2>4, CommitFacts
  <2>6. files[p] # req[q].was /\ index'[p] = files[p] /\ head'[p] = files[p]
    BY <1>1, <2>2, <2>3, <2>5
  <2>7. ahead' \/ remote[p] # req[q].was
    <3>1. CASE ahead \/ head' # head
      BY <2>5, <3>1
    <3>2. CASE ~ahead /\ head' = head
      <4>1. head[p] # req[q].was
        BY <2>6, <3>2
      <4> QED BY <2>2, <3>2, <4>1 DEF BehindIsPushed
    <3> QED BY <3>1, <3>2
  <2> QED BY <1>6, <2>2, <2>5, <2>6, <2>7 DEF GoneFrom
<1>7. CASE Push(q) /\ ~Refused /\ req'[q].step = "register"
  <2>1. On(q, "register") /\ req[q].op = "create" /\ req[q].step = "push"
    BY <1>7, WritingMoves DEF GivesUp, Fails, On, Moved, StepsFollowOp, Follows
  <2>2. PathOf(req'[q]) = p /\ req'[q].was = req[q].was
    BY <2>1 DEF On, Moved, PathOf
  <2>3. /\ files[p] # req[q].was /\ index[p] # req[q].was /\ head[p] # req[q].was
        /\ ahead \/ remote[p] # req[q].was
    BY <2>1, <2>2, HasLasted DEF OldIsGone, GoneFrom, Ops
  <2>4. UNCHANGED <<files, index, head>> /\ (remote' = head \/ UNCHANGED <<remote, ahead>>)
    BY <1>7, PushFacts
  <2> QED BY <1>7, <2>2, <2>3, <2>4 DEF GoneFrom
<1>8. CASE req'[q].step = "push" /\ req'[q].op = "sync"
  BY <1>8 DEF GoneFrom
<1> QED
  BY <1>2, <1>3, <1>4, <1>5, <1>6, <1>7, <1>8, RequestsReach DEF Reaches

(* What a create replaces is gone from the remote once its push has sent. *)
LEMMA NextSent ==
    ASSUME Typed, StepsFollowOp, ContentIsNew, OldIsGone, SentIsGone, [Next]_vars
    PROVE  SentIsGone'
<1> SUFFICES ASSUME NEW q \in Requests, Lasting(q)', req'[q].step = "register", q \notin unsent'
             PROVE  remote'[PathOf(req'[q])] # req'[q].was
  BY DEF SentIsGone
<1> DEFINE p == PathOf(req[q])
           was == req[q].was
<1>1. CASE req'[q] = req[q]
  <2>1. /\ p \in Paths /\ req[q].op = "create" /\ remote \in [Paths -> Codes]
    BY <1>1, CommitPath DEF StepsFollowOp, Follows, Typed
  <2>2. Lasting(q) /\ q \notin unsent
    <3>1. req[q].op # None /\ req'[q].was = req[q].was
      BY <1>1, <2>1 DEF Ops
    <3> QED BY <3>1, HasLasted, UnsentGrows
  <2>3. remote[p] # was /\ head[p] # was
    BY <1>1, <2>1, <2>2 DEF SentIsGone, OldIsGone, GoneFrom
  <2>4. was \notin Unwritten
    BY DEF ContentIsNew
  <2>5. remote'[p] \in {remote[p], head[p]} \/ remote'[p] \in Unwritten
    <3>1. ASSUME NEW p1 \in Paths, ExternalPush(p1)
          PROVE  remote'[p] \in {remote[p]} \cup Unwritten
      <4>1. remote' = [remote EXCEPT ![p1] = pushes + 1] /\ pushes + 1 \in Unwritten
        BY <3>1 DEF ExternalPush, Unwritten, Pushed, Typed
      <4> QED BY <2>1, <4>1
    <3>2. PullBranch \/ PullStops => remote' = remote
      BY PullFacts, StopFacts
    <3>3. \A r \in Requests : Commit(r) => remote' = remote
      BY CommitFacts
    <3>4. \A r \in Requests : Push(r) => remote' \in {remote, head}
      BY PushFacts
    <3> QED
      BY <3>1, <3>2, <3>3, <3>4, RepoSteps
         DEF Still, repoVars, Restart, Write, Remove, WriteWorkflow, CommitWorkflow
  <2> QED BY <1>1, <2>3, <2>4, <2>5
<1>2. CASE Push(q) /\ ~Refused
  <2>1. On(q, "register") /\ req[q].op = "create" /\ req[q].step = "push"
    BY <1>2, WritingMoves DEF GivesUp, Fails, On, Moved, StepsFollowOp, Follows
  <2>2. PathOf(req'[q]) = p /\ req'[q].was = was
    BY <2>1 DEF On, Moved, PathOf
  <2>3. head[p] # was /\ (ahead \/ remote[p] # was)
    BY <2>1, <2>2, HasLasted DEF OldIsGone, GoneFrom, Ops
  <2>4. remote' = head \/ (~ahead /\ remote' = remote)
    BY <1>2, PushFacts
  <2> QED BY <2>2, <2>3, <2>4
<1> QED
  BY <1>1, <1>2, RequestsReach DEF Reaches

------------------------------------------------------------------------------
(* Every step keeps it all. *)
LEMMA NextInv == IInv /\ [Next]_vars => IInv'
BY NextTyped, NextFollows, NextContent, NextStale, NextBehind, NextCreate, NextOld, NextSent DEF IInv

(* The invariant holds in every reachable state. *)
THEOREM Invariance == Spec => []IInv
BY InitInv, NextInv, PTL DEF Spec

(* The types, in every reachable state. *)
THEOREM Types == Spec => []TypeOK
<1>1. IInv => TypeOK
  <2> SUFFICES ASSUME IInv PROVE TypeOK
    OBVIOUS
  <2>1. \A r \in Requests : req[r].step \in Writing /\ req[r].op # "sync" => PathOf(req[r]) \in Paths
    BY PathsKnown DEF IInv
  <2> QED BY <2>1 DEF IInv, Typed, Requested, TypeOK, Writing
<1> QED
  BY <1>1, Invariance, PTL

(* A function whose creation was acknowledged keeps its row, and its file in *)
(* the remote repository if its push has sent it, until somebody sets out to *)
(* delete it.                                                                *)
THEOREM AcknowledgedStays == Spec => []AcknowledgedIsKept
<1>1. IInv => AcknowledgedIsKept
  BY DEF IInv, CreateProgresses, AcknowledgedIsKept
<1> QED
  BY <1>1, Invariance, PTL

(* What a step of the request finds when it answers with success. *)
LEMMA AnsweredOk ==
    ASSUME IInv, [Next]_vars, NEW r \in Requests, Answers(r, "ok"), Lasting(r),
           req[r].op # "sync", r \notin unsent'
    PROVE  remote'[PathOf(req[r])] # req[r].was
<1>1. Reaches(r) /\ req[r].answer # "ok" /\ req'[r].answer = "ok"
  BY RequestsReach DEF IInv, Answers
<1>2. /\ GoneFrom(req[r], files, index, head, ahead, remote)
      /\ req[r].step = "register" /\ r \notin unsent => remote[PathOf(req[r])] # req[r].was
  BY DEF IInv, OldIsGone, SentIsGone
<1>3. CASE Push(r) /\ ~Refused
  <2>1. req[r].step = "push"
    BY <1>3, WritingMoves DEF IInv
  <2>2. remote' = head \/ (~ahead /\ remote' = remote)
    BY <1>3, PushFacts
  <2> QED BY <1>2, <2>1, <2>2 DEF GoneFrom
<1>4. CASE Register(r) \/ RegisterPartly(r)
  <2>1. req[r].step = "register" /\ remote' = remote /\ unsent' = unsent
    BY <1>4 DEF Register, RegisterPartly, repoVars
  <2> QED BY <1>2, <2>1
<1> QED
  BY <1>1, <1>3, <1>4 DEF Reaches

(* A create or an update that is answered with success has replaced the code *)
(* in the remote repository, unless its push has sent nothing, or a deletion *)
(* has undone its new file.                                                  *)
THEOREM SavedArePublished == Spec => SavedIsPublished
<1> DEFINE A == \A r \in Requests :
                   (/\ req[r].op \in {"create", "update"}
                    /\ Answers(r, "ok")
                    /\ r \notin unsent'
                    /\ req[r].was # None \/ ~Deleting(req[r].name)) =>
                      remote'[PathOf(req[r])] # req[r].was
<1>1. IInv /\ [Next]_vars => [A]_vars
  <2> SUFFICES ASSUME IInv, [Next]_vars, NEW r \in Requests, req[r].op \in {"create", "update"},
                      Answers(r, "ok"), r \notin unsent',
                      req[r].was # None \/ ~Deleting(req[r].name)
               PROVE  remote'[PathOf(req[r])] # req[r].was
    OBVIOUS
  <2>1. Lasting(r)
    BY DEF Lasting
  <2> QED BY <2>1, AnsweredOk
<1> QED
  BY <1>1, Invariance, PTL DEF Spec, SavedIsPublished

(* A delete that is answered with success has taken the code from the remote *)
(* repository, unless its push has sent nothing.                             *)
THEOREM DeletedAreGone == Spec => DeletedIsGone
<1> DEFINE A == \A r \in Requests :
                   (/\ req[r].op = "delete"
                    /\ req[r].was # None
                    /\ Answers(r, "ok")
                    /\ r \notin unsent') =>
                      remote'[PathOf(req[r])] # req[r].was
<1>1. IInv /\ [Next]_vars => [A]_vars
  <2> SUFFICES ASSUME IInv, [Next]_vars, NEW r \in Requests, req[r].op = "delete",
                      req[r].was # None, Answers(r, "ok"), r \notin unsent'
               PROVE  remote'[PathOf(req[r])] # req[r].was
    OBVIOUS
  <2>1. Lasting(r)
    BY DEF Lasting
  <2> QED BY <2>1, AnsweredOk
<1> QED
  BY <1>1, Invariance, PTL DEF Spec, DeletedIsGone

(* A delete that is refused after it has dropped the row has put one back,  *)
(* unless the call to do so failed as well.                                 *)
THEOREM RefusedDeletesPutBack == Spec => FailedDeleteKeepsRow
<1> DEFINE A == \A r \in Requests :
                   (/\ req[r].op = "delete"
                    /\ req[r].step \notin {"pull", "look", "drop"}
                    /\ Answers(r, "failed")) =>
                      rows'[req[r].name] # None \/ faults' # faults
<1>1. IInv /\ [Next]_vars => [A]_vars
  <2> SUFFICES ASSUME IInv, [Next]_vars, NEW r \in Requests, req[r].op = "delete",
                      req[r].step \notin {"pull", "look", "drop"}, Answers(r, "failed")
               PROVE  rows'[req[r].name] # None \/ faults' # faults
    OBVIOUS
  <2> DEFINE Goal == rows'[req[r].name] # None \/ faults' # faults
  <2>1. Typed /\ StepsFollowOp /\ Follows(req[r]) /\ req[r].answer # "failed" /\ req'[r].answer = "failed"
    BY DEF IInv, StepsFollowOp, Answers
  <2>2. ~Begin(r) /\ ~Pull(r) /\ ~PullFails(r) /\ ~Look(r) /\ ~Drop(r)
    <3>1. req[r].step \notin {"waiting", "pull", "pullForSync", "pullForWorkflow"}
      BY <2>1 DEF Follows, Ops
    <3> QED BY <3>1 DEF Begin, Pull, PullFails, Look, Drop
  <2>3. ~Write(r) /\ ~Register(r) /\ ~RegisterPartly(r) /\ ~ListForSync(r) /\ ~WalkEnds(r)
        /\ \A p \in Paths : ~SyncPath(r, p)
    BY <2>1, OtherMoves, WritingMoves DEF Follows
  <2>4. /\ ~Remove(r) /\ ~Commit(r) /\ ~Push(r)
        /\ ~WriteWorkflow(r) /\ ~CommitWorkflow(r)
    BY <2>1, WritingMoves DEF GivesUp, Fails, On, Moved
  <2>5. ASSUME Rollback(r) PROVE Goal
    <3>1. req[r].name \in Names /\ req[r].lang \in Languages /\ r \in Ids
      BY <2>1, <2>5, OtherMoves DEF Follows, Writing, Ids
    <3>2. Row(req[r].lang, r, {}) # None
      BY <3>1
    <3>3. rows' = IF rows[req[r].name] = None
                  THEN [rows EXCEPT ![req[r].name] = Row(req[r].lang, r, {})] ELSE rows
      BY <2>5 DEF Rollback
    <3> HIDE DEF Row
    <3>4. rows'[req[r].name] # None
      BY <2>1, <3>1, <3>2, <3>3 DEF Typed, RowTables
    <3> QED BY <3>4
  <2>6. ASSUME StepFails(r) PROVE Goal
    BY <2>1, <2>6 DEF StepFails, Fault, Typed
  <2>7. ASSUME NEW q \in Requests \ {r},
               \/ Begin(q) \/ Pull(q) \/ PullFails(q) \/ Look(q) \/ Write(q) \/ Drop(q) \/ Remove(q)
               \/ Commit(q) \/ Push(q) \/ WriteWorkflow(q) \/ CommitWorkflow(q) \/ Register(q) \/ RegisterPartly(q) \/ Rollback(q)
               \/ StepFails(q) \/ ListForSync(q) \/ WalkEnds(q) \/ \E p \in Paths : SyncPath(q, p)
        PROVE  FALSE
    <3>1. \A step, lang, was, a : Moved(q, step, lang, was, a) => req'[r] = req[r]
      BY DEF Moved
    <3>2. \A step : On(q, step) \/ Fails(q) \/ GivesUp(q) => req'[r] = req[r]
      BY <3>1 DEF On, Fails, GivesUp
    <3>3. Begin(q) => req'[r] = req[r]
      BY <2>1, BeginMoves
    <3>4. Pull(q) \/ PullFails(q) \/ Look(q) => req'[r] = req[r]
      BY <2>1, <3>1, <3>2, ReadingMoves
    <3>5. \/ Write(q) \/ Remove(q) \/ Commit(q) \/ Push(q)
          \/ WriteWorkflow(q) \/ CommitWorkflow(q)
          => req'[r] = req[r]
      BY <2>1, <3>1, <3>2, WritingMoves
    <3>6. \/ Drop(q) \/ Register(q) \/ RegisterPartly(q) \/ Rollback(q) \/ StepFails(q)
          \/ ListForSync(q) \/ WalkEnds(q) \/ \E p \in Paths : SyncPath(q, p)
          => req'[r] = req[r]
      BY <2>1, <3>1, <3>2, OtherMoves
    <3> QED BY <2>1, <2>7, <3>3, <3>4, <3>5, <3>6
  <2>8. ASSUME \/ PullForOther \/ Restart \/ UNCHANGED vars
               \/ \E n \in Names : UpdateEndpoint(n)
               \/ \E p \in Paths : ExternalPush(p)
        PROVE  FALSE
    BY <2>1, <2>8, RestartMoves DEF PullForOther, vars, UpdateEndpoint, ExternalPush
  <2> QED
    BY <2>2, <2>3, <2>4, <2>5, <2>6, <2>7, <2>8 DEF Next
<1> QED
  BY <1>1, Invariance, PTL DEF Spec, FailedDeleteKeepsRow
===============================================================================
