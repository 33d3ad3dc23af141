-------------------------- MODULE LuaRuntime_proofs --------------------------
(***************************************************************************)
(* Proofs about LuaRuntime, for every set of functions and any number of   *)
(* commits, events and faults.                                             *)
(***************************************************************************)
EXTENDS LuaRuntime, SequenceTheorems, TLAPS

USE HookAssumption, BoundsAssumption

------------------------------------------------------------------------------
(* A socket keeps its type while ids and commits grow. *)
LEMMA SocketGrows ==
    ASSUME sid \in Nat, sid' \in Nat, sid <= sid',
           commits \in Nat, commits' \in Nat, commits <= commits',
           NEW q \in Seq(Frames)
    PROVE  q \in Seq(Frames')
<1>1. Subscriptions \subseteq Subscriptions'
  BY DEF Subscriptions
<1>2. 0..commits \subseteq 0..commits'
  OBVIOUS
<1>3. Frames \subseteq Frames'
  BY <1>1, <1>2 DEF Frames
<1> QED
  BY <1>3, SeqMonotonic

(* What a poll leaves of the socket is a sequence of frames. *)
LEMMA PollKeepsFrames ==
    ASSUME TypeOK, socket # <<>>
    PROVE  /\ Head(socket) \in Frames /\ Head(socket) = socket[1]
           /\ Tail(socket) \in Seq(Frames)
           /\ [socket EXCEPT ![1] = Noise] \in Seq(Frames)
<1>1. socket \in Seq(Frames) /\ 1 \in 1..Len(socket)
  BY EmptySeq DEF TypeOK
<1>2. Noise \in Frames
  BY DEF TypeOK, Noise, Frames
<1> QED
  BY <1>1, <1>2, HeadTailProperties, ExceptSeq

(* A copy of the files keeps the types. *)
LEMMA SyncTypeOK ==
    ASSUME TypeOK, NEW fault, Sync(fault)
    PROVE  /\ clone' \in 0..commits
           /\ files' \in [Functions -> Codes]
           /\ missed' \in BOOLEAN
<1>1. PICK kept \in SUBSET Functions, failed \in SUBSET Functions :
          files' = [f \in Functions |->
                      IF f \notin failed /\ trees[commits][f] # 0 THEN trees[commits][f]
                      ELSE IF f \in kept THEN files[f] ELSE 0]
  BY DEF Sync
<1>2. commits \in 0..commits /\ trees[commits] \in [Functions -> Codes] /\ 0 \in Codes
      /\ files \in [Functions -> Codes]
  BY DEF TypeOK, Codes
<1>3. files' \in [Functions -> Codes]
  BY <1>1, <1>2
<1>4. missed' \in BOOLEAN
  BY DEF Sync
<1>5. clone' \in 0..commits
  BY <1>2 DEF Sync
<1> QED
  BY <1>3, <1>4, <1>5

(* A connection that frames are sent on is in one of three states. *)
ConnStates == {"open", "garbled", "closed"}

(* What Resubscribe does when the frames in failed are refused, and these and *)
(* others are lost.                                                           *)
Outcome(opened, closed, c, lost, failed) ==
    /\ failed \subseteq lost
    /\ lost \subseteq opened \cup closed
    /\ sid' = IF opened = {} THEN sid ELSE sid + 1
    /\ subs' = (subs \ closed) \cup (opened \ failed)
    /\ served' = (served \ (closed \ lost)) \cup (opened \ lost)
    /\ leaked' = leaked \cup (closed \cap lost \cap served)
    /\ conn' \in ConnStates
    /\ conn' = "open" => c = "open" /\ failed = lost

(* Every outcome of Resubscribe is one of these. *)
LEMMA ResubscribeOutcome ==
    ASSUME NEW opened, NEW closed, NEW c, NEW fault, Resubscribe(opened, closed, c, fault)
    PROVE  \E lost, failed : Outcome(opened, closed, c, lost, failed)
<1>1. PICK lost \in SUBSET (opened \cup closed) : \E failed \in SUBSET lost :
         /\ Send(opened \cup closed, c, lost, failed, fault)
         /\ sid' = IF opened = {} THEN sid ELSE sid + 1
         /\ subs' = (subs \ closed) \cup (opened \ failed)
         /\ served' = (served \ (closed \ lost)) \cup (opened \ lost)
         /\ leaked' = leaked \cup (closed \cap lost \cap served)
  BY Zenon DEF Resubscribe
<1>2. PICK failed \in SUBSET lost :
         /\ Send(opened \cup closed, c, lost, failed, fault)
         /\ sid' = IF opened = {} THEN sid ELSE sid + 1
         /\ subs' = (subs \ closed) \cup (opened \ failed)
         /\ served' = (served \ (closed \ lost)) \cup (opened \ lost)
         /\ leaked' = leaked \cup (closed \cap lost \cap served)
  BY <1>1, Zenon
<1>3. conn' \in ConnStates /\ (conn' = "open" => c = "open" /\ failed = lost)
  BY <1>2 DEF Send, ConnStates
<1>4. Outcome(opened, closed, c, lost, failed)
  BY <1>2, <1>3 DEF Outcome
<1> QED
  BY <1>4, Zenon

(* Sending SUB and UNSUB frames keeps the types... *)
LEMMA ResubscribeTypeOK ==
    ASSUME TypeOK, NEW opened \in SUBSET ((Functions \cup {Hook}) \X {sid}), NEW closed,
           NEW c, NEW fault, Resubscribe(opened, closed, c, fault)
    PROVE  /\ sid' \in Nat \ {0} /\ sid <= sid'
           /\ opened # {} => sid' = sid + 1
           /\ subs' \subseteq Subscriptions'
           /\ served' \subseteq Subscriptions'
           /\ leaked' \subseteq Subscriptions'
           /\ conn' \in ConnStates
<1> PICK lost, failed : Outcome(opened, closed, c, lost, failed)
  BY ResubscribeOutcome, Zenon
<1>1. /\ sid' = IF opened = {} THEN sid ELSE sid + 1
      /\ subs' = (subs \ closed) \cup (opened \ failed)
      /\ served' = (served \ (closed \ lost)) \cup (opened \ lost)
      /\ leaked' = leaked \cup (closed \cap lost \cap served)
      /\ conn' \in ConnStates
  BY DEF Outcome
<1>2. sid' \in Nat \ {0} /\ sid <= sid' /\ (opened # {} => sid' = sid + 1)
  BY <1>1 DEF TypeOK
<1>3. Subscriptions \subseteq Subscriptions'
  BY <1>2 DEF Subscriptions, TypeOK
<1>4. opened \subseteq Subscriptions'
  BY <1>2 DEF Subscriptions, TypeOK
<1>5. subs \subseteq Subscriptions /\ served \subseteq Subscriptions /\ leaked \subseteq Subscriptions
  BY DEF TypeOK
<1>6. subs' \subseteq Subscriptions' /\ served' \subseteq Subscriptions'
  BY <1>1, <1>3, <1>4, <1>5
<1>7. leaked' \subseteq Subscriptions'
  BY <1>1, <1>3, <1>5
<1> QED
  BY <1>1, <1>2, <1>6, <1>7

(* ... as does reconcile_consumers as a whole. *)
LEMMA ReconcileTypeOK ==
    ASSUME TypeOK, files' \in [Functions -> Codes], NEW c, NEW listing, NEW sending,
           Reconcile(c, listing, sending)
    PROVE  /\ sid' \in Nat \ {0} /\ sid <= sid'
           /\ subs' \subseteq Subscriptions' /\ served' \subseteq Subscriptions'
           /\ leaked' \subseteq Subscriptions' /\ unheard' \subseteq Functions
           /\ conn' \in ConnStates
           /\ consumers' \in [Functions -> 0..(sid' - 1)]
<1> DEFINE gone == {f \in Functions \ Listed(listing) : consumers[f] # 0}
           missing == {f \in Listed(listing) : consumers[f] = 0}
           opened == missing \X {sid}
           closed == {<<f, consumers[f]>> : f \in gone}
<1>1. opened \in SUBSET ((Functions \cup {Hook}) \X {sid})
  BY DEF Listed
<1>2. Resubscribe(opened, closed, c, sending)
  BY DEF Reconcile
<1>3. consumers' = [f \in Functions |->
                       IF f \in gone THEN 0
                       ELSE IF <<f, sid>> \in subs' THEN sid ELSE consumers[f]]
  BY DEF Reconcile
<1>4. unheard' \subseteq Functions
  BY DEF Reconcile, Listed
<1> HIDE DEF opened, closed, gone, missing
<1>5. /\ sid' \in Nat \ {0} /\ sid <= sid'
      /\ subs' \subseteq Subscriptions' /\ served' \subseteq Subscriptions'
      /\ leaked' \subseteq Subscriptions' /\ conn' \in ConnStates
  BY <1>1, <1>2, ResubscribeTypeOK
<1>6. ASSUME NEW f \in Functions PROVE consumers'[f] \in 0..(sid' - 1)
  <2>1. CASE f \notin gone /\ <<f, sid>> \in subs'
    <3>1. sid \in 1..(sid' - 1)
      BY <2>1, <1>5 DEF Subscriptions
    <3> QED
      BY <3>1, <2>1, <1>3
  <2>2. CASE ~(f \notin gone /\ <<f, sid>> \in subs')
    BY <2>2, <1>3, <1>5 DEF TypeOK
  <2> QED
    BY <2>1, <2>2
<1>7. consumers' \in [Functions -> 0..(sid' - 1)]
  <2>1. DOMAIN consumers' = Functions /\ consumers' = [f \in Functions |-> consumers'[f]]
    BY <1>3
  <2> QED BY <2>1, <1>6
<1> QED
  BY <1>4, <1>5, <1>7

(* A refresh keeps the types. *)
LEMMA RefreshTypeOK ==
    ASSUME TypeOK, NEW c, SyncAndReconcile(c)
    PROVE  /\ clone' \in 0..commits /\ files' \in [Functions -> Codes]
           /\ missed' \in BOOLEAN /\ faults' \in 0..MaxFaults
           /\ sid' \in Nat \ {0} /\ sid <= sid'
           /\ subs' \subseteq Subscriptions' /\ served' \subseteq Subscriptions'
           /\ leaked' \subseteq Subscriptions' /\ unheard' \subseteq Functions
           /\ conn' \in ConnStates
           /\ consumers' \in [Functions -> 0..(sid' - 1)]
<1>1. PICK copying \in {0, 1}, listing \in {0, 1}, sending \in {0, 1} :
         /\ copying + listing + sending <= faults
         /\ faults' = faults - (copying + listing + sending)
         /\ Sync(copying) /\ Reconcile(c, listing, sending)
  BY DEF SyncAndReconcile
<1>2. faults' \in 0..MaxFaults
  BY <1>1 DEF TypeOK
<1>3. /\ clone' \in 0..commits /\ files' \in [Functions -> Codes] /\ missed' \in BOOLEAN
  BY <1>1, SyncTypeOK
<1>4. /\ sid' \in Nat \ {0} /\ sid <= sid'
      /\ subs' \subseteq Subscriptions' /\ served' \subseteq Subscriptions'
      /\ leaked' \subseteq Subscriptions' /\ unheard' \subseteq Functions
      /\ conn' \in ConnStates
      /\ consumers' \in [Functions -> 0..(sid' - 1)]
  BY <1>1, <1>3, ReconcileTypeOK
<1> QED
  BY <1>2, <1>3, <1>4

------------------------------------------------------------------------------
(* The initial state has the declared types. *)
LEMMA InitTypeOK == Init => TypeOK
<1> SUFFICES ASSUME Init PROVE TypeOK
  OBVIOUS
<1>1. socket \in Seq(Frames)
  BY EmptySeq DEF Init
<1>2. NoCode \in [Functions -> Codes] /\ 0..0 = {0}
  BY DEF NoCode, Codes
<1>3. trees \in [0..commits -> [Functions -> Codes]]
  BY <1>2 DEF Init
<1>4. consumers \in [Functions -> 0..(sid - 1)]
  BY <1>2 DEF Init, NoCode
<1> QED
  BY <1>1, <1>2, <1>3, <1>4 DEF Init, TypeOK

(* Every step keeps the types. *)
LEMMA NextTypeOK == TypeOK /\ [Next]_vars => TypeOK'
<1> SUFFICES ASSUME TypeOK, [Next]_vars PROVE TypeOK'
  OBVIOUS
<1> USE DEF repoVars, codeVars, clientVars, serverVars, subVars, historyVars
<1>1. ASSUME NEW f \in Functions, Push(f) PROVE TypeOK'
  <2>1. commits' = commits + 1 /\ commits' \in 0..MaxCommits /\ owed' \in 0..commits'
    BY <1>1 DEF Push, TypeOK
  <2>2. socket' \in Seq(Frames')
    BY <2>1, <1>1, SocketGrows DEF Push, TypeOK
  <2>3. trees' \in [0..commits' -> [Functions -> Codes]]
    BY <2>1, <1>1 DEF Push, TypeOK, Codes
  <2> QED
    BY <2>1, <2>2, <2>3, <1>1 DEF Push, TypeOK, Subscriptions
<1>2. CASE RuntimeHook
  <2>1. socket' \in Seq(Frames)
    <3>1. [for |-> Listeners(Hook), due |-> commits] \in Frames
      BY DEF TypeOK, Listeners, Frames
    <3>2. socket' = socket \/ socket' = Append(socket, [for |-> Listeners(Hook), due |-> commits])
      BY <1>2, Zenon DEF RuntimeHook
    <3>3. socket \in Seq(Frames)
      BY DEF TypeOK
    <3> QED
      BY <3>1, <3>2, <3>3, AppendProperties
  <2>2. Frames' = Frames /\ owed' \in 0..commits
    BY <1>2 DEF RuntimeHook, TypeOK, Frames, Subscriptions
  <2>3. announced' \in 0..commits
    BY <1>2 DEF RuntimeHook, TypeOK
  <2>4. missed' \in BOOLEAN
    <3>1. missed' = TRUE \/ missed' = missed
      BY <1>2, Zenon DEF RuntimeHook
    <3> QED
      BY <3>1, Zenon DEF TypeOK
  <2> QED
    BY <2>1, <2>2, <2>3, <2>4, <1>2 DEF RuntimeHook, TypeOK, Subscriptions
<1>3. ASSUME NEW f \in Functions, PublishEvent(f) PROVE TypeOK'
  <2>1. socket' \in Seq(Frames)
    BY <1>3 DEF PublishEvent, TypeOK, Listeners, Frames
  <2> QED
    BY <2>1, <1>3 DEF PublishEvent, TypeOK, Frames, Subscriptions
<1>4. CASE Boot
  <2>1. SyncAndReconcile("open") /\ UNCHANGED <<repoVars, events, socket, announced>>
        /\ step' = "booted"
    BY <1>4 DEF Boot
  <2>2. socket' \in Seq(Frames')
    BY <2>1, RefreshTypeOK, SocketGrows DEF TypeOK
  <2> QED
    BY <2>1, <2>2, RefreshTypeOK DEF TypeOK, ConnStates
<1>5. CASE Watch
  <2>1. PICK fault \in {0, 1} :
           /\ Resubscribe({<<Hook, sid>>}, {}, conn, fault)
           /\ fault <= faults /\ faults' = faults - fault
    BY <1>5 DEF Watch
  <2>2. {<<Hook, sid>>} \in SUBSET ((Functions \cup {Hook}) \X {sid})
    OBVIOUS
  <2>3. /\ sid' \in Nat \ {0} /\ sid <= sid'
        /\ subs' \subseteq Subscriptions' /\ served' \subseteq Subscriptions'
        /\ leaked' \subseteq Subscriptions' /\ conn' \in ConnStates
    BY <2>1, <2>2, ResubscribeTypeOK
  <2>4. socket' \in Seq(Frames')
    BY <1>5, <2>3, SocketGrows DEF Watch, TypeOK
  <2>5. faults' \in 0..MaxFaults
    BY <2>1 DEF TypeOK
  <2>6. consumers' \in [Functions -> 0..(sid' - 1)]
    BY <1>5, <2>3 DEF Watch, TypeOK
  <2> QED
    BY <1>5, <2>3, <2>4, <2>5, <2>6 DEF Watch, TypeOK, ConnStates
<1>6. CASE Poll
  <2>1. CASE PollHook
    <3>1. SyncAndReconcile(conn) /\ socket # <<>> /\ socket' = Tail(socket)
          /\ UNCHANGED <<repoVars, events, step, announced>>
      BY <2>1 DEF PollHook, Polled
    <3>2. socket' \in Seq(Frames')
      BY <3>1, RefreshTypeOK, PollKeepsFrames, SocketGrows DEF TypeOK
    <3> QED
      BY <3>1, <3>2, RefreshTypeOK DEF TypeOK, ConnStates
  <2>2. ASSUME socket' \in Seq(Frames), UNCHANGED <<sid, commits>>
        PROVE  socket' \in Seq(Frames')
    BY <2>2 DEF Frames, Subscriptions
  <2>3. CASE PollHookFails
    BY <2>3, <2>2, PollKeepsFrames DEF PollHookFails, Polled, TypeOK, Codes, Subscriptions
  <2>4. CASE PollEvent
    <3>1. socket' \in Seq(Frames')
      BY <2>4, <2>2, PollKeepsFrames DEF PollEvent, Polled
    <3>2. conn' \in {"open", "garbled", "closed"} /\ faults' \in 0..MaxFaults
      BY <2>4 DEF PollEvent, TypeOK
    <3> QED
      BY <2>4, <3>1, <3>2 DEF PollEvent, TypeOK, Codes, Subscriptions
  <2>5. CASE PollPart
    <3>1. socket' \in Seq(Frames')
      BY <2>5, <2>2, PollKeepsFrames DEF PollPart
    <3>2. missed' \in BOOLEAN
      BY <2>5, Zenon DEF PollPart
    <3>3. faults' \in 0..MaxFaults
      BY <2>5 DEF PollPart, TypeOK
    <3> QED
      BY <2>5, <3>1, <3>2, <3>3 DEF PollPart, TypeOK, Subscriptions
  <2>6. CASE PollUnheard
    BY <2>6, <2>2, PollKeepsFrames DEF PollUnheard, TypeOK, Codes, Subscriptions
  <2> QED
    BY <1>6, <2>1, <2>3, <2>4, <2>5, <2>6 DEF Poll
<1>7. CASE Closed
  BY <1>7 DEF Closed, TypeOK, Frames, Subscriptions
<1>8. CASE Killed
  BY <1>8, EmptySeq DEF Killed, TypeOK, NoCode, Codes, Subscriptions, Frames
<1>9. CASE UNCHANGED vars
  BY <1>9 DEF vars, TypeOK, Frames, Subscriptions
<1> QED
  BY <1>1, <1>2, <1>3, <1>4, <1>5, <1>6, <1>7, <1>8, <1>9 DEF Next

(* Every state has the declared types. *)
THEOREM TypeCorrect == Spec => []TypeOK
BY InitTypeOK, NextTypeOK, PTL DEF Spec

------------------------------------------------------------------------------
(* A runtime that is off has no connection. *)
Offline ==
    step = "off" => /\ socket = <<>> /\ subs = {} /\ served = {} /\ leaked = {}
                    /\ consumers = NoCode

(* reconcile_consumers leaves consumers, files and subscriptions in agreement. *)
LEMMA ReconcileAgrees ==
    ASSUME TypeOK, ConsumersAgree, NEW c, NEW listing \in {0, 1}, NEW sending,
           c = "open" => served = subs \cup leaked,
           Reconcile(c, listing, sending)
    PROVE  ConsumersAgree'
<1> DEFINE gone == {f \in Functions \ Listed(listing) : consumers[f] # 0}
           missing == {f \in Listed(listing) : consumers[f] = 0}
           opened == missing \X {sid}
           closed == {<<f, consumers[f]>> : f \in gone}
<1>0. Resubscribe(opened, closed, c, sending)
  BY DEF Reconcile
<1> PICK lost, failed : Outcome(opened, closed, c, lost, failed)
  <2> HIDE DEF opened, closed
  <2> QED
    BY <1>0, ResubscribeOutcome, Zenon
<1>1. /\ subs' = (subs \ closed) \cup (opened \ failed)
      /\ served' = (served \ (closed \ lost)) \cup (opened \ lost)
      /\ leaked' = leaked \cup (closed \cap lost \cap served)
      /\ conn' = "open" => c = "open" /\ failed = lost
      /\ failed \subseteq lost
  BY DEF Outcome
<1>2. \A f \in Functions :
         consumers'[f] = IF f \in gone THEN 0
                         ELSE IF <<f, sid>> \in subs' THEN sid ELSE consumers[f]
  BY DEF Reconcile
<1>3. /\ \A s \in subs : s[1] # Hook => s[1] \in Functions /\ s = <<s[1], consumers[s[1]]>>
                                        /\ consumers[s[1]] # 0
      /\ \A f \in Functions : consumers[f] # 0 => <<f, consumers[f]>> \in subs
  BY DEF ConsumersAgree
<1>4. \A f \in gone : f \in Functions /\ consumers[f] # 0
  OBVIOUS
<1>5. \A f \in missing : f \in Functions /\ consumers[f] = 0 /\ files'[f] # 0 /\ f \notin gone
  BY DEF Listed
<1>6. \A f \in Functions : f \notin gone /\ consumers[f] # 0 => files'[f] # 0
  BY DEF Listed
<1>7. \A f \in gone : <<f, consumers[f]>> \in closed
  OBVIOUS
<1>8. \A s \in closed : s[1] \in gone /\ s = <<s[1], consumers[s[1]]>>
  OBVIOUS
<1>9. \A s \in opened : s[1] \in missing /\ s = <<s[1], sid>>
  OBVIOUS
<1>10. ASSUME NEW f \in Functions, files'[f] # 0, consumers'[f] = 0 PROVE f \in unheard'
  <2>1. CASE listing = 1
    BY <2>1 DEF Reconcile
  <2>2. CASE listing # 1
    <3>1. unheard' = {g \in missing : <<g, sid>> \notin subs'}
      BY <2>2 DEF Reconcile
    <3>2. sid # 0
      BY DEF TypeOK
    <3>3. CASE f \in gone
      <4>1. f \notin Listed(listing)
        BY <3>3
      <4> QED
        BY <4>1, <2>2, <1>10 DEF Listed
    <3>4. CASE f \notin gone
      <4>1. <<f, sid>> \notin subs' /\ consumers[f] = 0
        BY <3>2, <3>4, <1>2, <1>10
      <4>2. f \in Listed(listing)
        BY <3>4, <4>1, <1>10, <2>2 DEF Listed
      <4> QED
        BY <4>1, <4>2, <3>1
    <3> QED
      BY <3>3, <3>4
  <2> QED
    BY <2>1, <2>2
<1>11. \A s \in subs \cup leaked \cup served : s[2] # sid
  BY DEF TypeOK, Subscriptions
<1> HIDE DEF gone, missing, opened, closed
<1>12. ASSUME NEW s \in subs', s[1] # Hook
      PROVE  s[1] \in Functions /\ s = <<s[1], consumers'[s[1]]>> /\ consumers'[s[1]] # 0
  <2>1. CASE s \in opened
    <3>1. s[1] \in Functions /\ s[1] \notin gone /\ s = <<s[1], sid>> /\ sid # 0
      BY <2>1, <1>5, <1>9 DEF TypeOK
    <3> QED
      BY <3>1, <1>2, <1>12
  <2>2. CASE s \notin opened
    <3>1. s \in subs /\ s \notin closed
      BY <2>2, <1>1, <1>12
    <3>2. s[1] \in Functions /\ s = <<s[1], consumers[s[1]]>> /\ consumers[s[1]] # 0
      BY <3>1, <1>3, <1>12
    <3>3. s[1] \notin gone
      BY <3>1, <3>2, <1>7
    <3>4. <<s[1], sid>> \notin subs'
      <4>1. <<s[1], sid>> \notin opened
        BY <3>2, <1>5, <1>9
      <4>2. <<s[1], sid>> \notin subs
        BY <1>11
      <4> QED
        BY <4>1, <4>2, <1>1
    <3> QED
      BY <3>2, <3>3, <3>4, <1>2
  <2> QED
    BY <2>1, <2>2
<1>13. ASSUME NEW f \in Functions, consumers'[f] # 0
       PROVE  <<f, consumers'[f]>> \in subs' /\ files'[f] # 0
  <2>1. f \notin gone
    BY <1>2, <1>13
  <2>2. CASE <<f, sid>> \in subs'
    <3>1. <<f, sid>> \notin subs
      BY <1>11
    <3>2. <<f, sid>> \in opened
      BY <2>2, <3>1, <1>1
    <3>3. f \in missing
      BY <3>2, <1>9
    <3> QED
      BY <2>1, <2>2, <3>3, <1>2, <1>5
  <2>3. CASE <<f, sid>> \notin subs'
    <3>1. consumers'[f] = consumers[f] /\ consumers[f] # 0
      BY <2>1, <2>3, <1>2, <1>13
    <3>2. <<f, consumers[f]>> \in subs
      BY <3>1, <1>3
    <3>3. <<f, consumers[f]>> \notin closed
      BY <2>1, <1>8
    <3> QED
      BY <3>1, <3>2, <3>3, <2>1, <1>1, <1>6
  <2> QED
    BY <2>2, <2>3
<1>14. {s \in subs' : s[1] # Hook}
          = {<<f, consumers'[f]>> : f \in {g \in Functions : consumers'[g] # 0}}
  BY <1>12, <1>13, HookAssumption
<1>15. closed \subseteq subs /\ leaked \cap subs = {}
  BY <1>3, <1>4, <1>8 DEF ConsumersAgree
<1>16. \A s \in opened : s \notin subs \cup leaked \cup served \cup closed
  BY <1>9, <1>11, <1>15
<1>17. leaked' \cap subs' = {}
  BY <1>1, <1>15, <1>16
<1>18. ASSUME conn' = "open" PROVE served' = subs' \cup leaked'
  <2>1. served = subs \cup leaked /\ failed = lost
    BY <1>1, <1>18
  <2> QED
    BY <2>1, <1>1, <1>15, <1>16
<1> QED
  BY <1>10, <1>13, <1>14, <1>17, <1>18 DEF ConsumersAgree

(* Every step keeps the agreement. *)
LEMMA NextAgrees == TypeOK /\ Offline /\ ConsumersAgree /\ [Next]_vars => ConsumersAgree'
<1> SUFFICES ASSUME TypeOK, Offline, ConsumersAgree, [Next]_vars PROVE ConsumersAgree'
  OBVIOUS
<1> USE DEF repoVars, codeVars, clientVars, serverVars, subVars, historyVars
<1>1. ASSUME UNCHANGED <<files, subs, consumers, served, leaked, unheard>>, conn' = conn \/ conn' # "open"
      PROVE  ConsumersAgree'
  BY <1>1 DEF ConsumersAgree
<1>2. ASSUME NEW f \in Functions, Push(f) \/ PublishEvent(f) PROVE ConsumersAgree'
  BY <1>1, <1>2 DEF Push, PublishEvent
<1>3. CASE RuntimeHook
  BY <1>1, <1>3 DEF RuntimeHook
<1>4. CASE Boot
  <2>1. PICK listing \in {0, 1}, sending \in {0, 1} : Reconcile("open", listing, sending)
    BY <1>4 DEF Boot, SyncAndReconcile
  <2>2. served = subs \cup leaked
    BY <1>4 DEF Boot, Offline
  <2> QED
    BY <2>1, <2>2, ReconcileAgrees
<1>5. CASE Watch
  <2>1. PICK fault \in {0, 1} : Resubscribe({<<Hook, sid>>}, {}, conn, fault)
    BY <1>5 DEF Watch
  <2>0. PICK lost, failed : Outcome({<<Hook, sid>>}, {}, conn, lost, failed)
    BY <2>1, ResubscribeOutcome, Zenon
  <2>2. /\ subs' = subs \cup ({<<Hook, sid>>} \ failed)
        /\ served' = served \cup ({<<Hook, sid>>} \ lost)
        /\ leaked' = leaked
        /\ conn' = "open" => conn = "open" /\ failed = lost
    BY <2>0 DEF Outcome
  <2>3. UNCHANGED <<files, consumers, unheard, leaked>>
    BY <1>5, <2>2 DEF Watch
  <2>4. {s \in subs' : s[1] # Hook} = {s \in subs : s[1] # Hook}
    BY <2>2
  <2>5. <<Hook, sid>> \notin leaked
    BY DEF TypeOK, Subscriptions
  <2>6. leaked' \cap subs' = {}
    BY <2>2, <2>3, <2>5 DEF ConsumersAgree
  <2>7. conn' = "open" => served' = subs' \cup leaked'
    BY <2>2, <2>3 DEF ConsumersAgree
  <2> QED
    BY <2>3, <2>4, <2>6, <2>7 DEF ConsumersAgree
<1>6. CASE PollHook
  <2>1. PICK listing \in {0, 1}, sending \in {0, 1} : Reconcile(conn, listing, sending)
    BY <1>6 DEF PollHook, SyncAndReconcile
  <2> QED
    BY <2>1, ReconcileAgrees DEF ConsumersAgree
<1>7. CASE PollHookFails
  BY <1>1, <1>7 DEF PollHookFails
<1>8. CASE PollEvent
  BY <1>1, <1>8 DEF PollEvent
<1>9. CASE PollPart
  BY <1>1, <1>9 DEF PollPart
<1>10. CASE PollUnheard
  BY <1>1, <1>10 DEF PollUnheard
<1>11. CASE Closed
  BY <1>11 DEF Closed, ConsumersAgree
<1>12. CASE Killed
  BY <1>12 DEF Killed, ConsumersAgree, NoCode
<1>13. CASE UNCHANGED vars
  BY <1>1, <1>13 DEF vars
<1> QED
  BY <1>2, <1>3, <1>4, <1>5, <1>6, <1>7, <1>8, <1>9, <1>10, <1>11, <1>12, <1>13 DEF Next, Poll

(* A runtime that is off stays without a connection. *)
LEMMA OfflineCorrect == Spec => []Offline
<1>1. Init => Offline
  BY DEF Init, Offline
<1>2. Offline /\ [Next]_vars => Offline'
  <2> SUFFICES ASSUME Offline, [Next]_vars PROVE Offline'
    OBVIOUS
  <2> USE DEF Offline, repoVars, codeVars, clientVars, serverVars, subVars, historyVars
  <2>1. CASE Poll
    BY <2>1 DEF Poll, Polled, PollHook, PollHookFails, PollEvent, PollPart, PollUnheard
  <2>2. ASSUME NEW f \in Functions, Push(f) \/ PublishEvent(f) PROVE Offline'
    BY <2>2 DEF Push, PublishEvent, Listeners
  <2>3. CASE RuntimeHook
    BY <2>3 DEF RuntimeHook, Listeners
  <2>4. CASE Boot \/ Watch \/ Closed \/ Killed \/ UNCHANGED vars
    BY <2>4 DEF Boot, Watch, Closed, Killed, vars
  <2> QED
    BY <2>1, <2>2, <2>3, <2>4 DEF Next
<1> QED
  BY <1>1, <1>2, PTL DEF Spec

(* In every state a function has at most one handler, the one its consumer    *)
(* names; on a sound connection the server knows the same subscriptions and   *)
(* those whose UNSUB was refused; and what has a file and no consumer is what *)
(* the last reconcile could not list or subscribe.                            *)
THEOREM ConsumersAgreeCorrect == Spec => []ConsumersAgree
<1>1. Init => ConsumersAgree
  BY DEF Init, ConsumersAgree, NoCode
<1> QED
  BY <1>1, TypeCorrect, OfflineCorrect, NextAgrees, PTL DEF Spec

------------------------------------------------------------------------------
(* The inductive invariant behind EventRunsAnnouncedCode and IdleIsCurrent. *)

(* What the server sends is for subscriptions of one name or, if it is the   *)
(* rest of a cut frame, for none.                                            *)
FramesAreSingle ==
    \A i \in 1..Len(socket) : \A s, t \in socket[i].for : s[1] = t[1]

(* A hook's subscription is never given up, so its frames find a handler. *)
HooksAreHeard ==
    /\ \A s \in served : s[1] = Hook => s \in subs
    /\ \A i \in 1..Len(socket) : \A s \in socket[i].for : s[1] = Hook => s \in subs

HookAt(i) == \E s \in socket[i].for : s[1] = Hook

(* Commit n is in the clone, or a hook among the first i frames brings it. *)
Covered(n, i) == n <= clone \/ \E j \in 1..i : HookAt(j) /\ n <= socket[j].due

(* What a frame, or the next one, is entitled to is there once it is read. *)
DuesAreCovered ==
    ~missed => /\ \A i \in 1..Len(socket) : Covered(socket[i].due, i)
               /\ Covered(announced, Len(socket))

(* The runtime has the files of its clone; and when no hook is owed, the last *)
(* commit is in the clone or announced.                                       *)
CodeIsKept ==
    (step # "off" /\ ~missed) =>
        /\ files = trees[clone]
        /\ owed = 0 => (clone = commits \/ announced = commits)

CodeInv == FramesAreSingle /\ HooksAreHeard /\ DuesAreCovered /\ CodeIsKept

(* What polling takes from the socket. *)
LEMMA PollShifts ==
    ASSUME TypeOK, socket # <<>>
    PROVE  /\ Len(socket) \in Nat \ {0} /\ Head(socket) = socket[1]
           /\ Len(Tail(socket)) = Len(socket) - 1
           /\ \A i \in 1..Len(Tail(socket)) : Tail(socket)[i] = socket[i + 1]
           /\ Len([socket EXCEPT ![1] = Noise]) = Len(socket)
           /\ \A i \in 1..Len(socket) :
                 [socket EXCEPT ![1] = Noise][i] = IF i = 1 THEN Noise ELSE socket[i]
<1>1. socket \in Seq(Frames) /\ 1 \in 1..Len(socket) /\ Len(socket) \in Nat \ {0}
  BY EmptySeq DEF TypeOK
<1>2. Noise \in Frames
  BY DEF TypeOK, Noise, Frames
<1> QED
  BY <1>1, <1>2, HeadTailProperties, ExceptSeq

(* What sending a frame adds to it. *)
LEMMA AppendExtends ==
    ASSUME TypeOK, NEW x
    PROVE  /\ Len(socket) \in Nat
           /\ Len(Append(socket, x)) = Len(socket) + 1
           /\ \A i \in 1..Len(socket) + 1 :
                 Append(socket, x)[i] = IF i <= Len(socket) THEN socket[i] ELSE x
<1>1. socket \in Seq(Frames) /\ Len(socket) \in Nat
  BY LenProperties DEF TypeOK
<1> QED
  BY <1>1

------------------------------------------------------------------------------
(* A refresh that succeeds covers whatever frames remain. *)
LEMMA SyncCovers ==
    ASSUME TypeOK, NEW fault, Sync(fault), commits' = commits, socket' \in Seq(Frames'),
           announced' \in 0..commits, owed' = owed, trees' = trees
    PROVE  DuesAreCovered' /\ CodeIsKept'
<1>1. clone' = commits
  BY DEF Sync
<1>2. ASSUME NEW i \in 1..Len(socket') PROVE socket'[i].due \in 0..commits
  <2>1. socket'[i] \in Frames'
    BY ElementOfSeq
  <2> QED
    BY <2>1 DEF Frames
<1>3. DuesAreCovered'
  BY <1>1, <1>2 DEF DuesAreCovered, Covered, TypeOK
<1>4. ASSUME ~missed' PROVE files' = trees[commits]
  <2>1. PICK kept \in SUBSET Functions, failed \in SUBSET Functions :
          /\ fault = IF kept = {} /\ failed = {} THEN 0 ELSE 1
          /\ files' = [f \in Functions |->
                          IF f \notin failed /\ trees[commits][f] # 0 THEN trees[commits][f]
                          ELSE IF f \in kept THEN files[f] ELSE 0]
          /\ missed' = (fault = 1)
    BY DEF Sync
  <2>2. trees[commits] \in [Functions -> Codes]
    BY DEF TypeOK
  <2>3. kept = {} /\ failed = {}
    BY <1>4, <2>1
  <2>4. \A f \in Functions : files'[f] = trees[commits][f]
    BY <2>1, <2>3
  <2> QED
    BY <2>1, <2>2, <2>4
<1> QED
  BY <1>1, <1>3, <1>4 DEF CodeIsKept

(* The subscription of a hook is never given up by a refresh. *)
LEMMA ReconcileKeepsHooks ==
    ASSUME NEW c, SyncAndReconcile(c), \A s \in served : s[1] = Hook => s \in subs
    PROVE  /\ \A s \in subs : s[1] = Hook => s \in subs'
           /\ \A s \in served' : s[1] = Hook => s \in subs'
<1>1. PICK listing, sending : Reconcile(c, listing, sending)
  BY DEF SyncAndReconcile
<1> DEFINE gone == {f \in Functions \ Listed(listing) : consumers[f] # 0}
           missing == {f \in Listed(listing) : consumers[f] = 0}
           opened == missing \X {sid}
           closed == {<<f, consumers[f]>> : f \in gone}
<1>2. Resubscribe(opened, closed, c, sending)
  BY <1>1 DEF Reconcile
<1>3. \A s \in closed : s[1] # Hook
  BY HookAssumption
<1> HIDE DEF opened, closed
<1> PICK lost, failed : Outcome(opened, closed, c, lost, failed)
  BY <1>2, ResubscribeOutcome, Zenon
<1>4. /\ failed \subseteq lost
      /\ subs' = (subs \ closed) \cup (opened \ failed)
      /\ served' = (served \ (closed \ lost)) \cup (opened \ lost)
  BY DEF Outcome
<1>5. \A s \in subs : s[1] = Hook => s \in subs'
  BY <1>3, <1>4
<1>6. \A s \in served' : s[1] = Hook => s \in subs'
  BY <1>4, <1>5
<1> QED
  BY <1>5, <1>6

(* Reading a frame that is not a hook's, or losing it, covers what remains. *)
LEMMA PassOver ==
    ASSUME TypeOK, CodeInv, socket # <<>>, ~HookAt(1),
           UNCHANGED <<clone, announced, missed>>,
           socket' = Tail(socket) \/ socket' = [socket EXCEPT ![1] = Noise]
    PROVE  DuesAreCovered'
<1> SUFFICES ASSUME ~missed
             PROVE  /\ \A i \in 1..Len(socket') : Covered(socket[i].due, i)'
                    /\ Covered(announced, Len(socket))'
  BY DEF DuesAreCovered
<1>1. /\ \A i \in 1..Len(socket) : Covered(socket[i].due, i)
      /\ Covered(announced, Len(socket))
  BY DEF CodeInv, DuesAreCovered
<1>2. clone \in Nat /\ Len(socket) \in Nat \ {0}
  BY PollShifts DEF TypeOK
<1>3. CASE socket' = Tail(socket)
  <2>1. Len(socket') = Len(socket) - 1 /\ \A i \in 1..Len(socket') : socket'[i] = socket[i + 1]
    BY <1>3, PollShifts
  <2>2. ASSUME NEW n, NEW i \in 0..Len(socket'), Covered(n, i + 1)
        PROVE  n <= clone' \/ \E j \in 1..i : HookAt(j)' /\ n <= socket'[j].due
    <3>1. ASSUME NEW j \in 1..(i + 1), HookAt(j), n <= socket[j].due
          PROVE  \E k \in 1..i : HookAt(k)' /\ n <= socket'[k].due
      <4>1. j # 1
        BY <3>1
      <4>2. j - 1 \in 1..i /\ j - 1 \in 1..Len(socket') /\ socket'[j - 1] = socket[j]
        BY <4>1, <2>1, <1>2
      <4> QED
        BY <4>2, <3>1 DEF HookAt
    <3> QED
      BY <2>2, <3>1 DEF Covered
  <2>3. ASSUME NEW i \in 1..Len(socket') PROVE Covered(socket[i].due, i)'
    <3>1. i + 1 \in 1..Len(socket) /\ socket'[i] = socket[i + 1] /\ i \in 0..Len(socket')
      BY <2>1, <1>2
    <3> QED
      BY <3>1, <2>2, <1>1 DEF Covered
  <2>4. Covered(announced, Len(socket))'
    <3>1. Len(socket') \in 0..Len(socket') /\ Len(socket') + 1 = Len(socket)
      BY <2>1, <1>2
    <3> QED
      BY <3>1, <2>2, <1>1 DEF Covered
  <2> QED
    BY <2>3, <2>4
<1>4. CASE socket' = [socket EXCEPT ![1] = Noise]
  <2>1. /\ Len(socket') = Len(socket)
        /\ \A i \in 1..Len(socket) : socket'[i] = IF i = 1 THEN Noise ELSE socket[i]
    BY <1>4, PollShifts
  <2>2. ASSUME NEW n, NEW i \in 1..Len(socket), Covered(n, i)
        PROVE  n <= clone' \/ \E j \in 1..i : HookAt(j)' /\ n <= socket'[j].due
    <3>1. ASSUME NEW j \in 1..i, HookAt(j), n <= socket[j].due
          PROVE  HookAt(j)' /\ n <= socket'[j].due
      <4>1. j # 1 /\ j \in 1..Len(socket)
        BY <3>1, <1>2
      <4> QED
        BY <4>1, <2>1, <3>1 DEF HookAt
    <3> QED
      BY <2>2, <3>1 DEF Covered
  <2>3. ASSUME NEW i \in 1..Len(socket') PROVE Covered(socket[i].due, i)'
    <3>1. CASE i = 1
      BY <3>1, <2>1, <1>2 DEF Covered, Noise
    <3>2. CASE i # 1
      BY <3>2, <2>1, <2>2, <1>1 DEF Covered
    <3> QED
      BY <3>1, <3>2
  <2>4. Covered(announced, Len(socket))'
    BY <2>1, <2>2, <1>1, <1>2 DEF Covered
  <2> QED
    BY <2>3, <2>4
<1> QED
  BY <1>3, <1>4

(* Sending a frame that is covered, or a hook that covers it, does too. *)
LEMMA SendCovers ==
    ASSUME TypeOK, CodeInv, NEW x, socket' = Append(socket, x), clone' = clone, missed' = missed,
           x.due \in Nat,
           \/ x.due = announced /\ announced' = announced
           \/ x.due = announced' /\ \E s \in x.for : s[1] = Hook
    PROVE  DuesAreCovered'
<1> SUFFICES ASSUME ~missed
             PROVE  /\ \A i \in 1..Len(socket') : Covered(socket[i].due, i)'
                    /\ Covered(announced, Len(socket))'
  BY DEF DuesAreCovered
<1> PICK m : m = Len(socket)
  OBVIOUS
<1>1. /\ m \in Nat /\ Len(socket') = m + 1
      /\ \A i \in 1..m + 1 : socket'[i] = IF i <= m THEN socket[i] ELSE x
  BY AppendExtends
<1>2. (\A i \in 1..m : Covered(socket[i].due, i)) /\ Covered(announced, m)
  BY DEF CodeInv, DuesAreCovered
<1>3. ASSUME NEW n, NEW i \in 0..m, Covered(n, i), NEW k \in i..(m + 1)
      PROVE  n <= clone' \/ \E j \in 1..k : HookAt(j)' /\ n <= socket'[j].due
  <2>1. ASSUME NEW j \in 1..i, HookAt(j), n <= socket[j].due
        PROVE  j \in 1..k /\ HookAt(j)' /\ n <= socket'[j].due
    BY <2>1, <1>1 DEF HookAt
  <2> QED
    BY <1>3, <2>1 DEF Covered
<1>4. ASSUME NEW n, n = x.due
      PROVE  n <= clone' \/ \E j \in 1..(m + 1) : HookAt(j)' /\ n <= socket'[j].due
  <2>1. m + 1 \in 1..(m + 1) /\ socket'[m + 1] = x /\ m \in 0..m /\ m + 1 \in m..(m + 1)
    BY <1>1
  <2>2. CASE x.due = announced
    BY <2>1, <2>2, <1>2, <1>3, <1>4
  <2>3. CASE \E s \in x.for : s[1] = Hook
    <3>1. HookAt(m + 1)' /\ n <= socket'[m + 1].due
      BY <2>1, <2>3, <1>4 DEF HookAt
    <3> QED
      BY <2>1, <3>1
  <2> QED
    BY <2>2, <2>3
<1>5. ASSUME NEW i \in 1..Len(socket') PROVE Covered(socket[i].due, i)'
  <2>1. CASE i <= m
    <3>1. i \in 0..m /\ i \in 1..m /\ i \in i..(m + 1) /\ socket'[i] = socket[i]
      BY <2>1, <1>1
    <3> QED
      BY <3>1, <1>2, <1>3 DEF Covered
  <2>2. CASE i > m
    <3>1. i = m + 1 /\ socket'[i] = x
      BY <2>2, <1>1
    <3> QED
      BY <3>1, <1>4 DEF Covered
  <2> QED
    BY <2>1, <2>2, <1>1
<1>6. Covered(announced, Len(socket))'
  <2>1. announced' = x.due
    OBVIOUS
  <2> QED
    BY <2>1, <1>1, <1>4 DEF Covered
<1> QED
  BY <1>5, <1>6

------------------------------------------------------------------------------
(* Every step keeps the shape of frames. *)
LEMMA FramesStaySingle == ASSUME TypeOK, FramesAreSingle, [Next]_vars PROVE FramesAreSingle'
<1> USE DEF repoVars, codeVars, clientVars, serverVars, subVars, historyVars, FramesAreSingle
<1>1. ASSUME NEW x, socket' = Append(socket, x), \A s, t \in x.for : s[1] = t[1]
      PROVE  FramesAreSingle'
  BY <1>1, AppendExtends
<1>2. CASE UNCHANGED socket \/ socket' = <<>>
  BY <1>2
<1>3. CASE socket # <<>> /\ socket' = Tail(socket)
  BY <1>3, PollShifts
<1>4. CASE socket # <<>> /\ socket' = [socket EXCEPT ![1] = Noise]
  BY <1>4, PollShifts DEF Noise
<1>5. CASE RuntimeHook
  BY <1>1, <1>2, <1>5 DEF RuntimeHook, Listeners
<1>6. ASSUME NEW f \in Functions, Push(f) \/ PublishEvent(f) PROVE FramesAreSingle'
  BY <1>1, <1>2, <1>6 DEF Push, PublishEvent, Listeners
<1>7. CASE Poll
  BY <1>3, <1>4, <1>7 DEF Poll, PollHook, PollHookFails, PollEvent, PollPart, PollUnheard, Polled
<1>8. CASE Boot \/ Watch \/ Closed \/ Killed \/ UNCHANGED vars
  BY <1>2, <1>8 DEF Boot, Watch, Closed, Killed, vars
<1> QED
  BY <1>5, <1>6, <1>7, <1>8 DEF Next

(* Every step keeps the handlers of hooks. *)
LEMMA HooksStayHeard == ASSUME TypeOK, HooksAreHeard, Offline, [Next]_vars PROVE HooksAreHeard'
<1> USE DEF repoVars, codeVars, clientVars, serverVars, subVars, historyVars
<1>1. ASSUME NEW x, socket' = Append(socket, x), UNCHANGED <<subs, served>>,
             x.for \subseteq served
      PROVE  HooksAreHeard'
  BY <1>1, AppendExtends DEF HooksAreHeard
<1>2. ASSUME UNCHANGED socket, subs \subseteq subs',
             \A s \in served' : s \in served \/ s \in subs'
      PROVE  HooksAreHeard'
  BY <1>2 DEF HooksAreHeard
<1>3. ASSUME UNCHANGED subs, UNCHANGED served, socket # <<>>,
             socket' = Tail(socket) \/ socket' = [socket EXCEPT ![1] = Noise]
      PROVE  HooksAreHeard'
  BY <1>3, PollShifts DEF HooksAreHeard, Noise
<1>4. CASE RuntimeHook
  <2>1. CASE Listeners(Hook) = {}
    BY <2>1, <1>2, <1>4 DEF RuntimeHook
  <2>2. CASE Listeners(Hook) # {}
    <3>1. socket' = Append(socket, [for |-> Listeners(Hook), due |-> commits])
          /\ UNCHANGED <<subs, served>>
      BY <2>2, <1>4 DEF RuntimeHook
    <3>2. Listeners(Hook) \subseteq served
      BY DEF Listeners
    <3> QED
      BY <3>1, <3>2, <1>1
  <2> QED
    BY <2>1, <2>2
<1>5. ASSUME NEW f \in Functions, Push(f) \/ PublishEvent(f) PROVE HooksAreHeard'
  <2>1. CASE Push(f)
    BY <2>1, <1>2 DEF Push
  <2>2. CASE PublishEvent(f)
    <3>1. socket' = Append(socket, [for |-> Listeners(f), due |-> announced])
          /\ UNCHANGED <<subs, served>>
      BY <2>2 DEF PublishEvent
    <3>2. Listeners(f) \subseteq served
      BY DEF Listeners
    <3> QED
      BY <3>1, <3>2, <1>1
  <2> QED
    BY <2>1, <2>2, <1>5
<1>6. CASE Boot
  <2>1. SyncAndReconcile("open") /\ socket' = socket /\ socket = <<>>
    BY <1>6 DEF Boot, Offline
  <2>2. \A s \in served' : s[1] = Hook => s \in subs'
    BY <2>1, ReconcileKeepsHooks DEF HooksAreHeard
  <2> QED
    BY <2>1, <2>2, EmptySeq DEF HooksAreHeard
<1>7. CASE Watch
  <2>1. PICK fault : Resubscribe({<<Hook, sid>>}, {}, conn, fault)
    BY <1>7 DEF Watch
  <2>0. PICK lost, failed : Outcome({<<Hook, sid>>}, {}, conn, lost, failed)
    BY <2>1, ResubscribeOutcome, Zenon
  <2>2. /\ failed \subseteq lost
        /\ subs' = subs \cup ({<<Hook, sid>>} \ failed)
        /\ served' = served \cup ({<<Hook, sid>>} \ lost)
    BY <2>0 DEF Outcome
  <2>3. subs \subseteq subs' /\ \A s \in served' : s \in served \/ s \in subs'
    BY <2>2
  <2> QED
    BY <2>3, <1>2, <1>7 DEF Watch
<1>8. CASE PollHook
  <2>1. SyncAndReconcile(conn) /\ socket # <<>> /\ socket' = Tail(socket)
    BY <1>8 DEF PollHook, Polled
  <2>2. /\ \A s \in subs : s[1] = Hook => s \in subs'
        /\ \A s \in served' : s[1] = Hook => s \in subs'
    BY <2>1, ReconcileKeepsHooks DEF HooksAreHeard
  <2> QED
    BY <2>1, <2>2, PollShifts DEF HooksAreHeard
<1>9. CASE PollHookFails \/ PollEvent \/ PollPart \/ PollUnheard
  BY <1>3, <1>9 DEF PollHookFails, PollEvent, PollPart, PollUnheard, Polled
<1>10. CASE Closed \/ UNCHANGED vars
  BY <1>2, <1>10 DEF Closed, vars
<1>11. CASE Killed
  BY <1>11 DEF Killed, HooksAreHeard
<1> QED
  BY <1>4, <1>5, <1>6, <1>7, <1>8, <1>9, <1>10, <1>11 DEF Next, Poll

(* Every step keeps what frames are entitled to, and the code. *)
LEMMA CodeStaysKept ==
    ASSUME TypeOK, TypeOK', CodeInv, [Next]_vars
    PROVE  DuesAreCovered' /\ CodeIsKept'
<1> USE DEF repoVars, codeVars, clientVars, serverVars, subVars, historyVars
<1>1. ASSUME UNCHANGED <<clone, socket, announced>>, missed' = missed \/ missed' = TRUE
      PROVE  DuesAreCovered'
  BY <1>1 DEF CodeInv, DuesAreCovered, Covered, HookAt
<1>2. ASSUME UNCHANGED <<codeVars, repoVars, announced>>, missed' = missed \/ missed' = TRUE,
             step # "off"
      PROVE  CodeIsKept'
  BY <1>2 DEF CodeInv, CodeIsKept
<1>3. ASSUME NEW f \in Functions, Push(f) PROVE DuesAreCovered' /\ CodeIsKept'
  <2>1. clone \in 0..commits /\ trees'[clone] = trees[clone] /\ owed' # 0
    BY <1>3 DEF Push, TypeOK
  <2> QED
    BY <2>1, <1>1, <1>3 DEF Push, CodeInv, CodeIsKept
<1>4. ASSUME NEW f \in Functions, PublishEvent(f) PROVE DuesAreCovered' /\ CodeIsKept'
  <2>1. socket' = Append(socket, [for |-> Listeners(f), due |-> announced])
    BY <1>4 DEF PublishEvent
  <2>2. DuesAreCovered'
    <3>1. announced \in Nat /\ UNCHANGED <<clone, missed, announced>>
      BY <1>4 DEF PublishEvent, TypeOK
    <3> QED
      BY <2>1, <3>1, SendCovers
  <2> QED
    BY <2>2, <1>4 DEF PublishEvent, CodeInv, CodeIsKept
<1>5. CASE RuntimeHook
  <2>1. CASE Listeners(Hook) = {}
    BY <2>1, <1>5 DEF RuntimeHook, DuesAreCovered, CodeIsKept
  <2>2. CASE Listeners(Hook) # {}
    <3>1. socket' = Append(socket, [for |-> Listeners(Hook), due |-> commits])
      BY <2>2, <1>5 DEF RuntimeHook
    <3>2. announced' = commits /\ missed' = missed /\ \E s \in Listeners(Hook) : s[1] = Hook
      BY <2>2, <1>5 DEF RuntimeHook, Listeners
    <3>3. DuesAreCovered'
      <4>1. commits \in Nat /\ clone' = clone
        BY <1>5 DEF RuntimeHook, TypeOK
      <4> QED
        BY <3>1, <3>2, <4>1, SendCovers
    <3> QED
      BY <3>2, <3>3, <1>5 DEF RuntimeHook, CodeInv, CodeIsKept
  <2> QED
    BY <2>1, <2>2
<1>6. CASE Boot
  <2>1. PICK copying : Sync(copying)
    BY <1>6 DEF Boot, SyncAndReconcile
  <2> QED
    BY <2>1, <1>6, SyncCovers DEF Boot, TypeOK
<1>7. CASE Watch
  BY <1>1, <1>2, <1>7 DEF Watch
<1>8. CASE PollHook
  <2>1. PICK copying : Sync(copying)
    BY <1>8 DEF PollHook, SyncAndReconcile
  <2> QED
    BY <2>1, <1>8, SyncCovers DEF PollHook, TypeOK
<1>9. CASE PollHookFails
  BY <1>9 DEF PollHookFails, DuesAreCovered, CodeIsKept
<1>10. CASE PollEvent
  <2>1. socket # <<>> /\ ~HookAt(1)
    BY <1>10, PollShifts, HookAssumption
       DEF PollEvent, Polled, CodeInv, FramesAreSingle, HookAt
  <2> QED
    BY <2>1, <1>2, <1>10, PassOver DEF PollEvent, Polled
<1>11. CASE PollPart
  <2>1. CASE HookAt(1)
    <3>1. Polled({Hook})
      BY <2>1, <1>11, PollShifts DEF PollPart, Polled, HookAt, CodeInv, HooksAreHeard
    <3>2. missed' = TRUE
      BY <3>1, <1>11 DEF PollPart
    <3> QED
      BY <3>2 DEF DuesAreCovered, CodeIsKept
  <2>2. CASE ~HookAt(1)
    <3>1. ~Polled({Hook})
      BY <2>2, <1>11, PollShifts DEF PollPart, Polled, HookAt
    <3>2. missed' = missed
      BY <3>1, <1>11 DEF PollPart, TypeOK
    <3> QED
      BY <2>2, <3>2, <1>2, <1>11, PassOver DEF PollPart
  <2> QED
    BY <2>1, <2>2
<1>12. CASE PollUnheard
  <2>1. socket # <<>> /\ ~HookAt(1)
    BY <1>12, PollShifts DEF PollUnheard, HookAt, CodeInv, HooksAreHeard
  <2> QED
    BY <2>1, <1>2, <1>12, PassOver DEF PollUnheard
<1>13. CASE Closed
  BY <1>1, <1>13 DEF Closed, CodeInv, CodeIsKept
<1>14. CASE Killed
  <2>1. socket' = <<>> /\ announced' = 0 /\ clone' = 0 /\ step' = "off"
    BY <1>14 DEF Killed
  <2> QED
    BY <2>1, EmptySeq DEF DuesAreCovered, Covered, CodeIsKept
<1>15. CASE UNCHANGED vars
  BY <1>1, <1>15 DEF vars, CodeInv, CodeIsKept
<1> QED
  BY <1>3, <1>4, <1>5, <1>6, <1>7, <1>8, <1>9, <1>10, <1>11, <1>12, <1>13, <1>14, <1>15
     DEF Next, Poll

(* The inductive invariant holds in every state. *)
LEMMA CodeInvCorrect == Spec => []CodeInv
<1>1. Init => CodeInv
  BY EmptySeq DEF Init, CodeInv, FramesAreSingle, HooksAreHeard, DuesAreCovered, Covered,
                  CodeIsKept
<1>2. TypeOK /\ TypeOK' /\ Offline /\ CodeInv /\ [Next]_vars => CodeInv'
  BY FramesStaySingle, HooksStayHeard, CodeStaysKept DEF CodeInv
<1> QED
  BY <1>1, <1>2, TypeCorrect, OfflineCorrect, PTL DEF Spec

(* An event that the server sent after a hook runs the code that the hook      *)
(* announced, or newer code of the repository, whatever the runtime went       *)
(* through before.                                                             *)
THEOREM EventRunsAnnouncedCodeCorrect == Spec => []EventRunsAnnouncedCode
<1>1. TypeOK /\ ConsumersAgree /\ CodeInv => EventRunsAnnouncedCode
  <2> SUFFICES ASSUME TypeOK, ConsumersAgree, CodeInv, Polled(Functions), ~missed,
                      NEW s \in Head(socket).for \cap subs
               PROVE  /\ files[s[1]] # 0
                      /\ \E n \in Head(socket).due..commits : files[s[1]] = trees[n][s[1]]
    BY DEF EventRunsAnnouncedCode
  <2>1. socket # <<>> /\ step = "loop" /\ 1 \in 1..Len(socket) /\ Head(socket) = socket[1]
    BY PollShifts DEF Polled
  <2>2. s[1] \in Functions /\ s[1] # Hook /\ ~HookAt(1)
    BY <2>1, HookAssumption DEF Polled, CodeInv, FramesAreSingle, HookAt
  <2>3. files[s[1]] # 0
    <3>1. s \in {t \in subs : t[1] # Hook}
      BY <2>2
    <3>2. PICK f \in Functions : consumers[f] # 0 /\ s = <<f, consumers[f]>>
      BY <3>1 DEF ConsumersAgree
    <3> QED
      BY <3>2 DEF ConsumersAgree
  <2>4. socket[1].due <= clone
    BY <2>1, <2>2 DEF CodeInv, DuesAreCovered, Covered
  <2>5. files = trees[clone] /\ clone \in 0..commits
    BY <2>1 DEF CodeInv, CodeIsKept, TypeOK
  <2>6. socket[1].due \in 0..commits
    BY <2>1, PollKeepsFrames DEF Frames
  <2>7. clone \in Head(socket).due..commits
    BY <2>1, <2>4, <2>5, <2>6
  <2> QED
    BY <2>3, <2>5, <2>7
<1> QED
  BY <1>1, TypeCorrect, ConsumersAgreeCorrect, CodeInvCorrect, PTL

(* A runtime that has read everything sent to it, with no hook owed or missed, *)
(* has the code of the repository.                                             *)
THEOREM IdleIsCurrentCorrect == Spec => []IdleIsCurrent
<1>1. TypeOK /\ CodeInv => IdleIsCurrent
  <2> SUFFICES ASSUME TypeOK, CodeInv, step = "loop", socket = <<>>, owed = 0, ~missed
               PROVE  files = trees[commits]
    BY DEF IdleIsCurrent
  <2>1. announced <= clone /\ clone \in 0..commits
    BY EmptySeq DEF CodeInv, DuesAreCovered, Covered, TypeOK
  <2>2. files = trees[clone] /\ (clone = commits \/ announced = commits)
    BY DEF CodeInv, CodeIsKept
  <2> QED
    BY <2>1, <2>2 DEF TypeOK
<1> QED
  BY <1>1, TypeCorrect, CodeInvCorrect, PTL
==============================================================================
