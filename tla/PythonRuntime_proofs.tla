------------------------- MODULE PythonRuntime_proofs -------------------------
(***************************************************************************)
(* Proofs about PythonRuntime, for any functions, subjects, commits and    *)
(* faults: types, that refreshes which interleave leave the runtime exact, *)
(* and that one which runs alone keeps the consumers it should.            *)
(***************************************************************************)
EXTENDS PythonRuntime, TLAPS

USE BoundsAssumption, SubjectsAssumption

(* The repository starts empty; every hook is for a commit. *)
HooksAreOwed ==
    /\ trees[0] = NoCode
    /\ owed <= commits
    /\ \A s \in Subjects : sent[s] + owed <= commits

(* The watchers start when the boot has ended, which it does only once. *)
BootAlone ==
    /\ refresh["boot"].step # "dead"
    /\ ~Up => \A s \in Subjects : refresh[s].step = "off"

(* What a refresh changes: it has listed the files and not finished. *)
Changing(w) == refresh[w].step \in {"remove", "copy"}

(* Modules and consumers are those of the files, unless a refresh that has  *)
(* yet to look at them changed a file.                                      *)
CodeIsOwed ==
    \/ torn
    \/ \E w \in Refreshers : Changing(w)
    \/ /\ \A f \in Functions : modules[f] \in {0, files[f]}
       /\ \A f \in Functions : consumers[f] = 1 <=> files[f] # 0

(* Of refreshes that did not begin beside another there is one. *)
RunsAlone ==
    /\ ~overlap => \A v, w \in Refreshers : Refreshing(v) /\ Refreshing(w) => v = w
    /\ overlap => stray

(* The code of a function is that of the clone's commit, or it is left over. *)
Right(code, f) == code = Tree[f] \/ (stray /\ Tree[f] = 0)

(* What a refresh that runs alone has brought about at each of its steps. *)
DoneSoFar(w) ==
    /\ Refreshing(w) /\ refresh[w].step # "copy" => refresh[w].open = {}
    /\ refresh[w].step = "checkout" =>
          /\ refresh[w].target = head
          /\ \A f \in Functions \ refresh[w].names : Right(work[f], f)
    /\ Changing(w) => \A f \in Functions : Right(work[f], f)
    /\ refresh[w].step = "remove" =>
          \A f \in Functions \ refresh[w].names : Tree[f] = 0 => files[f] = 0
    /\ refresh[w].step = "copy" =>
          \A f \in Functions \ refresh[w].names :
             \/ Right(files[f], f)
             \/ \E code \in Codes : <<f, code>> \in refresh[w].open
    /\ refresh[w].step = "copy" =>
          \A f \in Functions, code \in Codes :
             <<f, code>> \in refresh[w].open =>
                /\ Right(code, f)
                /\ refresh[w].open = {<<f, code>>}

(* While refreshes run alone the files are put right, unless one failed. *)
FilesAreRight ==
    ~overlap =>
       /\ \A w \in Refreshers : DoneSoFar(w)
       /\ \/ torn \/ \E w \in Refreshers : Refreshing(w)
          \/ \A f \in Functions : Right(files[f], f)

IInv == TypeOK /\ HooksAreOwed /\ BootAlone /\ CodeIsOwed /\ RunsAlone /\ FilesAreRight

(* The types of a refresh; what one is after a step of it. *)
Opened == SUBSET (Functions \X Codes)
Refreshes == [step: Steps, target: 0..commits, names: SUBSET Functions, open: Opened]
Goes(w, step, target, names, open) ==
    /\ refresh' \in [Refreshers -> Refreshes']
    /\ \A v \in Refreshers \ {w} : refresh'[v] = refresh[v]
    /\ refresh'[w].step = step /\ refresh'[w].target = target
    /\ refresh'[w].names = names /\ refresh'[w].open = open

------------------------------------------------------------------------------
(* The record of a refresh is replaced... *)
LEMMA Replaced ==
    ASSUME TypeOK, UNCHANGED commits, NEW w \in Refreshers, NEW x \in Refreshes,
           refresh' = [refresh EXCEPT ![w] = x]
    PROVE  Goes(w, x.step, x.target, x.names, x.open)
<1>1. Refreshes' = Refreshes
  BY DEF Refreshes
<1>2. refresh \in [Refreshers -> Refreshes]
  BY DEF TypeOK, Refreshes, Opened
<1> QED
  BY <1>1, <1>2 DEF Goes

(* The commits up to now include the last one. *)
LEMMA LastCommit == TypeOK => commits \in Nat /\ 0 \in 0..commits /\ commits \in 0..commits
BY DEF TypeOK

(* ... by that of another step, with nothing else... *)
LEMMA AtGoes ==
    ASSUME TypeOK, UNCHANGED commits, NEW w \in Refreshers, NEW step \in Steps,
           refresh' = [refresh EXCEPT ![w] = At(step)]
    PROVE  Goes(w, step, 0, {}, {})
<1>1. /\ At(step) \in Refreshes
      /\ At(step).step = step /\ At(step).target = 0
      /\ At(step).names = {} /\ At(step).open = {}
  BY LastCommit DEF At, Refreshes, Opened
<1>2. Goes(w, At(step).step, At(step).target, At(step).names, At(step).open)
  <2> HIDE DEF At
  <2> QED BY <1>1, Replaced
<1> QED
  BY <1>1, <1>2

(* ... or by one with some of its fields changed. *)
LEMMA FieldsGo ==
    ASSUME TypeOK, UNCHANGED commits, NEW w \in Refreshers,
           NEW step \in Steps, NEW target \in 0..commits, NEW names \in SUBSET Functions,
           NEW open \in Opened,
           refresh' = [refresh EXCEPT ![w] = [step |-> step, target |-> target,
                                             names |-> names, open |-> open]]
    PROVE  Goes(w, step, target, names, open)
<1> DEFINE x == [step |-> step, target |-> target, names |-> names, open |-> open]
<1>1. /\ x \in Refreshes
      /\ x.step = step /\ x.target = target /\ x.names = names /\ x.open = open
  BY DEF Refreshes
<1>2. refresh' = [refresh EXCEPT ![w] = x]
  OBVIOUS
<1> HIDE DEF x
<1> QED
  BY <1>1, <1>2, Replaced

(* A refresh is its fields. *)
LEMMA Fields ==
    ASSUME TypeOK, NEW w \in Refreshers
    PROVE  LET r == refresh[w] IN
           /\ r = [step |-> r.step, target |-> r.target, names |-> r.names, open |-> r.open]
           /\ r.step \in Steps /\ r.target \in 0..commits
           /\ r.names \in SUBSET Functions /\ r.open \in Opened
<1>1. refresh[w] \in Refreshes
  BY DEF TypeOK, Refreshes, Opened
<1> QED
  BY <1>1 DEF Refreshes

(* A refresh that ends is at rest, and at the end of the boot all are. *)
LEMMA StartedGoes ==
    ASSUME TypeOK, BootAlone, NEW w \in Refreshers, Finish(w)
    PROVE  /\ refresh' \in [Refreshers -> Refreshes']
           /\ refresh'[w].step = "idle"
           /\ refresh'["boot"].step = refresh["boot"].step \/ w = "boot"
           /\ \A v \in Refreshers \ {w} :
                 \/ refresh'[v] = refresh[v]
                 \/ w = "boot" /\ refresh[v].step = "off" /\ refresh'[v].step = "idle"
           /\ w # "boot" => \A v \in Refreshers \ {w} : refresh'[v] = refresh[v]
<1>1. At("idle") \in Refreshes /\ At("idle").step = "idle" /\ UNCHANGED commits
  BY LastCommit DEF At, Refreshes, Opened, TypeOK, Steps, Resting, Finish, repoVars
<1>2. CASE w = "boot"
  <2>1. refresh' = [v \in Refreshers |-> At("idle")]
    BY <1>2 DEF Finish, Started
  <2>2. refresh' \in [Refreshers -> Refreshes']
    BY <1>1, <2>1 DEF Refreshes
  <2>3. \A v \in Refreshers \ {w} : refresh[v].step = "off"
    BY <1>2 DEF BootAlone, Up, Finish, Refreshers
  <2> QED BY <1>1, <1>2, <2>1, <2>2, <2>3
<1>3. CASE w # "boot"
  <2>1. Goes(w, "idle", 0, {}, {})
    BY <1>1, <1>3, AtGoes DEF Finish, Started, Steps, Resting
  <2> QED BY <1>3, <2>1 DEF Goes, Refreshers
<1> QED
  BY <1>2, <1>3

------------------------------------------------------------------------------
(* The initial state satisfies the invariant. *)
LEMMA InitInv == Init => IInv
<1> SUFFICES ASSUME Init PROVE IInv
  OBVIOUS
<1>1. NoCode \in [Functions -> Codes] /\ \A f \in Functions : NoCode[f] = 0
  BY DEF NoCode, Codes
<1>2. 0..0 = {0}
  OBVIOUS
<1>3. trees \in [0..commits -> [Functions -> Codes]] /\ trees[0] = NoCode /\ Tree = NoCode
  BY <1>1, <1>2 DEF Init, Tree
<1>4. /\ refresh \in [Refreshers -> Refreshes]
      /\ \A w \in Refreshers : refresh[w].step = "off"
  BY DEF Init, At, Steps, Resting, Refreshes, Opened
<1>5. consumers \in [Functions -> 0..1]
  BY DEF Init, NoCode
<1>6. head \in 0..commits /\ commits \in 0..MaxCommits /\ faults \in 0..MaxFaults
  BY <1>2 DEF Init
<1>7. /\ sent \in [Subjects -> 0..MaxCommits] /\ pos = sent
      /\ \A s \in Subjects : sent[s] = 0 /\ pos[s] <= sent[s]
  BY DEF Init
<1>8. TypeOK
  <2>1. /\ files \in [Functions -> Codes] /\ work \in [Functions -> Codes]
        /\ modules \in [Functions -> Codes] /\ owed \in 0..MaxCommits
    BY <1>1 DEF Init
  <2>2. stream \in BOOLEAN /\ torn \in BOOLEAN /\ overlap \in BOOLEAN /\ stray \in BOOLEAN
    BY DEF Init
  <2> QED BY <1>3, <1>4, <1>5, <1>6, <1>7, <2>1, <2>2 DEF TypeOK, Refreshes, Opened
<1>9. HooksAreOwed /\ BootAlone
  BY <1>3, <1>4 DEF Init, HooksAreOwed, BootAlone, Refreshers
<1>10. CodeIsOwed /\ RunsAlone
  BY <1>1, <1>4 DEF Init, CodeIsOwed, RunsAlone, Refreshing, Resting
<1>11. FilesAreRight
  BY <1>1, <1>3, <1>4
  DEF Init, FilesAreRight, DoneSoFar, Changing, Refreshing, Resting, Right
<1> QED
  BY <1>8, <1>9, <1>10, <1>11 DEF IInv

------------------------------------------------------------------------------
(* Where each step moves its refresh. *)
LEMMA RefreshMoves ==
    ASSUME TypeOK
    PROVE  /\ Boot => Goes("boot", "fetch", 0, {}, {})
           /\ \A s \in Subjects : HookReceived(s) => Goes(s, "fetch", 0, {}, {})
           /\ \A s \in Subjects : WatcherDies(s) => Goes(s, "dead", 0, {}, {})
           /\ \A w \in Refreshers :
                 /\ CopyMissing(w) => Goes(w, "idle", 0, {}, {})
                 /\ RefreshFails(w) => Goes(w, "idle", 0, {}, {})
<1> USE DEF repoVars, Refreshers
<1>1. {"fetch", "dead", "idle"} \subseteq Steps
  BY DEF Steps, Resting
<1>2. Boot => Goes("boot", "fetch", 0, {}, {})
  BY <1>1, AtGoes DEF Boot, Begin
<1>3. ASSUME NEW s \in Subjects, HookReceived(s) PROVE Goes(s, "fetch", 0, {}, {})
  BY <1>1, <1>3, AtGoes DEF HookReceived, Begin
<1>4. ASSUME NEW s \in Subjects, WatcherDies(s) PROVE Goes(s, "dead", 0, {}, {})
  BY <1>1, <1>4, AtGoes DEF WatcherDies
<1>5. ASSUME NEW w \in Refreshers, CopyMissing(w) \/ RefreshFails(w)
      PROVE  Goes(w, "idle", 0, {}, {})
  BY <1>1, <1>5, AtGoes DEF CopyMissing, RefreshFails
<1> QED
  BY <1>2, <1>3, <1>4, <1>5

(* Where the steps between the beginning and the end of a refresh move it. *)
Steady(w) ==
    /\ Fetch(w) => Goes(w, "head", commits, refresh[w].names, refresh[w].open)
    /\ SetHead(w) => Goes(w, "read", refresh[w].target, refresh[w].names, refresh[w].open)
    /\ ReadHead(w) =>
          Goes(w, "checkout", head, {f \in Functions : work[f] # Tree[f]}, refresh[w].open)
    /\ ListOld(w) => Goes(w, "remove", refresh[w].target, HasCode(files), refresh[w].open)
    /\ ListNew(w) => Goes(w, "copy", refresh[w].target, HasCode(work), refresh[w].open)
    /\ \A f \in Functions :
          /\ CheckoutFile(w, f) =>
                Goes(w, "checkout", refresh[w].target, refresh[w].names \ {f}, refresh[w].open)
          /\ RemoveFile(w, f) =>
                Goes(w, "remove", refresh[w].target, refresh[w].names \ {f}, refresh[w].open)
          /\ OpenFile(w, f) =>
                Goes(w, "copy", refresh[w].target, refresh[w].names \ {f}, {<<f, work[f]>>})
          /\ WriteFile(w, f) => Goes(w, "copy", refresh[w].target, refresh[w].names, {})
LEMMA SteadyMoves ==
    ASSUME TypeOK, NEW w \in Refreshers
    PROVE  Steady(w)
<1> DEFINE r == refresh[w]
<1> USE DEF repoVars
<1>0. r \in Refreshes
  BY DEF TypeOK, Refreshes, Opened
<1>1. /\ r = [step |-> r.step, target |-> r.target, names |-> r.names, open |-> r.open]
      /\ r.step \in Steps /\ r.target \in 0..commits
      /\ r.names \in SUBSET Functions /\ r.open \in Opened
  BY Fields
<1>2. {"head", "read", "checkout", "remove", "copy"} \subseteq Steps /\ {} \in Opened
  BY DEF Steps, Opened
<1>3. commits \in 0..commits /\ head \in 0..commits
  BY LastCommit DEF TypeOK
<1>4. Fetch(w) => Goes(w, "head", commits, r.names, r.open)
  <2>1. Fetch(w) => refresh' = [refresh EXCEPT ![w] =
            [step |-> "head", target |-> commits, names |-> r.names, open |-> r.open]]
    BY <1>1 DEF Fetch
  <2> QED BY <1>1, <1>2, <1>3, <2>1, FieldsGo DEF Fetch
<1>5. SetHead(w) => Goes(w, "read", r.target, r.names, r.open)
  <2>1. SetHead(w) => refresh' = [refresh EXCEPT ![w] =
            [step |-> "read", target |-> r.target, names |-> r.names, open |-> r.open]]
    BY <1>1 DEF SetHead
  <2> QED BY <1>1, <1>2, <2>1, FieldsGo DEF SetHead
<1>6. ReadHead(w) => Goes(w, "checkout", head, {f \in Functions : work[f] # Tree[f]}, r.open)
  <2>1. ReadHead(w) => refresh' = [refresh EXCEPT ![w] =
            [step |-> "checkout", target |-> head,
             names |-> {f \in Functions : work[f] # Tree[f]}, open |-> r.open]]
    BY <1>1 DEF ReadHead
  <2> QED BY <1>1, <1>2, <1>3, <2>1, FieldsGo DEF ReadHead
<1>7. ListOld(w) => Goes(w, "remove", r.target, HasCode(files), r.open)
  <2>1. ListOld(w) => refresh' = [refresh EXCEPT ![w] =
            [step |-> "remove", target |-> r.target, names |-> HasCode(files), open |-> r.open]]
    BY <1>1 DEF ListOld
  <2> QED BY <1>1, <1>2, <2>1, FieldsGo DEF ListOld, HasCode
<1>8. ListNew(w) => Goes(w, "copy", r.target, HasCode(work), r.open)
  <2>1. ListNew(w) => refresh' = [refresh EXCEPT ![w] =
            [step |-> "copy", target |-> r.target, names |-> HasCode(work), open |-> r.open]]
    BY <1>1 DEF ListNew
  <2> QED BY <1>1, <1>2, <2>1, FieldsGo DEF ListNew, HasCode
<1>9. ASSUME NEW f \in Functions, NEW step \in Steps, r.step = step, UNCHANGED commits,
             refresh' = [refresh EXCEPT ![w].names = @ \ {f}]
      PROVE  Goes(w, step, r.target, r.names \ {f}, r.open)
  <2>1. refresh' = [refresh EXCEPT ![w] =
            [step |-> step, target |-> r.target, names |-> r.names \ {f}, open |-> r.open]]
    <3>1. [r EXCEPT !.names = r.names \ {f}]
            = [step |-> step, target |-> r.target, names |-> r.names \ {f}, open |-> r.open]
      BY <1>0, <1>9 DEF Refreshes
    <3> QED BY <1>9, <3>1
  <2> QED BY <1>1, <2>1, <1>9, FieldsGo
<1>10. ASSUME NEW f \in Functions, CheckoutFile(w, f)
       PROVE  Goes(w, "checkout", r.target, r.names \ {f}, r.open)
  BY <1>2, <1>9, <1>10 DEF CheckoutFile
<1>11. ASSUME NEW f \in Functions, RemoveFile(w, f)
       PROVE  Goes(w, "remove", r.target, r.names \ {f}, r.open)
  BY <1>2, <1>9, <1>11 DEF RemoveFile
<1>12. ASSUME NEW f \in Functions, OpenFile(w, f)
       PROVE  Goes(w, "copy", r.target, r.names \ {f}, {<<f, work[f]>>})
  <2> DEFINE x == [r EXCEPT !.names = r.names \ {f}, !.open = {<<f, work[f]>>}]
  <2>1. refresh' = [refresh EXCEPT ![w] = x] /\ UNCHANGED commits /\ r.step = "copy"
    BY <1>12 DEF OpenFile
  <2>2. {<<f, work[f]>>} \in Opened
    BY DEF Opened, TypeOK
  <2>3. /\ x \in Refreshes /\ x.step = "copy" /\ x.target = r.target
        /\ x.names = r.names \ {f} /\ x.open = {<<f, work[f]>>}
    BY <1>0, <2>1, <2>2 DEF Refreshes
  <2> HIDE DEF x
  <2> QED BY <2>1, <2>3, Replaced
<1>13. ASSUME NEW f \in Functions, WriteFile(w, f)
       PROVE  Goes(w, "copy", r.target, r.names, {})
  <2>1. refresh' = [refresh EXCEPT ![w] =
            [step |-> "copy", target |-> r.target, names |-> r.names, open |-> {}]]
    <3>1. [r EXCEPT !.open = {}]
            = [step |-> "copy", target |-> r.target, names |-> r.names, open |-> {}]
      BY <1>0, <1>13 DEF Refreshes, WriteFile
    <3> QED BY <1>13, <3>1 DEF WriteFile
  <2> QED BY <1>1, <1>2, <1>13, <2>1, FieldsGo DEF WriteFile
<1> QED
  BY <1>4, <1>5, <1>6, <1>7, <1>8, <1>10, <1>11, <1>12, <1>13 DEF Steady

(* The parts of TypeOK. *)
RepoTypes ==
    /\ commits \in 0..MaxCommits /\ owed \in 0..MaxCommits
    /\ trees \in [0..commits -> [Functions -> Codes]]
HookTypes ==
    /\ stream \in BOOLEAN
    /\ sent \in [Subjects -> 0..MaxCommits] /\ pos \in [Subjects -> 0..MaxCommits]
    /\ \A s \in Subjects : pos[s] <= sent[s]
RefreshTypes ==
    refresh \in [Refreshers -> Refreshes] /\ head \in 0..commits
CodeTypes ==
    /\ files \in [Functions -> Codes] /\ work \in [Functions -> Codes]
    /\ modules \in [Functions -> Codes]
    /\ consumers \in [Functions -> 0..1]
FlagTypes ==
    torn \in BOOLEAN /\ overlap \in BOOLEAN /\ stray \in BOOLEAN /\ faults \in 0..MaxFaults

(* They are all of it. *)
LEMMA TypesAreParts == TypeOK <=> RepoTypes /\ HookTypes /\ RefreshTypes /\ CodeTypes /\ FlagTypes
BY DEF TypeOK, RepoTypes, HookTypes, RefreshTypes, CodeTypes, FlagTypes, Refreshes, Opened

(* The parts that a step does not touch stay. *)
LEMMA PartsStay ==
    ASSUME TypeOK
    PROVE  /\ UNCHANGED repoVars => RepoTypes'
           /\ UNCHANGED hookVars => HookTypes'
           /\ UNCHANGED <<files, work, codeVars>> => CodeTypes'
           /\ UNCHANGED <<pastVars, faults>> => FlagTypes'
<1> USE TypesAreParts
<1>1. UNCHANGED repoVars => RepoTypes'
  BY DEF RepoTypes, repoVars
<1>2. UNCHANGED hookVars => HookTypes'
  BY DEF HookTypes, hookVars
<1>3. UNCHANGED <<files, work, codeVars>> => CodeTypes'
  BY DEF CodeTypes, codeVars
<1>4. UNCHANGED <<pastVars, faults>> => FlagTypes'
  BY DEF FlagTypes, pastVars
<1> QED
  BY <1>1, <1>2, <1>3, <1>4

(* The code of the clone, and the codes there may be. *)
LEMMA TreeType ==
    ASSUME TypeOK
    PROVE  Tree \in [Functions -> Codes] /\ 0 \in Codes /\ NoCode \in [Functions -> Codes]
BY DEF TypeOK, Tree, Codes, NoCode

(* A commit changes the code of a function, and only that of the last one. *)
LEMMA PushFacts ==
    ASSUME TypeOK, HooksAreOwed, NEW f \in Functions, Push(f)
    PROVE  /\ RepoTypes' /\ commits' = commits + 1 /\ owed' = owed + 1
           /\ \A n \in 0..commits : trees'[n] = trees[n]
<1>1. commits \in Nat /\ commits < MaxCommits /\ commits' = commits + 1 /\ owed' = owed + 1
  BY DEF Push, TypeOK
<1>2. commits' \in 0..MaxCommits /\ owed' \in 0..MaxCommits
  BY <1>1 DEF HooksAreOwed, TypeOK
<1>3. PICK code \in {commits + 1} \cup (IF trees[commits][f] = 0 THEN {} ELSE {0}) :
         trees' = [n \in 0..commits + 1 |->
                       IF n <= commits THEN trees[n]
                       ELSE [trees[commits] EXCEPT ![f] = code]]
  BY DEF Push
<1>4. code \in Codes
  BY <1>1, <1>3 DEF Codes
<1>5. \A n \in 0..commits : trees[n] \in [Functions -> Codes]
  BY DEF TypeOK
<1>6. [trees[commits] EXCEPT ![f] = code] \in [Functions -> Codes]
  BY <1>1, <1>4, <1>5
<1>7. ASSUME NEW n \in 0..commits + 1
      PROVE  (IF n <= commits THEN trees[n] ELSE [trees[commits] EXCEPT ![f] = code])
                \in [Functions -> Codes]
  BY <1>1, <1>5, <1>6
<1>8. trees' \in [0..commits + 1 -> [Functions -> Codes]]
  BY <1>3, <1>7
<1>9. \A n \in 0..commits : trees'[n] = trees[n]
  BY <1>1, <1>3
<1> QED
  BY <1>1, <1>2, <1>8, <1>9 DEF RepoTypes

(* Every step keeps the types. *)
LEMMA NextTypeOK ==
    ASSUME TypeOK, HooksAreOwed, BootAlone, [Next]_vars
    PROVE  TypeOK'
<1> USE DEF repoVars, hookVars, codeVars, cloneVars, pastVars
<1>1. RepoTypes /\ HookTypes /\ RefreshTypes /\ CodeTypes /\ FlagTypes
  BY TypesAreParts
<1>2. ASSUME RepoTypes', HookTypes', RefreshTypes', CodeTypes', FlagTypes' PROVE TypeOK'
  BY <1>2 DEF TypeOK, RepoTypes, HookTypes, RefreshTypes, CodeTypes, FlagTypes, Refreshes, Opened
<1>3. ASSUME NEW f \in Functions, Push(f) PROVE TypeOK'
  <2>1. RepoTypes' /\ commits' = commits + 1
    BY <1>3, PushFacts
  <2>2. Refreshes \subseteq Refreshes' /\ 0..commits \subseteq 0..commits'
    BY <1>1, <2>1 DEF Refreshes, RepoTypes
  <2>3. RefreshTypes'
    BY <1>1, <1>3, <2>2 DEF Push, RefreshTypes
  <2> QED BY <1>2, <1>3, <2>1, <2>3, PartsStay DEF Push
<1>4. ASSUME NEW f \in Functions, Load(f) PROVE TypeOK'
  <2>1. CodeTypes'
    BY <1>1, <1>4 DEF Load, CodeTypes
  <2>2. RefreshTypes'
    BY <1>1, <1>4 DEF Load, RefreshTypes, Refreshes
  <2> QED BY <1>2, <1>4, <2>1, <2>2, PartsStay DEF Load
<1>5. ASSUME NEW s \in Subjects, RuntimeHook(s) PROVE TypeOK'
  <2>1. owed > 0 /\ owed' = owed - 1 /\ UNCHANGED <<trees, commits, stream, pos>>
    BY <1>5 DEF RuntimeHook
  <2>2. RepoTypes'
    BY <1>1, <2>1 DEF RepoTypes
  <2>3. sent[s] + 1 \in 0..MaxCommits
    BY <1>1, <2>1 DEF RepoTypes, HookTypes, HooksAreOwed
  <2>4. HookTypes'
    <3>1. CASE sent' = sent
      BY <1>1, <2>1, <3>1 DEF HookTypes
    <3>2. CASE sent' = [sent EXCEPT ![s] = @ + 1]
      BY <1>1, <2>1, <2>3, <3>2 DEF HookTypes
    <3> QED BY <1>5, <3>1, <3>2 DEF RuntimeHook
  <2>5. RefreshTypes'
    BY <1>1, <1>5, <2>1 DEF RuntimeHook, RefreshTypes, Refreshes
  <2> QED BY <1>2, <1>5, <2>2, <2>4, <2>5, PartsStay DEF RuntimeHook
<1>6. ASSUME NEW w \in Refreshers, Begin(w), UNCHANGED <<repoVars, cloneVars, files, torn, codeVars, faults>>,
             HookTypes', Goes(w, "fetch", 0, {}, {})
      PROVE  TypeOK'
  <2>1. overlap' \in BOOLEAN /\ stray' \in BOOLEAN
    BY <1>1, <1>6 DEF Begin, FlagTypes
  <2>2. FlagTypes' /\ RefreshTypes'
    BY <1>1, <1>6, <2>1 DEF Goes, FlagTypes, RefreshTypes
  <2> QED BY <1>2, <1>6, <2>2, PartsStay
<1>7. CASE Boot
  <2>1. HookTypes'
    BY <1>1, <1>7 DEF Boot, HookTypes
  <2> QED BY <1>6, <1>7, <2>1, RefreshMoves DEF Boot, Refreshers
<1>8. ASSUME NEW s \in Subjects, HookReceived(s) PROVE TypeOK'
  <2>1. pos[s] + 1 \in 0..MaxCommits /\ pos[s] + 1 <= sent[s]
    BY <1>1, <1>8 DEF HookReceived, HookTypes
  <2>2. HookTypes'
    BY <1>1, <1>8, <2>1 DEF HookReceived, HookTypes
  <2> QED BY <1>6, <1>8, <2>2, RefreshMoves DEF HookReceived, Refreshers
<1>9. ASSUME refresh' \in [Refreshers -> Refreshes'], head' \in 0..commits,
             UNCHANGED <<repoVars, hookVars>>, CodeTypes', FlagTypes'
      PROVE  TypeOK'
  <2>1. RefreshTypes'
    BY <1>9 DEF RefreshTypes
  <2> QED BY <1>2, <1>9, <2>1, PartsStay
<1>10. head \in 0..commits /\ faults \in Nat
  BY <1>1 DEF RefreshTypes, FlagTypes
<1>11. ASSUME NEW s \in Subjects, WatcherDies(s) PROVE TypeOK'
  <2>1. refresh' \in [Refreshers -> Refreshes']
    BY <1>11, RefreshMoves DEF Goes
  <2>2. FlagTypes'
    BY <1>1, <1>11 DEF WatcherDies, FlagTypes
  <2> QED BY <1>9, <1>10, <1>11, <2>1, <2>2, PartsStay DEF WatcherDies
<1>12. ASSUME NEW w \in Refreshers, RefreshStep(w) \/ RefreshFails(w) PROVE TypeOK'
  <2>1. CASE Fetch(w) \/ ReadHead(w) \/ ListNew(w) \/ \E f \in Functions : OpenFile(w, f)
    <3>1. refresh' \in [Refreshers -> Refreshes']
      BY <2>1, SteadyMoves DEF Goes, Steady
    <3>2. UNCHANGED <<repoVars, hookVars, cloneVars, files, pastVars, codeVars, faults>>
      BY <2>1 DEF Fetch, ReadHead, ListNew, OpenFile
    <3> QED BY <1>9, <1>10, <3>1, <3>2, PartsStay
  <2>2. CASE SetHead(w)
    <3>1. refresh' \in [Refreshers -> Refreshes']
      BY <2>2, SteadyMoves DEF Goes, Steady
    <3>2. head' \in 0..commits
      BY <1>1, <2>2 DEF SetHead, RefreshTypes, Refreshes
    <3> QED BY <1>9, <2>2, <3>1, <3>2, PartsStay DEF SetHead
  <2>3. CASE ListOld(w)
    <3>1. refresh' \in [Refreshers -> Refreshes']
      BY <2>3, SteadyMoves DEF Goes, Steady
    <3>2. FlagTypes'
      BY <1>1, <2>3 DEF ListOld, FlagTypes
    <3> QED BY <1>9, <1>10, <2>3, <3>1, <3>2, PartsStay DEF ListOld
  <2>4. ASSUME NEW f \in Functions, CheckoutFile(w, f) PROVE TypeOK'
    <3>1. refresh' \in [Refreshers -> Refreshes']
      BY <2>4, SteadyMoves DEF Goes, Steady
    <3>2. trees[refresh[w].target][f] \in Codes
      <4>1. refresh[w].target \in 0..commits
        BY <1>1 DEF RefreshTypes, Refreshes
      <4> QED BY <1>1, <4>1 DEF RepoTypes
    <3>3. CodeTypes'
      BY <1>1, <2>4, <3>2 DEF CheckoutFile, CodeTypes
    <3> QED BY <1>9, <1>10, <2>4, <3>1, <3>3, PartsStay DEF CheckoutFile
  <2>5. CASE CopyMissing(w)
    <3>1. refresh' \in [Refreshers -> Refreshes']
      BY <2>5, RefreshMoves DEF Goes
    <3>2. FlagTypes'
      BY <1>1, <2>5 DEF CopyMissing, FlagTypes
    <3> QED BY <1>9, <1>10, <2>5, <3>1, <3>2, PartsStay DEF CopyMissing
  <2>6. CASE RefreshFails(w)
    <3>1. refresh' \in [Refreshers -> Refreshes']
      BY <2>6, RefreshMoves DEF Goes
    <3>2. torn' = TRUE /\ stray' \in BOOLEAN /\ UNCHANGED overlap
      BY <1>1, <2>6 DEF RefreshFails, FlagTypes
    <3>3. faults' \in 0..MaxFaults
      BY <1>1, <2>6 DEF RefreshFails, FlagTypes
    <3>4. FlagTypes'
      BY <1>1, <3>2, <3>3 DEF FlagTypes
    <3> QED BY <1>9, <1>10, <2>6, <3>1, <3>4, PartsStay DEF RefreshFails
  <2>7. CASE Finish(w)
    <3>1. Reconciled \in [Functions -> 0..1]
      BY DEF Reconciled
    <3>2. CodeTypes'
      BY <1>1, <2>7, <3>1, TreeType DEF Finish, CodeTypes
    <3> QED BY <1>9, <1>10, <2>7, <3>2, StartedGoes, PartsStay DEF Finish
  <2>8. ASSUME NEW f \in Functions, RemoveFile(w, f) \/ WriteFile(w, f) PROVE TypeOK'
    <3>1. refresh' \in [Refreshers -> Refreshes']
      BY <2>8, SteadyMoves DEF Goes, Steady
    <3>2. CodeTypes'
      BY <1>1, <2>8, TreeType DEF RemoveFile, WriteFile, CodeTypes
    <3> QED BY <1>9, <1>10, <2>8, <3>1, <3>2, PartsStay DEF RemoveFile, WriteFile
  <2> QED BY <1>12, <2>1, <2>2, <2>3, <2>4, <2>5, <2>6, <2>7, <2>8 DEF RefreshStep
<1>13. CASE Killed
  <2>1. At("off") \in Refreshes /\ 0 \in 0..commits /\ UNCHANGED repoVars
    BY <1>13, LastCommit DEF At, Refreshes, Opened, Steps, Resting, Killed
  <2>2. RefreshTypes'
    BY <1>13, <2>1 DEF Killed, RefreshTypes, Refreshes
  <2>3. HookTypes'
    BY <1>1, <1>13 DEF Killed, HookTypes
  <2>4. NoCode \in [Functions -> 0..1]
    BY DEF NoCode
  <2>5. CodeTypes'
    BY <1>13, <2>4, TreeType DEF Killed, CodeTypes
  <2>6. FlagTypes'
    <3>1. torn' = FALSE /\ overlap' = FALSE /\ stray' = FALSE /\ faults' = faults - 1 /\ faults > 0
      BY <1>13 DEF Killed
    <3>2. torn' \in BOOLEAN /\ overlap' \in BOOLEAN /\ stray' \in BOOLEAN
      BY <3>1
    <3>3. faults' \in 0..MaxFaults
      BY <1>1, <3>1 DEF FlagTypes
    <3> QED BY <3>2, <3>3 DEF FlagTypes
  <2> QED BY <1>2, <2>1, <2>2, <2>3, <2>5, <2>6, PartsStay
<1>14. CASE UNCHANGED vars
  <2>1. RefreshTypes'
    BY <1>1, <1>14 DEF vars, RefreshTypes, Refreshes
  <2> QED BY <1>2, <1>14, <2>1, PartsStay DEF vars
<1> QED
  BY <1>3, <1>4, <1>5, <1>7, <1>8, <1>11, <1>12, <1>13, <1>14 DEF Next

------------------------------------------------------------------------------
(* Hooks that were sent or are owed are for commits. *)
LEMMA NextHooks ==
    ASSUME TypeOK, HooksAreOwed, [Next]_vars
    PROVE  HooksAreOwed'
<1> USE DEF repoVars, hookVars
<1>1. commits \in Nat /\ owed \in Nat /\ sent \in [Subjects -> Nat]
  BY DEF TypeOK
<1>2. ASSUME NEW f \in Functions, Push(f) PROVE HooksAreOwed'
  <2>1. commits' = commits + 1 /\ owed' = owed + 1 /\ trees'[0] = trees[0] /\ UNCHANGED sent
    BY <1>1, <1>2, PushFacts DEF Push
  <2> QED BY <1>1, <2>1 DEF HooksAreOwed, NoCode
<1>3. ASSUME NEW s \in Subjects, RuntimeHook(s) PROVE HooksAreOwed'
  <2>1. owed' = owed - 1 /\ UNCHANGED <<trees, commits>>
    BY <1>3 DEF RuntimeHook
  <2>2. CASE sent' = sent
    BY <1>1, <2>1, <2>2 DEF HooksAreOwed, NoCode
  <2>3. CASE sent' = [sent EXCEPT ![s] = @ + 1]
    BY <1>1, <2>1, <2>3 DEF HooksAreOwed, NoCode
  <2> QED BY <1>3, <2>2, <2>3 DEF RuntimeHook
<1>4. ASSUME UNCHANGED <<repoVars, sent>> PROVE HooksAreOwed'
  BY <1>4 DEF HooksAreOwed, NoCode
<1>5. ASSUME NEW w \in Refreshers, RefreshStep(w) \/ RefreshFails(w) PROVE UNCHANGED <<repoVars, sent>>
  BY <1>5 DEF RefreshStep, RefreshFails, Fetch, SetHead, ReadHead, CheckoutFile, ListOld, ListNew, CopyMissing,
              Finish, RemoveFile, OpenFile, WriteFile
<1>6. ASSUME \/ Boot \/ Killed \/ UNCHANGED vars \/ \E f \in Functions : Load(f)
             \/ \E s \in Subjects : HookReceived(s) \/ WatcherDies(s)
      PROVE  UNCHANGED <<repoVars, sent>>
  BY <1>6 DEF Boot, Killed, vars, Load, HookReceived, WatcherDies
<1> QED
  BY <1>2, <1>3, <1>4, <1>5, <1>6 DEF Next

(* The watchers are off while the boot refreshes. *)
LEMMA NextBoot ==
    ASSUME TypeOK, BootAlone, [Next]_vars
    PROVE  BootAlone'
<1>1. /\ "boot" \in Refreshers /\ Subjects \subseteq Refreshers
      /\ \A s \in Subjects : s # "boot"
      /\ \A w \in Refreshers : w = "boot" \/ w \in Subjects
  BY DEF Refreshers
<1>2. ASSUME NEW w \in Refreshers, NEW step, NEW target, NEW names, NEW open, Goes(w, step, target, names, open),
             refresh[w].step # "off" \/ w = "boot", w = "boot" => refresh[w].step # "idle",
             step # "off", w = "boot" => step \notin {"dead", "idle"}
      PROVE  BootAlone'
  <2>1. CASE w = "boot"
    <3>1. refresh'["boot"].step # "dead" /\ \A s \in Subjects : refresh[s].step = "off"
      BY <1>2, <2>1 DEF Goes, BootAlone, Up
    <3>2. \A s \in Subjects : refresh'[s] = refresh[s]
      BY <1>1, <1>2, <2>1 DEF Goes
    <3> QED BY <3>1, <3>2 DEF BootAlone
  <2>2. CASE w # "boot"
    <3>1. Up /\ refresh'["boot"] = refresh["boot"]
      BY <1>1, <1>2, <2>2 DEF BootAlone, Goes
    <3> QED BY <3>1 DEF BootAlone, Up
  <2> QED BY <2>1, <2>2
<1>3. CASE Boot
  <2>1. Goes("boot", "fetch", 0, {}, {}) /\ refresh["boot"].step = "off"
    BY <1>3, RefreshMoves DEF Boot
  <2> QED BY <1>1, <1>2, <2>1
<1>4. ASSUME NEW s \in Subjects, HookReceived(s) \/ WatcherDies(s) PROVE BootAlone'
  <2>1. \/ Goes(s, "fetch", 0, {}, {})
        \/ Goes(s, "dead", 0, {}, {})
    BY <1>4, RefreshMoves
  <2>2. refresh[s].step = "idle"
    BY <1>4 DEF HookReceived, WatcherDies
  <2> QED BY <1>1, <1>2, <2>1, <2>2
<1>5. ASSUME NEW w \in Refreshers, Finish(w) PROVE BootAlone'
  <2>1. CASE w = "boot"
    BY <1>5, <2>1, StartedGoes DEF BootAlone, Up
  <2>2. CASE w # "boot"
    <3>1. Up /\ refresh[w].step = "copy"
      BY <1>1, <1>5, <2>2 DEF BootAlone, Finish
    <3>2. refresh'["boot"].step = refresh["boot"].step
      BY <1>5, <2>2, StartedGoes
    <3> QED BY <3>1, <3>2 DEF BootAlone, Up
  <2> QED BY <2>1, <2>2
<1>6. ASSUME NEW w \in Refreshers, CopyMissing(w) \/ RefreshFails(w) PROVE BootAlone'
  <2>1. Goes(w, "idle", 0, {}, {})
    BY <1>6, RefreshMoves
  <2>2. w # "boot" /\ refresh[w].step # "off"
    BY <1>6 DEF CopyMissing, RefreshFails, Refreshing, Resting
  <2> QED BY <1>2, <2>1, <2>2
<1>7. ASSUME NEW w \in Refreshers, Fetch(w) \/ SetHead(w) \/ ReadHead(w) \/ ListOld(w) \/ ListNew(w)
      PROVE  BootAlone'
  <2>1. \/ Goes(w, "head", commits, refresh[w].names, refresh[w].open)
        \/ Goes(w, "read", refresh[w].target, refresh[w].names, refresh[w].open)
        \/ Goes(w, "checkout", head, {f \in Functions : work[f] # Tree[f]}, refresh[w].open)
        \/ Goes(w, "remove", refresh[w].target, HasCode(files), refresh[w].open)
        \/ Goes(w, "copy", refresh[w].target, HasCode(work), refresh[w].open)
    BY <1>7, SteadyMoves DEF Steady
  <2>2. refresh[w].step \in {"fetch", "head", "read", "checkout", "remove"}
    BY <1>7 DEF Fetch, SetHead, ReadHead, ListOld, ListNew
  <2> QED BY <1>2, <2>1, <2>2
<1>8. ASSUME NEW w \in Refreshers, NEW f \in Functions,
             CheckoutFile(w, f) \/ RemoveFile(w, f) \/ OpenFile(w, f) \/ WriteFile(w, f)
      PROVE  BootAlone'
  <2>1. \/ Goes(w, "checkout", refresh[w].target, refresh[w].names \ {f}, refresh[w].open)
        \/ Goes(w, "remove", refresh[w].target, refresh[w].names \ {f}, refresh[w].open)
        \/ Goes(w, "copy", refresh[w].target, refresh[w].names \ {f}, {<<f, work[f]>>})
        \/ Goes(w, "copy", refresh[w].target, refresh[w].names, {})
    BY <1>8, SteadyMoves DEF Steady
  <2>2. refresh[w].step \in {"checkout", "remove", "copy"}
    BY <1>8 DEF CheckoutFile, RemoveFile, OpenFile, WriteFile
  <2> QED BY <1>2, <2>1, <2>2
<1>9. CASE Killed
  BY <1>1, <1>9 DEF Killed, BootAlone, At
<1>10. CASE UNCHANGED refresh
  BY <1>10 DEF BootAlone, Up
<1>11. ASSUME UNCHANGED vars \/ (\E f \in Functions : Push(f) \/ Load(f)) \/ \E s \in Subjects : RuntimeHook(s)
       PROVE  UNCHANGED refresh
  BY <1>11 DEF vars, Push, Load, RuntimeHook
<1> QED
  BY <1>3, <1>4, <1>5, <1>6, <1>7, <1>8, <1>9, <1>10, <1>11 DEF Next, RefreshStep

------------------------------------------------------------------------------
(* Modules and consumers stay those of the files while no file changes. *)
LEMMA CodeStays ==
    ASSUME CodeIsOwed, torn => torn', UNCHANGED <<files, codeVars>>,
           \A w \in Refreshers : Changing(w) => Changing(w)'
    PROVE  CodeIsOwed'
BY DEF CodeIsOwed, codeVars

(* Every step keeps them owed. *)
LEMMA NextCode ==
    ASSUME TypeOK, HooksAreOwed, BootAlone, CodeIsOwed, [Next]_vars
    PROVE  CodeIsOwed'
<1>1. ASSUME NEW w \in Refreshers, NEW step, NEW target, NEW names, NEW open, Goes(w, step, target, names, open),
             refresh[w].step \notin {"remove", "copy"} \/ step \in {"remove", "copy"},
             UNCHANGED <<files, codeVars, torn>>
      PROVE  CodeIsOwed'
  <2>1. \A v \in Refreshers : Changing(v) => Changing(v)'
    BY <1>1 DEF Goes, Changing
  <2> QED BY <1>1, <2>1, CodeStays
<1>2. CASE Boot
  <2>1. Goes("boot", "fetch", 0, {}, {}) /\ refresh["boot"].step = "off" /\ "boot" \in Refreshers
    BY <1>2, RefreshMoves DEF Boot, Refreshers
  <2> QED BY <1>1, <1>2, <2>1 DEF Boot
<1>3. ASSUME NEW s \in Subjects, HookReceived(s) \/ WatcherDies(s) PROVE CodeIsOwed'
  <2>1. s \in Refreshers /\ refresh[s].step = "idle" /\ UNCHANGED <<files, codeVars, torn>>
    BY <1>3 DEF HookReceived, WatcherDies, Refreshers, pastVars
  <2>2. Goes(s, "fetch", 0, {}, {}) \/ Goes(s, "dead", 0, {}, {})
    BY <1>3, RefreshMoves
  <2> QED BY <1>1, <2>1, <2>2
<1>4. ASSUME NEW w \in Refreshers,
             Fetch(w) \/ SetHead(w) \/ ReadHead(w) \/ \E f \in Functions : CheckoutFile(w, f)
      PROVE  CodeIsOwed'
  <2>1. /\ refresh[w].step \in {"fetch", "head", "read", "checkout"}
        /\ UNCHANGED <<files, codeVars, torn>>
    BY <1>4 DEF Fetch, SetHead, ReadHead, CheckoutFile, pastVars
  <2>2. \E step, target, names, open : Goes(w, step, target, names, open)
    BY <1>4, SteadyMoves DEF Steady
  <2> QED BY <1>1, <2>1, <2>2
<1>5. ASSUME NEW w \in Refreshers, ListOld(w) PROVE CodeIsOwed'
  <2>1. Changing(w)'
    BY <1>5, SteadyMoves DEF Steady, Goes, Changing
  <2> QED BY <2>1 DEF CodeIsOwed
<1>6. ASSUME NEW w \in Refreshers, ListNew(w) PROVE CodeIsOwed'
  <2>1. Changing(w)'
    BY <1>6, SteadyMoves DEF Steady, Goes, Changing
  <2> QED BY <2>1 DEF CodeIsOwed
<1>7. ASSUME NEW w \in Refreshers, NEW f \in Functions,
             RemoveFile(w, f) \/ OpenFile(w, f) \/ WriteFile(w, f)
      PROVE  CodeIsOwed'
  <2>1. Changing(w)'
    BY <1>7, SteadyMoves DEF Steady, Goes, Changing
  <2> QED BY <2>1 DEF CodeIsOwed
<1>8. ASSUME NEW w \in Refreshers, CopyMissing(w) \/ RefreshFails(w) PROVE CodeIsOwed'
  <2>1. torn' = TRUE
    BY <1>8 DEF CopyMissing, RefreshFails
  <2> QED BY <2>1 DEF CodeIsOwed
<1>9. ASSUME NEW w \in Refreshers, Finish(w) PROVE CodeIsOwed'
  <2>1. /\ \A f \in Functions : modules'[f] = 0
        /\ \A f \in Functions : consumers'[f] = IF files'[f] = 0 THEN 0 ELSE 1
    BY <1>9 DEF Finish, NoCode, Reconciled
  <2>2. /\ \A f \in Functions : modules'[f] \in {0, files'[f]}
        /\ \A f \in Functions : consumers'[f] = 1 <=> files'[f] # 0
    BY <2>1
  <2> QED BY <2>2 DEF CodeIsOwed
<1>10. ASSUME NEW f \in Functions, Load(f) PROVE CodeIsOwed'
  <2>1. /\ UNCHANGED <<files, torn, refresh, consumers>>
        /\ modules'[f] = files[f] /\ \A g \in Functions \ {f} : modules'[g] = modules[g]
    BY <1>10 DEF Load, TypeOK, pastVars
  <2>2. \A w \in Refreshers : Changing(w)' <=> Changing(w)
    BY <2>1 DEF Changing
  <2> QED BY <2>1, <2>2 DEF CodeIsOwed
<1>11. CASE Killed
  <2>1. \A f \in Functions : files'[f] = 0 /\ modules'[f] = 0 /\ consumers'[f] = 0
    BY <1>11 DEF Killed, NoCode
  <2> QED BY <2>1 DEF CodeIsOwed
<1>12. ASSUME \/ UNCHANGED vars
              \/ \E f \in Functions : Push(f)
              \/ \E s \in Subjects : RuntimeHook(s)
       PROVE  CodeIsOwed'
  <2>1. UNCHANGED <<files, codeVars, torn, refresh>>
    BY <1>12 DEF vars, pastVars, Push, RuntimeHook
  <2> QED BY <2>1, CodeStays DEF Changing
<1> QED
  BY <1>2, <1>3, <1>4, <1>5, <1>6, <1>7, <1>8, <1>9, <1>10, <1>11, <1>12 DEF Next, RefreshStep

------------------------------------------------------------------------------
(* A refresh stays alone when none begins beside it. *)
LEMMA AloneStays ==
    ASSUME RunsAlone, UNCHANGED overlap, stray => stray',
           \A w \in Refreshers : Refreshing(w)' => Refreshing(w)
    PROVE  RunsAlone'
BY DEF RunsAlone

(* If one begins, whether another runs is looked at. *)
LEMMA AloneBegins ==
    ASSUME NEW w \in Refreshers, Begin(w), Goes(w, "fetch", 0, {}, {})
    PROVE  RunsAlone'
<1>1. /\ \A v \in Refreshers \ {w} : refresh'[v] = refresh[v]
      /\ overlap' <=> \E v \in Refreshers \ {w} : Refreshing(v)
      /\ overlap' => stray'
  BY DEF Goes, Begin
<1>2. ASSUME ~overlap', NEW v \in Refreshers, Refreshing(v)' PROVE v = w
  <2>1. ASSUME v # w PROVE FALSE
    BY <1>1, <1>2, <2>1 DEF Refreshing
  <2> QED BY <2>1
<1> QED
  BY <1>1, <1>2 DEF RunsAlone

(* The steps between the beginning and the end of a refresh. *)
Between(w) ==
    \/ Fetch(w) \/ SetHead(w) \/ ReadHead(w) \/ ListOld(w) \/ ListNew(w)
    \/ \E f \in Functions :
          CheckoutFile(w, f) \/ RemoveFile(w, f) \/ OpenFile(w, f) \/ WriteFile(w, f)

(* They touch no other refresh, nor who runs beside whom. *)
LEMMA BetweenFacts ==
    ASSUME TypeOK, NEW w \in Refreshers, Between(w)
    PROVE  /\ Refreshing(w) /\ UNCHANGED <<overlap, stray>>
           /\ \A v \in Refreshers \ {w} : refresh'[v] = refresh[v]
           /\ Refreshing(w)'
<1>1. Refreshing(w) /\ UNCHANGED <<overlap, stray>>
  BY DEF Between, Fetch, SetHead, ReadHead, CheckoutFile, ListOld, ListNew, RemoveFile,
         OpenFile, WriteFile, Refreshing, Resting, pastVars
<1>2. \E step \in {"head", "read", "checkout", "remove", "copy"} :
         \E target, names, open : Goes(w, step, target, names, open)
  BY SteadyMoves DEF Steady, Between
<1>3. /\ \A v \in Refreshers \ {w} : refresh'[v] = refresh[v]
      /\ Refreshing(w)'
  BY <1>2 DEF Goes, Refreshing, Resting
<1> QED
  BY <1>1, <1>3

(* Those that end it leave it at rest. *)
LEMMA EndFacts ==
    ASSUME TypeOK, BootAlone, NEW w \in Refreshers,
           Finish(w) \/ CopyMissing(w) \/ RefreshFails(w)
    PROVE  /\ Refreshing(w) /\ ~Refreshing(w)' /\ UNCHANGED overlap /\ (stray => stray')
           /\ \A v \in Refreshers \ {w} :
                 refresh'[v] = refresh[v] \/ (~Refreshing(v) /\ ~Refreshing(v)')
<1>1. CASE Finish(w)
  <2>1. Refreshing(w) /\ UNCHANGED <<overlap, stray>>
    BY <1>1 DEF Finish, Refreshing, Resting, pastVars
  <2> QED BY <1>1, <2>1, StartedGoes DEF Refreshing, Resting
<1>2. CASE CopyMissing(w) \/ RefreshFails(w)
  <2>1. Refreshing(w) /\ UNCHANGED overlap
    BY <1>2 DEF CopyMissing, RefreshFails, Refreshing, Resting
  <2>2. stray => stray'
    BY <1>2 DEF CopyMissing, RefreshFails
  <2>3. Goes(w, "idle", 0, {}, {})
    BY <1>2, RefreshMoves
  <2> QED BY <2>1, <2>2, <2>3 DEF Goes, Refreshing, Resting
<1> QED
  BY <1>1, <1>2

(* Every step keeps what runs alone so. *)
LEMMA NextAlone ==
    ASSUME TypeOK, BootAlone, RunsAlone, [Next]_vars
    PROVE  RunsAlone'
<1>1. CASE Boot
  BY <1>1, RefreshMoves, AloneBegins DEF Boot, Refreshers
<1>2. ASSUME NEW s \in Subjects, HookReceived(s) PROVE RunsAlone'
  BY <1>2, RefreshMoves, AloneBegins DEF HookReceived, Refreshers
<1>3. ASSUME NEW s \in Subjects, WatcherDies(s) PROVE RunsAlone'
  <2>1. Goes(s, "dead", 0, {}, {}) /\ s \in Refreshers /\ UNCHANGED <<overlap, stray>>
    BY <1>3, RefreshMoves DEF WatcherDies, Refreshers, pastVars
  <2>2. \A v \in Refreshers : Refreshing(v)' => Refreshing(v)
    BY <2>1 DEF Goes, Refreshing, Resting
  <2> QED BY <2>1, <2>2, AloneStays
<1>4. ASSUME NEW w \in Refreshers, Between(w) PROVE RunsAlone'
  <2>1. \A v \in Refreshers : Refreshing(v)' => Refreshing(v)
    BY <1>4, BetweenFacts DEF Refreshing
  <2> QED BY <1>4, <2>1, BetweenFacts, AloneStays
<1>5. ASSUME NEW w \in Refreshers, Finish(w) \/ CopyMissing(w) \/ RefreshFails(w)
      PROVE  RunsAlone'
  <2>1. \A v \in Refreshers : Refreshing(v)' => Refreshing(v)
    BY <1>5, EndFacts DEF Refreshing
  <2> QED BY <1>5, <2>1, EndFacts, AloneStays
<1>6. CASE Killed
  <2>1. \A w \in Refreshers : ~Refreshing(w)'
    BY <1>6 DEF Killed, At, Refreshing, Resting
  <2>2. overlap' = FALSE
    BY <1>6 DEF Killed
  <2> QED BY <2>1, <2>2 DEF RunsAlone
<1>7. ASSUME \/ UNCHANGED vars
             \/ \E f \in Functions : Push(f) \/ Load(f)
             \/ \E s \in Subjects : RuntimeHook(s)
      PROVE  RunsAlone'
  <2>1. UNCHANGED <<overlap, stray, refresh>>
    BY <1>7 DEF vars, pastVars, Push, Load, RuntimeHook
  <2> QED BY <2>1, AloneStays DEF Refreshing
<1> QED
  BY <1>1, <1>2, <1>3, <1>4, <1>5, <1>6, <1>7 DEF Next, RefreshStep, Between

------------------------------------------------------------------------------
(* What matters of a step of the one that runs is what it has done. *)
LEMMA OneIsRight ==
    ASSUME NEW w \in Refreshers, DoneSoFar(w)',
           \A v \in Refreshers \ {w} : ~Refreshing(v)',
           torn' \/ Refreshing(w)' \/ \A f \in Functions : Right(files[f], f)'
    PROVE  FilesAreRight'
<1>1. \A v \in Refreshers : DoneSoFar(v)'
  <2>1. ASSUME NEW v \in Refreshers, ~Refreshing(v)' PROVE DoneSoFar(v)'
    BY <2>1 DEF DoneSoFar, Refreshing, Resting, Changing
  <2> QED BY <2>1
<1> QED
  BY <1>1 DEF FilesAreRight

(* A step that leaves the refreshes and all they work on. *)
LEMMA FilesStay ==
    ASSUME FilesAreRight, UNCHANGED <<refresh, head, work, files, torn, overlap, stray>>,
           Tree' = Tree
    PROVE  FilesAreRight'
<1> USE DEF Right
<1>2. \A w \in Refreshers : DoneSoFar(w)' <=> DoneSoFar(w)
  BY DEF DoneSoFar, Changing, Refreshing
<1>3. \A w \in Refreshers : Refreshing(w)' <=> Refreshing(w)
  BY DEF Refreshing
<1> QED
  BY <1>2, <1>3 DEF FilesAreRight

(* A refresh that begins alone has done nothing yet. *)
LEMMA BeginIsRight ==
    ASSUME NEW w \in Refreshers, Begin(w), Goes(w, "fetch", 0, {}, {})
    PROVE  FilesAreRight'
<1>1. CASE overlap'
  BY <1>1 DEF FilesAreRight
<1>2. CASE ~overlap'
  <2>1. \A v \in Refreshers \ {w} : ~Refreshing(v)'
    BY <1>2 DEF Begin, Goes, Refreshing
  <2>2. refresh'[w].step = "fetch" /\ refresh'[w].open = {}
    BY DEF Goes
  <2>3. Refreshing(w)' /\ DoneSoFar(w)'
    BY <2>2 DEF DoneSoFar, Refreshing, Resting, Changing
  <2> QED BY <2>1, <2>3, OneIsRight
<1> QED
  BY <1>1, <1>2

(* The checkout of a file gives it the code of the commit. *)
LEMMA CheckedOut ==
    ASSUME TypeOK, NEW w \in Refreshers, DoneSoFar(w), NEW f \in Functions, CheckoutFile(w, f)
    PROVE  DoneSoFar(w)'
<1>1. Goes(w, "checkout", refresh[w].target, refresh[w].names \ {f}, refresh[w].open)
  BY SteadyMoves DEF Steady
<1>2. /\ refresh[w].step = "checkout" /\ refresh[w].open = {} /\ refresh[w].target = head
      /\ \A g \in Functions \ refresh[w].names : Right(work[g], g)
  BY DEF CheckoutFile, DoneSoFar, Refreshing, Resting
<1>3. UNCHANGED <<head, stray>> /\ Tree' = Tree
  BY DEF CheckoutFile, Tree, repoVars, pastVars
<1>4. \/ work' = [work EXCEPT ![f] = Tree[f]]
      \/ stray /\ Tree[f] = 0 /\ UNCHANGED work
  BY <1>2 DEF CheckoutFile, Tree
<1>5. work \in [Functions -> Codes]
  BY DEF TypeOK
<1>6. ASSUME NEW g \in Functions, g = f \/ g \notin refresh[w].names PROVE Right(work[g], g)'
  <2>1. CASE g = f
    BY <1>3, <1>4, <1>5, <2>1 DEF Right
  <2>2. CASE g # f
    <3>1. work'[g] = work[g] /\ Right(work[g], g)
      BY <1>2, <1>4, <1>5, <1>6, <2>2
    <3> QED BY <1>3, <3>1 DEF Right
  <2> QED BY <2>1, <2>2
<1>7. /\ refresh'[w].step = "checkout" /\ refresh'[w].target = head'
      /\ refresh'[w].names = refresh[w].names \ {f} /\ refresh'[w].open = {}
  BY <1>1, <1>2, <1>3 DEF Goes
<1> QED
  BY <1>6, <1>7 DEF DoneSoFar, Changing

(* The removal of a file takes it from those that are to be removed. *)
LEMMA Removed ==
    ASSUME TypeOK, NEW w \in Refreshers, DoneSoFar(w), NEW f \in Functions, RemoveFile(w, f)
    PROVE  DoneSoFar(w)'
<1>1. Goes(w, "remove", refresh[w].target, refresh[w].names \ {f}, refresh[w].open)
  BY SteadyMoves DEF Steady
<1>2. /\ refresh[w].step = "remove" /\ refresh[w].open = {}
      /\ \A g \in Functions : Right(work[g], g)
      /\ \A g \in Functions \ refresh[w].names : Tree[g] = 0 => files[g] = 0
  BY DEF RemoveFile, DoneSoFar, Refreshing, Resting, Changing
<1>3. UNCHANGED <<work, stray>> /\ Tree' = Tree
  BY DEF RemoveFile, Tree, repoVars, cloneVars, pastVars
<1>4. files'[f] = 0 /\ \A g \in Functions \ {f} : files'[g] = files[g]
  BY DEF RemoveFile, TypeOK
<1>5. /\ refresh'[w].step = "remove" /\ refresh'[w].open = {}
      /\ refresh'[w].names = refresh[w].names \ {f}
  BY <1>1, <1>2 DEF Goes
<1>6. \A g \in Functions : Right(work[g], g)'
  BY <1>2, <1>3 DEF Right
<1>7. \A g \in Functions \ refresh'[w].names : Tree'[g] = 0 => files'[g] = 0
  BY <1>2, <1>3, <1>4, <1>5
<1> QED
  BY <1>5, <1>6, <1>7 DEF DoneSoFar, Changing

(* A file that is opened is read as it was checked out. *)
LEMMA Read ==
    ASSUME TypeOK, NEW w \in Refreshers, DoneSoFar(w), NEW f \in Functions, OpenFile(w, f)
    PROVE  DoneSoFar(w)'
<1>1. Goes(w, "copy", refresh[w].target, refresh[w].names \ {f}, {<<f, work[f]>>})
  BY SteadyMoves DEF Steady
<1>2. /\ refresh[w].step = "copy" /\ refresh[w].open = {} /\ work[f] \in Codes
      /\ \A g \in Functions : Right(work[g], g)
  BY DEF OpenFile, DoneSoFar, Changing, TypeOK
<1>3. \A g \in Functions \ refresh[w].names : Right(files[g], g)
  BY <1>2 DEF DoneSoFar
<1>4. UNCHANGED <<work, files, stray>> /\ Tree' = Tree
  BY DEF OpenFile, Tree, repoVars, cloneVars, pastVars
<1>5. /\ refresh'[w].step = "copy" /\ refresh'[w].open = {<<f, work[f]>>}
      /\ refresh'[w].names = refresh[w].names \ {f}
  BY <1>1 DEF Goes
<1>6. \A g \in Functions : Right(work[g], g)'
  BY <1>2, <1>4 DEF Right
<1>7. \A g \in Functions \ refresh[w].names : Right(files[g], g)'
  BY <1>3, <1>4 DEF Right
<1>8. ASSUME NEW g \in Functions \ refresh'[w].names
      PROVE  \/ Right(files[g], g)'
             \/ \E code \in Codes : <<g, code>> \in refresh'[w].open
  <2>1. CASE g = f
    BY <1>2, <1>5, <2>1
  <2>2. CASE g # f
    BY <1>5, <1>7, <2>2
  <2> QED BY <2>1, <2>2
<1>9. ASSUME NEW g \in Functions, NEW code \in Codes, <<g, code>> \in refresh'[w].open
      PROVE  Right(code, g)' /\ refresh'[w].open = {<<g, code>>}
  <2>1. g = f /\ code = work'[f]
    BY <1>4, <1>5, <1>9
  <2> QED BY <1>4, <1>5, <1>6, <2>1 DEF Right
<1>10. \A g \in Functions, code \in Codes :
          <<g, code>> \in refresh'[w].open =>
             Right(code, g)' /\ refresh'[w].open = {<<g, code>>}
  BY <1>9
<1> QED
  BY <1>5, <1>6, <1>8, <1>10 DEF DoneSoFar, Changing

(* A file that is written has the code that was read. *)
LEMMA Written ==
    ASSUME TypeOK, NEW w \in Refreshers, DoneSoFar(w), NEW f \in Functions, WriteFile(w, f)
    PROVE  DoneSoFar(w)'
<1>1. Goes(w, "copy", refresh[w].target, refresh[w].names, {})
  BY SteadyMoves DEF Steady
<1>2. PICK code \in Codes :
         <<f, code>> \in refresh[w].open /\ files' = [files EXCEPT ![f] = code]
  BY DEF WriteFile
<1>3. refresh[w].step = "copy" /\ \A g \in Functions : Right(work[g], g)
  BY DEF WriteFile, DoneSoFar, Changing
<1>4. Right(code, f) /\ refresh[w].open = {<<f, code>>}
  BY <1>2, <1>3 DEF DoneSoFar
<1>5. UNCHANGED <<work, stray>> /\ Tree' = Tree
  BY DEF WriteFile, Tree, repoVars, cloneVars, pastVars
<1>6. /\ refresh'[w].step = "copy" /\ refresh'[w].open = {}
      /\ refresh'[w].names = refresh[w].names
  BY <1>1 DEF Goes
<1>7. files'[f] = code /\ \A g \in Functions \ {f} : files'[g] = files[g]
  BY <1>2 DEF TypeOK
<1>8. \A g \in Functions : Right(work[g], g)'
  BY <1>3, <1>5 DEF Right
<1>9. ASSUME NEW g \in Functions \ refresh'[w].names PROVE Right(files[g], g)'
  <2>1. CASE g = f
    BY <1>4, <1>5, <1>7, <2>1 DEF Right
  <2>2. CASE g # f
    <3>1. Right(files[g], g)
      <4>1. \A c \in Codes : <<g, c>> \notin refresh[w].open
        BY <1>4, <2>2
      <4> QED BY <1>3, <1>6, <1>9, <4>1 DEF DoneSoFar
    <3> QED BY <1>5, <1>7, <2>2, <3>1 DEF Right
  <2> QED BY <2>1, <2>2
<1> QED
  BY <1>6, <1>8, <1>9 DEF DoneSoFar, Changing

(* Nor do the other steps undo what was done. *)
LEMMA OtherSteps ==
    ASSUME TypeOK, NEW w \in Refreshers, DoneSoFar(w),
           Fetch(w) \/ SetHead(w) \/ ReadHead(w) \/ ListOld(w) \/ ListNew(w)
    PROVE  DoneSoFar(w)'
<1>1. Steady(w)
  BY SteadyMoves
<1>2. CASE Fetch(w) \/ SetHead(w)
  <2>1. refresh[w].step \in {"fetch", "head"} /\ refresh[w].open = {}
    BY <1>2 DEF Fetch, SetHead, DoneSoFar, Refreshing, Resting
  <2>2. refresh'[w].step \in {"head", "read"} /\ refresh'[w].open = {}
    BY <1>1, <1>2, <2>1 DEF Steady, Goes
  <2> QED BY <2>2 DEF DoneSoFar, Changing
<1>3. CASE ReadHead(w)
  <2>1. refresh[w].open = {} /\ UNCHANGED <<head, work, stray>> /\ Tree' = Tree
    BY <1>3 DEF ReadHead, DoneSoFar, Refreshing, Resting, Tree, repoVars, cloneVars, pastVars
  <2>2. /\ refresh'[w].step = "checkout" /\ refresh'[w].target = head /\ refresh'[w].open = {}
        /\ refresh'[w].names = {f \in Functions : work[f] # Tree[f]}
    BY <1>1, <1>3, <2>1 DEF Steady, Goes
  <2>3. \A f \in Functions \ refresh'[w].names : Right(work[f], f)'
    BY <2>1, <2>2 DEF Right
  <2> QED BY <2>1, <2>2, <2>3 DEF DoneSoFar, Changing
<1>4. CASE ListOld(w)
  <2>1. /\ refresh[w].open = {} /\ UNCHANGED <<work, files, stray>> /\ Tree' = Tree
        /\ \A f \in Functions : Right(work[f], f)
    BY <1>4 DEF ListOld, DoneSoFar, Refreshing, Resting, Tree, repoVars, cloneVars
  <2>2. /\ refresh'[w].step = "remove" /\ refresh'[w].open = {}
        /\ refresh'[w].names = HasCode(files)
    BY <1>1, <1>4, <2>1 DEF Steady, Goes
  <2>3. \A f \in Functions : Right(work[f], f)'
    BY <2>1 DEF Right
  <2>4. \A f \in Functions \ refresh'[w].names : files'[f] = 0
    BY <2>1, <2>2 DEF HasCode
  <2> QED BY <2>2, <2>3, <2>4 DEF DoneSoFar, Changing
<1>5. CASE ListNew(w)
  <2>1. /\ refresh[w].step = "remove" /\ refresh[w].names = {} /\ refresh[w].open = {}
        /\ UNCHANGED <<work, files, stray>> /\ Tree' = Tree
    BY <1>5 DEF ListNew, DoneSoFar, Refreshing, Resting, Tree, repoVars, cloneVars, pastVars
  <2>2. /\ \A f \in Functions : Right(work[f], f)
        /\ \A f \in Functions : Tree[f] = 0 => files[f] = 0
    BY <2>1 DEF DoneSoFar, Changing
  <2>3. /\ refresh'[w].step = "copy" /\ refresh'[w].open = {}
        /\ refresh'[w].names = HasCode(work)
    BY <1>1, <1>5, <2>1 DEF Steady, Goes
  <2>4. \A f \in Functions : Right(work[f], f)'
    BY <2>1, <2>2 DEF Right
  <2>5. ASSUME NEW f \in Functions \ refresh'[w].names PROVE Right(files[f], f)'
    <3>1. work[f] = 0 /\ Tree[f] = 0
      BY <2>2, <2>3 DEF HasCode, Right
    <3> QED BY <2>1, <2>2, <3>1 DEF Right
  <2> QED BY <2>3, <2>4, <2>5 DEF DoneSoFar, Changing
<1> QED
  BY <1>2, <1>3, <1>4, <1>5

(* Every step keeps the files right. *)
LEMMA NextFiles ==
    ASSUME TypeOK, HooksAreOwed, BootAlone, RunsAlone, FilesAreRight, [Next]_vars
    PROVE  FilesAreRight'
<1>1. CASE Boot
  BY <1>1, RefreshMoves, BeginIsRight DEF Boot, Refreshers
<1>2. ASSUME NEW s \in Subjects, HookReceived(s) PROVE FilesAreRight'
  BY <1>2, RefreshMoves, BeginIsRight DEF HookReceived, Refreshers
<1>3. ASSUME NEW s \in Subjects, WatcherDies(s) PROVE FilesAreRight'
  <2>1. /\ Goes(s, "dead", 0, {}, {}) /\ s \in Refreshers /\ ~Refreshing(s)
        /\ UNCHANGED <<head, work, files, torn, overlap, stray>> /\ Tree' = Tree
    BY <1>3, RefreshMoves
    DEF WatcherDies, Refreshers, Refreshing, Resting, cloneVars, pastVars, repoVars, Tree
  <2>2. ASSUME NEW v \in Refreshers
        PROVE  /\ Refreshing(v)' <=> Refreshing(v)
               /\ DoneSoFar(v) => DoneSoFar(v)'
    <3>1. CASE v = s
      <4>1. refresh'[v].step = "dead"
        BY <2>1, <3>1 DEF Goes
      <4> QED BY <2>1, <3>1, <4>1 DEF Refreshing, Resting, DoneSoFar, Changing
    <3>2. CASE v # s
      <4>1. refresh'[v] = refresh[v]
        BY <2>1, <3>2 DEF Goes
      <4> QED BY <2>1, <4>1 DEF Refreshing, DoneSoFar, Changing, Right
    <3> QED BY <3>1, <3>2
  <2>3. \A f \in Functions : Right(files[f], f) => Right(files[f], f)'
    BY <2>1 DEF Right
  <2> QED BY <2>1, <2>2, <2>3 DEF FilesAreRight
<1>4. ASSUME NEW w \in Refreshers, Between(w) PROVE FilesAreRight'
  <2> SUFFICES ASSUME ~overlap PROVE FilesAreRight'
    BY <1>4, BetweenFacts DEF FilesAreRight
  <2>1. DoneSoFar(w) /\ Refreshing(w)' /\ \A v \in Refreshers \ {w} : ~Refreshing(v)'
    BY <1>4, BetweenFacts DEF FilesAreRight, RunsAlone, Refreshing
  <2>2. DoneSoFar(w)'
    BY <1>4, <2>1, CheckedOut, Removed, Read, Written, OtherSteps DEF Between
  <2> QED BY <2>1, <2>2, OneIsRight
<1>5. ASSUME NEW w \in Refreshers, Finish(w) \/ CopyMissing(w) \/ RefreshFails(w)
      PROVE  FilesAreRight'
  <2> SUFFICES ASSUME ~overlap PROVE FilesAreRight'
    BY <1>5, EndFacts DEF FilesAreRight
  <2>1. DoneSoFar(w) /\ ~Refreshing(w)' /\ \A v \in Refreshers \ {w} : ~Refreshing(v)'
    BY <1>5, EndFacts DEF FilesAreRight, RunsAlone, Refreshing
  <2>2. DoneSoFar(w)'
    BY <2>1 DEF DoneSoFar, Refreshing, Resting, Changing
  <2>3. CASE Finish(w)
    <3>1. \A f \in Functions : Right(files[f], f)
      BY <2>1, <2>3 DEF Finish, DoneSoFar
    <3>2. UNCHANGED <<files, stray>> /\ Tree' = Tree
      BY <2>3 DEF Finish, Tree, repoVars, cloneVars, pastVars
    <3>3. \A f \in Functions : Right(files[f], f)'
      BY <3>1, <3>2 DEF Right
    <3> QED BY <2>1, <2>2, <3>3, OneIsRight
  <2>4. CASE CopyMissing(w) \/ RefreshFails(w)
    <3>1. torn'
      BY <2>4 DEF CopyMissing, RefreshFails
    <3> QED BY <2>1, <2>2, <3>1, OneIsRight
  <2> QED BY <1>5, <2>3, <2>4
<1>6. CASE Killed
  <2>1. /\ \A w \in Refreshers : ~Refreshing(w)'
        /\ \A f \in Functions : files'[f] = 0
        /\ Tree' = NoCode
    BY <1>6 DEF Killed, At, Refreshing, Resting, NoCode, Tree, repoVars, HooksAreOwed
  <2>2. \A w \in Refreshers : DoneSoFar(w)'
    BY <2>1 DEF DoneSoFar, Refreshing, Resting, Changing
  <2>3. \A f \in Functions : Right(files[f], f)'
    BY <2>1 DEF Right, NoCode
  <2> QED BY <2>2, <2>3 DEF FilesAreRight
<1>7. ASSUME NEW f \in Functions, Push(f) PROVE FilesAreRight'
  <2>1. Tree' = Tree /\ UNCHANGED <<refresh, head, work, files, torn, overlap, stray>>
    BY <1>7, PushFacts DEF Tree, Push, TypeOK, cloneVars, pastVars
  <2> QED BY <2>1, FilesStay
<1>8. ASSUME \/ UNCHANGED vars
             \/ \E f \in Functions : Load(f)
             \/ \E s \in Subjects : RuntimeHook(s)
      PROVE  FilesAreRight'
  <2>1. Tree' = Tree /\ UNCHANGED <<refresh, head, work, files, torn, overlap, stray>>
    BY <1>8 DEF vars, Load, RuntimeHook, Tree, repoVars, cloneVars, pastVars
  <2> QED BY <2>1, FilesStay
<1> QED
  BY <1>1, <1>2, <1>3, <1>4, <1>5, <1>6, <1>7, <1>8 DEF Next, RefreshStep, Between

------------------------------------------------------------------------------
(* The invariant holds in every state. *)
LEMMA Invariance == Spec => []IInv
<1>1. IInv /\ [Next]_vars => IInv'
  BY NextTypeOK, NextHooks, NextBoot, NextCode, NextAlone, NextFiles DEF IInv
<1> QED
  BY InitInv, <1>1, PTL DEF Spec

(* Types. *)
THEOREM Types == Spec => []TypeOK
<1>1. IInv => TypeOK
  BY DEF IInv
<1> QED
  BY <1>1, Invariance, PTL

(* However two refreshes interleave: when none runs, and the last one to    *)
(* list the files went through, modules and consumers are those of the      *)
(* files.  The files are those of the clone's commit if that refresh ran    *)
(* alone, but for ones left over from refreshes that did not or failed.     *)
THEOREM RefreshIsExact == Spec => []RefreshedRuntimeIsExact
<1>1. IInv => RefreshedRuntimeIsExact
  <2> SUFFICES ASSUME IInv, ~torn, \A w \in Refreshers : ~Refreshing(w)
               PROVE  /\ \A f \in Functions : modules[f] \in {0, files[f]}
                      /\ \A f \in Functions : consumers[f] = 1 <=> files[f] # 0
                      /\ ~overlap => \A f \in Functions : Tree[f] # 0 => files[f] = Tree[f]
                      /\ ~stray => files = Tree
    BY DEF RefreshedRuntimeIsExact
  <2>1. \A w \in Refreshers : ~Changing(w)
    BY DEF Refreshing, Resting, Changing
  <2>2. ~overlap => \A f \in Functions : Right(files[f], f)
    BY DEF IInv, FilesAreRight
  <2>3. ~overlap => \A f \in Functions : Tree[f] # 0 => files[f] = Tree[f]
    BY <2>2 DEF Right
  <2>4. ~stray => \A f \in Functions : files[f] = Tree[f]
    BY <2>2 DEF IInv, RunsAlone, Right
  <2>5. files \in [Functions -> Codes] /\ Tree \in [Functions -> Codes]
    BY TreeType DEF IInv, TypeOK
  <2>6. ~stray => files = Tree
    BY <2>4, <2>5
  <2> QED BY <2>1, <2>3, <2>6 DEF IInv, CodeIsOwed
<1> QED
  BY <1>1, Invariance, PTL

(* A refresh that runs alone has copied every file of the repository when   *)
(* it reconciles the consumers, so it cancels none that has a function.     *)
THEOREM ConsumersSurvive == Spec => ConsumersSurviveRefresh
<1> DEFINE Survive ==
       (~overlap /\ Up /\ Up') =>
          \A f \in Functions : (consumers[f] = 1 /\ Tree[f] # 0) => consumers'[f] = 1
<1>1. IInv /\ [Next]_vars => [Survive]_vars
  <2> SUFFICES ASSUME IInv, Next, ~overlap, Up', NEW f \in Functions,
                      consumers[f] = 1, Tree[f] # 0
               PROVE  consumers'[f] = 1
    BY DEF Survive
  <2>1. ASSUME NEW w \in Refreshers, Finish(w) PROVE consumers'[f] = 1
    <3>1. refresh[w].step = "copy" /\ refresh[w].names = {} /\ refresh[w].open = {}
      BY <2>1 DEF Finish
    <3>2. DoneSoFar(w)
      BY DEF IInv, FilesAreRight
    <3>3. Right(files[f], f)
      BY <3>1, <3>2 DEF DoneSoFar
    <3>4. files[f] # 0
      BY <3>3 DEF Right
    <3> QED BY <2>1, <3>4 DEF Finish, Reconciled
  <2>2. CASE UNCHANGED consumers
    BY <2>2
  <2>3. ~Killed
    <3>1. Killed => refresh'["boot"].step = "off"
      BY DEF Killed, At, Refreshers
    <3> QED BY <3>1 DEF Up
  <2>4. ASSUME NEW w \in Refreshers, RefreshStep(w) \/ RefreshFails(w), ~Finish(w)
        PROVE  UNCHANGED consumers
    BY <2>4 DEF RefreshStep, RefreshFails, Fetch, SetHead, ReadHead, CheckoutFile, ListOld,
                ListNew, CopyMissing, RemoveFile, OpenFile, WriteFile, codeVars
  <2>5. ASSUME \/ Boot \/ \E g \in Functions : Push(g) \/ Load(g)
               \/ \E s \in Subjects : RuntimeHook(s) \/ HookReceived(s) \/ WatcherDies(s)
        PROVE  UNCHANGED consumers
    BY <2>5 DEF Boot, Push, Load, RuntimeHook, HookReceived, WatcherDies, codeVars
  <2> QED BY <2>1, <2>2, <2>3, <2>4, <2>5 DEF Next
<1> QED
  BY <1>1, Invariance, PTL DEF Spec, ConsumersSurviveRefresh
===============================================================================
