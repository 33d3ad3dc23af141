---------------------------- MODULE FunctionLease ----------------------------
(***************************************************************************)
(* What the operator promises about a function's lease, without caches,    *)
(* versions, workqueues or API calls.  A function is registered once and   *)
(* keeps existing; it becomes held only while somebody asks for it; and it *)
(* is released only after a cleanup pass has found its lease lapsed.       *)
(***************************************************************************)

CONSTANT Functions

VARIABLES
    lease,      \* absent, idle or held
    asked,      \* functions somebody is asking to activate
    condemned   \* functions a cleanup pass in progress found lapsed

vars == <<lease, asked, condemned>>

Init ==
    /\ lease \in [Functions -> {"absent", "idle"}]
    /\ asked = {}
    /\ condemned = {}

Move(f, from, to) == lease[f] \in from /\ lease' = [lease EXCEPT ![f] = to]

Register(f) ==
    /\ Move(f, {"absent"}, "idle")
    /\ UNCHANGED <<asked, condemned>>

(* Requests come, and are answered or lost. *)
Ask(f) ==
    /\ lease[f] # "absent"
    /\ asked' = asked \cup {f}
    /\ UNCHANGED <<lease, condemned>>

Withdraw ==
    /\ asked' \in SUBSET asked
    /\ UNCHANGED <<lease, condemned>>

Hold(f) ==
    /\ f \in asked
    /\ Move(f, {"idle", "held"}, "held")
    /\ asked' \in {asked, asked \ {f}}
    /\ UNCHANGED condemned

(* A cleanup pass only condemns what is held when it looks. *)
Condemn ==
    /\ \E S \in SUBSET {f \in Functions : lease[f] = "held"} :
          condemned' = condemned \cup S
    /\ UNCHANGED <<lease, asked>>

Pardon ==
    /\ condemned' \in SUBSET condemned
    /\ UNCHANGED <<lease, asked>>

Release(f) ==
    /\ f \in condemned
    /\ Move(f, {"idle", "held"}, "idle")
    /\ condemned' \in {condemned, condemned \ {f}}
    /\ UNCHANGED asked

Next ==
    \/ \E f \in Functions : Register(f) \/ Ask(f) \/ Hold(f) \/ Release(f)
    \/ Withdraw
    \/ Condemn
    \/ Pardon

Spec == Init /\ [][Next]_vars
==============================================================================
