-------------------------- MODULE MCPortalFunctions --------------------------
(* Instances of PortalFunctions: requests and languages are interchangeable. *)
EXTENDS PortalFunctions, TLC

Symmetry == Permutations(Requests) \cup Permutations(Languages)

(* A portal that has just cloned the repository. *)
FreshSpec == Init /\ branch = "head" /\ [][Next]_vars
==============================================================================
