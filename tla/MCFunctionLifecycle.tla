------------------------- MODULE MCFunctionLifecycle -------------------------
(* Instances of FunctionLifecycle for model checking. *)
EXTENDS FunctionLifecycle, TLC

Python == [f \in Functions |-> "python"]
Go == [f \in Functions |-> "go"]
OneProject == [f \in Functions |-> "p"]

Symmetry == Permutations(Functions)
==============================================================================
