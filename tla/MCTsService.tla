----------------------------- MODULE MCTsService -----------------------------
(* An instance of TsService for model checking. *)
EXTENDS TsService

RequestsAndTasks == Clients \cup Tasks
==============================================================================
