--------------------------- MODULE MCEventDelivery ---------------------------
(* Instances of EventDelivery: a request is named after its kind. *)
EXTENDS EventDelivery

KindIsName == [r \in Requests |-> r]
==============================================================================
