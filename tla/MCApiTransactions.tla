------------------------- MODULE MCApiTransactions -------------------------
(* Instances of ApiTransactions for TLC: a user, the garbage collector and *)
(* the application controller with their finalizers.                       *)
EXTENDS ApiTransactions, TLC

CONSTANTS user, gc, app

MCFinalizers == {Cascade, "kubernetes_resources_deletion"}
MCOwned == [c \in Clients |-> CASE c = gc  -> Cascade
                                [] c = app -> "kubernetes_resources_deletion"
                                [] OTHER -> Null]
=============================================================================
