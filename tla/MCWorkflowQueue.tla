--------------------------- MODULE MCWorkflowQueue ---------------------------
(* Instances of WorkflowQueue for TLC; its races are in MCServices.         *)
EXTENDS WorkflowQueue
=============================================================================
