--------------------------- MODULE MCAgentApproval ---------------------------
(* An instance of AgentApproval for TLC; the passing one is in MCServices.  *)
EXTENDS AgentApproval
=============================================================================
