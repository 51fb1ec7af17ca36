----------------------------- MODULE MCBackground -----------------------------
(***************************************************************************)
(* Work in the background, for liveness and without symmetry: the workflow *)
(* queue in its deployed shape, and the audit chain with its delivery.     *)
(* They share no row.  A behaviour is one of the component that part       *)
(* names, under the fairness of that component; the other one rests.       *)
(***************************************************************************)
EXTENDS QueueRefinement, AuditDelivery

VARIABLE part

backgroundVars == <<part, vars, auditVars>>

BackgroundInit == part \in {"queue", "audit"} /\ Init /\ AuditInit

BackgroundNext ==
  /\ UNCHANGED part
  /\ \/ part = "queue" /\ Next /\ UNCHANGED auditVars
     \/ part = "audit" /\ AuditNext /\ UNCHANGED vars

InQueue(A) == part = "queue" /\ A /\ UNCHANGED <<part, auditVars>>
InAudit(A) == part = "audit" /\ A /\ UNCHANGED <<part, vars>>

\* Fairness of WorkflowQueue and of AuditFairSpec, each in its part.
BackgroundSpec ==
  /\ BackgroundInit /\ [][BackgroundNext]_backgroundVars
  /\ \A w \in Workers : WF_vars(InQueue(WorkerStep(w)))
  /\ \A c \in Clients : WF_vars(InQueue(ClientStep(c)))
  /\ \A r \in Runs : WF_vars(InQueue(Expire(r))) /\ WF_vars(InQueue(BecomeDue(r)))
  /\ WF_auditVars(InAudit(Enable))
  /\ \A d \in Drains : WF_auditVars(InAudit(DrainStep(d)))
  /\ \A k \in Keys : /\ WF_auditVars(InAudit(RetryDeadLetter(k)))
                     /\ WF_auditVars(InAudit(DeliveryDue(k)))
  /\ \A d \in Drains, k \in Keys : SF_auditVars(InAudit(Send(d, k, "yes", "yes")))
=============================================================================
