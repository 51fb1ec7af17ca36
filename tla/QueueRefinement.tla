--------------------------- MODULE QueueRefinement ---------------------------
(***************************************************************************)
(* The workflow queue, drained by the one worker of the docker-compose     *)
(* deployment, implements LeasedWork for every run.  A step of the queue   *)
(* may recover several jobs at once: it is a step of each of them.         *)
(***************************************************************************)
EXTENDS WorkflowQueue

Phase(j) == CASE j.state = "NONE"    -> "none"
              [] j.state = "QUEUED"  -> "offered"
              [] j.state = "RUNNING" -> "held"
              [] OTHER               -> "closed"

\* The lease columns of a row that is not RUNNING are leftovers.
Lease(j) == IF j.state # "RUNNING" THEN "none"
            ELSE IF j.lease = "expired" THEN "lapsed" ELSE j.lease

\* submit keeps the attempt counter: a job submitted again, with its attempts
\* used up, is executed once more.
Budget(r) == IF submits[r] = 0 THEN 0 ELSE MaxAttempts + submits[r] - 1

Held(r) == {worker[w].token : w \in {v \in Workers : worker[v].r = r}} \ {0}

Leased(r) == INSTANCE LeasedWork WITH
  MaxTakes <- MaxAttempts, phase <- Phase(job[r]), lease <- Lease(job[r]),
  takes <- claims[r], budget <- Budget(r), working <- Held(r)

-----------------------------------------------------------------------------
(* Property                                                                *)

\* With one worker every job keeps the promise of LeasedWork: it is executed
\* within max_attempts, plus once for each later submission; recovery takes it
\* only from an expired lease; and only the worker of the latest claim, an API
\* handler or recovery ends it.  Rows that two commits wrote, crashed workers
\* and lost heartbeats are no exception.  (WorkSpec of every run, with the
\* quantifier inside the box.)
ImplementsLeasedWork ==
  /\ \A r \in Runs : Leased(r)!WorkInit
  /\ [][\A r \in Runs : [Leased(r)!WorkNext]_(Leased(r)!workVars)]_vars
=============================================================================
