----------------------------- MODULE MCExecutors -----------------------------
(***************************************************************************)
(* Executors for TLC: the jobs they lease, or the identity they lease them *)
(* with, as part says; the other rests in its initial state.  Enrollment   *)
(* is checked for two hosts at once and the rest of a host's life for one. *)
(***************************************************************************)
EXTENDS ExecutionPlane, ExecutorIdentity, TLC

VARIABLE part

\* The dialect only matters to enrollment, the version only to the daemon.
ExecutorsInit ==
  /\ Init /\ IdInit
  /\ part \in {"jobs", "enrollment", "host"}
  /\ part # "host" => deployment.version = "current"
  /\ part # "enrollment" => deployment.dialect = "postgresql"
  /\ part = "jobs" => deployment.mode = "production"

HostNext ==
  \E h \in Hosts : /\ Enrolling \/ Operating(h)
                   /\ \A g \in Hosts \ {h} : disk[g].key = 0 /\ disk'[g].key = 0

ExecutorsNext ==
  /\ UNCHANGED part
  /\ \/ part = "jobs" /\ Next /\ UNCHANGED idVars
     \/ /\ \/ part = "enrollment" /\ Enrolling
           \/ part = "host" /\ HostNext
        /\ UNCHANGED vars

ExecutorsSpec == ExecutorsInit /\ [][ExecutorsNext]_<<part, vars, idVars>>

\* The hosts are the executors.
Symmetry == Permutations(Executors)
=============================================================================
