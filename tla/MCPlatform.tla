------------------------------ MODULE MCPlatform ------------------------------
(***************************************************************************)
(* Six parts of the platform that share no row, side by side: who may do   *)
(* what (TenantAccess), the credentials of executors (CredentialLease),    *)
(* the cognitive history (CognitiveHistory), evidence packs, supply chain  *)
(* records and attestations (EvidenceChain), backups (BackupDrill), and    *)
(* the trace from requirements to records (Traceability).                  *)
(* A behaviour is one of the part that part names; the others rest in      *)
(* their initial state.                                                    *)
(*                                                                         *)
(* The history is checked twice: two workers that do not crash over few    *)
(* events, and one at a time, crashing, over enough events to index,       *)
(* snapshot and report a commit.                                           *)
(* Attestations share no state with packs and records and are a part of    *)
(* their own; records overlap each other in one part and packs in another. *)
(***************************************************************************)
EXTENDS TenantAccess, CredentialLease, CognitiveHistory, EvidenceChain,
        BackupDrill, MCTraceability, TLC

CONSTANT MoreEvents

VARIABLE part

LongHistory == INSTANCE CognitiveHistory WITH EventBound <- MoreEvents

platformVars == <<part, accVars, credVars, cogVars, evidenceVars, bakVars, traceVars>>

\* The parts that rest have one initial state.
PlatformInit ==
  /\ part \in {"access", "credentials", "history", "long history", "packs",
               "records", "attestations", "backup", "trace"}
  /\ AccInit /\ CredInit /\ CogInit /\ EviInit /\ BakInit /\ TraceInit
  /\ part # "access" => tasks = [t \in Tasks |-> None]
  /\ part # "history" => database = "postgresql"
  /\ part # "backup" => \A b \in Backups : backups[b].algorithm = "age"
  /\ part # "trace" => autoflush = "off" /\ contract = <<t1>>

PlatformNext ==
  /\ UNCHANGED part
  /\ \/ /\ part = "access" /\ AccNext
        /\ UNCHANGED <<credVars, cogVars, evidenceVars, bakVars, traceVars>>
     \/ /\ part = "credentials" /\ CredNext
        /\ UNCHANGED <<accVars, cogVars, evidenceVars, bakVars, traceVars>>
     \/ /\ part = "history" /\ CogNext /\ UNCHANGED cogCrashes
        /\ UNCHANGED <<accVars, credVars, evidenceVars, bakVars, traceVars>>
     \/ /\ part = "long history" /\ LongHistory!CogNext
        /\ Cardinality({w \in Workers : actor'[w] # AtRest}) <= 1
        /\ UNCHANGED <<accVars, credVars, evidenceVars, bakVars, traceVars>>
     \/ /\ part = "packs" /\ (PackNext \/ RecordNext)
        /\ Cardinality({i \in Ingesters : ingesters'[i].pc # "idle"}) <= 1
        /\ UNCHANGED <<accVars, credVars, cogVars, bakVars, traceVars>>
     \/ /\ part = "records" /\ RecordNext
        /\ UNCHANGED <<accVars, credVars, cogVars, bakVars, traceVars>>
     \/ /\ part = "attestations" /\ AttestNext
        /\ UNCHANGED <<accVars, credVars, cogVars, bakVars, traceVars>>
     \/ /\ part = "backup" /\ BakNext
        /\ UNCHANGED <<accVars, credVars, cogVars, evidenceVars, traceVars>>
     \/ /\ part = "trace" /\ TraceNext
        /\ UNCHANGED <<accVars, credVars, cogVars, evidenceVars, bakVars>>

PlatformSpec == PlatformInit /\ [][PlatformNext]_platformVars

\* Nothing tells apart the handlers of credential requests, nor the executors
\* they act for.  The same two values name the workers of the commit queue and of
\* backups, the builders, the ingesters and the sessions that refresh: every part
\* is symmetric in them.
PlatformSymmetry == Permutations(Handlers) \cup Permutations(Executors)
=============================================================================
