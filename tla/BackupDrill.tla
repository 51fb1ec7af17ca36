----------------------------- MODULE BackupDrill -----------------------------
(***************************************************************************)
(* Logical backups and disaster recovery drills (BackupService).  A backup *)
(* is dumped, encrypted and checksummed by external commands between two   *)
(* commits of its row; a drill decrypts the file and restores it into a    *)
(* database of its own, which it drops again, and commits its verdict      *)
(* last.  Every command may fail, a process may die between two of them,   *)
(* and two records may name the same file.  The content of a file is the   *)
(* number of the dump it holds, 0 for none that can be restored.           *)
(***************************************************************************)
EXTENDS Naturals

CONSTANTS Backups, Paths, BackupWorkers, Nothing,
          DumpBound,       \* dumps taken
          BackupCrashBound \* processes that die

ASSUME BackupAssumption ==
   Backups # {} /\ DumpBound \in Nat /\ BackupCrashBound \in Nat

VARIABLES backups, files, plain, databases, drills, workers, dumps, kills

bakVars == <<backups, files, plain, databases, drills, workers, dumps, kills>>

\* overlapped records that two executions of the backup were under way.
BackupRow == [status : {"ABSENT", "PENDING", "RUNNING", "COMPLETED", "FAILED", "CORRUPT"},
              path : Paths, algorithm : {"age", "none"},
              checksum : 0 .. DumpBound, overlapped : {"yes", "no"}]

\* The last drill of each process.
Drill == [backup : Backups, status : {"RUNNING", "PASSED", "FAILED"},
          isolated : {"yes", "no"}, keep : {"yes", "no"}, restored : 0 .. DumpBound]

ASSUME NothingAssumption == Nothing \notin Drill

\* source is the content a drill decrypted to a file of its own.
Worker == [pc : {"idle", "claim", "dump", "encrypt", "seal", "compare", "decrypt",
                 "createdb", "restore", "finish"},
           backup : Backups, source : 0 .. DumpBound,
           verdict : {"RUNNING", "PASSED", "FAILED", "CORRUPT"}]

Idle(b) == [pc |-> "idle", backup |-> b, source |-> 0, verdict |-> "RUNNING"]

BakTypeOK ==
   /\ backups \in [Backups -> BackupRow]
   /\ files \in [Paths -> 0 .. DumpBound]
   /\ plain \in [Backups -> 0 .. DumpBound]
   /\ databases \subseteq BackupWorkers
   /\ \A w \in BackupWorkers : drills[w] = Nothing \/ drills[w] \in Drill
   /\ workers \in [BackupWorkers -> Worker]
   /\ dumps \in 0 .. DumpBound /\ kills \in 0 .. BackupCrashBound

BakInit ==
   /\ \E path \in [Backups -> Paths], algorithm \in [Backups -> {"age", "none"}] :
        backups = [b \in Backups |-> [status |-> "ABSENT", path |-> path[b],
                     algorithm |-> algorithm[b], checksum |-> 0, overlapped |-> "no"]]
   /\ files = [p \in Paths |-> 0]
   /\ plain = [b \in Backups |-> 0]
   /\ databases = {}
   /\ drills = [w \in BackupWorkers |-> Nothing]
   /\ workers = [w \in BackupWorkers |-> Idle(CHOOSE b \in Backups : TRUE)]
   /\ dumps = 0 /\ kills = 0

MovesTo(w, pc) == workers' = [workers EXCEPT ![w].pc = pc]
Doing(w, pc) == workers[w].pc = pc
Of(w) == workers[w].backup
Row(w) == backups[Of(w)]
Executing(b) == {w \in BackupWorkers : /\ Of(w) = b
                                       /\ workers[w].pc \in {"claim", "dump", "encrypt", "seal"}}

Create(b) ==
   /\ backups[b].status = "ABSENT"
   /\ backups' = [backups EXCEPT ![b].status = "PENDING"]
   /\ UNCHANGED <<files, plain, databases, drills, workers, dumps, kills>>

\* A COMPLETED backup is never taken again.
ExecutableOnce == {"PENDING", "FAILED"}
Executable == ExecutableOnce

\* The status is read here and written by Claim: two processes may find the
\* same backup PENDING.
Execute(w, b) ==
   /\ Doing(w, "idle") /\ backups[b].status \in Executable
   /\ workers' = [workers EXCEPT ![w] = [Idle(b) EXCEPT !.pc = "claim"]]
   /\ backups' = [backups EXCEPT ![b].overlapped = IF Executing(b) = {} THEN @ ELSE "yes"]
   /\ UNCHANGED <<files, plain, databases, drills, dumps, kills>>

Claim(w) ==
   /\ Doing(w, "claim")
   /\ backups' = [backups EXCEPT ![Of(w)].status = "RUNNING"]
   /\ MovesTo(w, "dump")
   /\ UNCHANGED <<files, plain, databases, drills, dumps, kills>>

\* pg_dump writes the raw file of an encrypted backup, or the file itself.
Dump(w) ==
   /\ Doing(w, "dump") /\ dumps < DumpBound
   /\ dumps' = dumps + 1
   /\ IF Row(w).algorithm = "age"
      THEN /\ plain' = [plain EXCEPT ![Of(w)] = dumps'] /\ UNCHANGED files
           /\ MovesTo(w, "encrypt")
      ELSE /\ files' = [files EXCEPT ![Row(w).path] = dumps'] /\ UNCHANGED plain
           /\ MovesTo(w, "seal")
   /\ UNCHANGED <<backups, databases, drills, kills>>

Encrypt(w) ==
   /\ Doing(w, "encrypt") /\ plain[Of(w)] # 0
   /\ files' = [files EXCEPT ![Row(w).path] = plain[Of(w)]]
   /\ MovesTo(w, "seal")
   /\ UNCHANGED <<backups, plain, databases, drills, dumps, kills>>

\* The raw file is removed in the finally clause.
UnlinkFinally(b, status) == [plain EXCEPT ![b] = 0]
\* It is removed after the checksum only.
UnlinkOnSuccess(b, status) == IF status = "COMPLETED" THEN [plain EXCEPT ![b] = 0] ELSE plain
Unlink(b, status) == UnlinkFinally(b, status)

Seal(w) ==
   /\ Doing(w, "seal") /\ files[Row(w).path] # 0
   /\ backups' = [backups EXCEPT ![Of(w)].status = "COMPLETED",
                                 ![Of(w)].checksum = files[Row(w).path]]
   /\ plain' = Unlink(Of(w), "COMPLETED")
   /\ MovesTo(w, "idle")
   /\ UNCHANGED <<files, databases, drills, dumps, kills>>

\* A command fails, or its input is gone; it may have spoilt its output.
Spoilt(w) == IF Doing(w, "encrypt") \/ Row(w).algorithm = "none"
             THEN {files, [files EXCEPT ![Row(w).path] = 0]} ELSE {files}
ExecuteFails(w) ==
   /\ workers[w].pc \in {"dump", "encrypt", "seal"}
   /\ files' \in IF Doing(w, "seal") THEN {files} ELSE Spoilt(w)
   /\ backups' = [backups EXCEPT ![Of(w)].status = "FAILED"]
   /\ plain' = Unlink(Of(w), "FAILED")
   /\ MovesTo(w, "idle")
   /\ UNCHANGED <<databases, drills, dumps, kills>>

-----------------------------------------------------------------------------
(* verify_restore                                                          *)

\* A destructive restore has passed the guard and names its target.
BeginDrill(w, b) ==
   /\ Doing(w, "idle") /\ w \notin databases
   /\ backups[b].status = "COMPLETED" /\ backups[b].checksum # 0
   /\ \E mode \in {<<"yes", "no">>, <<"yes", "yes">>, <<"no", "no">>} :
        drills' = [drills EXCEPT ![w] = [backup |-> b, status |-> "RUNNING",
                     isolated |-> mode[1], keep |-> mode[2], restored |-> 0]]
   /\ workers' = [workers EXCEPT ![w] = [Idle(b) EXCEPT !.pc = "compare"]]
   /\ UNCHANGED <<backups, files, plain, databases, dumps, kills>>

Verdict(w, verdict) == workers' = [workers EXCEPT ![w].pc = "finish", ![w].verdict = verdict]

Compare(w) ==
   /\ Doing(w, "compare")
   /\ IF files[Row(w).path] = Row(w).checksum THEN MovesTo(w, "decrypt")
      ELSE Verdict(w, "CORRUPT")
   /\ UNCHANGED <<backups, files, plain, databases, drills, dumps, kills>>

\* The file is read again: what is decrypted need not be what was compared.
Decrypt(w) ==
   /\ Doing(w, "decrypt")
   /\ workers' = [workers EXCEPT ![w].source = files[Row(w).path],
                                 ![w].pc = IF drills[w].isolated = "yes"
                                           THEN "createdb" ELSE "restore"]
   /\ UNCHANGED <<backups, files, plain, databases, drills, dumps, kills>>

CreateDb(w) ==
   /\ Doing(w, "createdb")
   /\ databases' = databases \cup {w}
   /\ MovesTo(w, "restore")
   /\ UNCHANGED <<backups, files, plain, drills, dumps, kills>>

\* pg_restore, then the checks of the database.
Restore(w) ==
   /\ Doing(w, "restore") /\ workers[w].source # 0
   /\ Verdict(w, "PASSED")
   /\ UNCHANGED <<backups, files, plain, databases, drills, dumps, kills>>

DrillFails(w) ==
   /\ workers[w].pc \in {"decrypt", "createdb", "restore"}
   /\ Verdict(w, "FAILED")
   /\ UNCHANGED <<backups, files, plain, databases, drills, dumps, kills>>

\* What the drill reports when its database was dropped, or was not.
FailedCleanup(verdict, dropped) == IF dropped \/ verdict = "CORRUPT" THEN verdict ELSE "FAILED"
Cleanup(verdict, dropped) == FailedCleanup(verdict, dropped)

\* The finally clause: the isolated database is dropped unless it is kept, the
\* decrypted file removed and the drill, with the backup, committed.
CloseDrill(w, dropped) ==
   /\ Doing(w, "finish")
   /\ ~ dropped => w \in databases
   /\ LET drops == w \in databases /\ drills[w].keep = "no"
          verdict == IF drops THEN Cleanup(workers[w].verdict, dropped)
                     ELSE workers[w].verdict
      IN /\ databases' = IF drops /\ dropped THEN databases \ {w} ELSE databases
         /\ drills' = [drills EXCEPT
               ![w].status = IF verdict = "CORRUPT" THEN "FAILED" ELSE verdict,
               ![w].restored = workers[w].source]
         /\ backups' = IF verdict = "CORRUPT"
                       THEN [backups EXCEPT ![Of(w)].status = "CORRUPT"] ELSE backups
   /\ workers' = [workers EXCEPT ![w] = Idle(Of(w))]
   /\ UNCHANGED <<files, plain, dumps, kills>>

\* An operator drops what a drill left behind.
CleanUp(w) ==
   /\ Doing(w, "idle") /\ w \in databases
   /\ databases' = databases \ {w}
   /\ drills' = [drills EXCEPT ![w] = Nothing]
   /\ UNCHANGED <<backups, files, plain, workers, dumps, kills>>

\* The process dies; its next call starts afresh.
WorkerDies(w) ==
   /\ ~ Doing(w, "idle") /\ kills < BackupCrashBound
   /\ kills' = kills + 1
   /\ workers' = [workers EXCEPT ![w] = Idle(Of(w))]
   /\ UNCHANGED <<backups, files, plain, databases, drills, dumps>>

BakNext ==
   \/ \E b \in Backups : Create(b)
   \/ \E w \in BackupWorkers :
        \/ \E b \in Backups : Execute(w, b) \/ BeginDrill(w, b)
        \/ Claim(w) \/ Dump(w) \/ Encrypt(w) \/ Seal(w) \/ ExecuteFails(w)
        \/ Compare(w) \/ Decrypt(w) \/ CreateDb(w) \/ Restore(w)
        \/ DrillFails(w) \/ CleanUp(w) \/ WorkerDies(w)
        \/ \E dropped \in BOOLEAN : CloseDrill(w, dropped)

BakSpec == BakInit /\ [][BakNext]_bakVars

-----------------------------------------------------------------------------
(* Properties.                                                             *)

(* The plain dump of an encrypted backup does not outlive the attempts     *)
(* that made it, however they end: it is on disk only while one of them    *)
(* runs, or when a process died on it.                                     *)
NoPlainDump == \A b \in Backups : plain[b] # 0 => Executing(b) # {} \/ kills > 0

(* The database of a drill that was to drop it is left behind only when    *)
(* the drill says FAILED, is still under way, or died.                     *)
DrillsCleanUp ==
   \A w \in databases :
      /\ drills[w].isolated = "yes"
      /\ drills[w].keep = "no" /\ Doing(w, "idle") /\ kills = 0 => drills[w].status = "FAILED"

(* A drill that PASSED restored the dump whose checksum its backup holds,  *)
(* although the file is read twice: unless another record names the same   *)
(* file or two executions of the backup overlapped, nothing rewrites the   *)
(* file of a COMPLETED backup.                                             *)
PassedIsRecorded ==
   \A w \in BackupWorkers :
      drills[w] # Nothing /\ ~ (\E b \in Backups \ {drills[w].backup} :
                                  backups[b].path = backups[drills[w].backup].path)
         => (drills[w].status = "PASSED" /\ backups[drills[w].backup].overlapped = "no"
               => drills[w].restored = backups[drills[w].backup].checksum)

(* Backups and drills leave nothing behind that they do not report, and a  *)
(* drill that passed restored what its backup recorded.                    *)
BackupsAreClean == BakTypeOK /\ NoPlainDump /\ DrillsCleanUp /\ PassedIsRecorded
=============================================================================
