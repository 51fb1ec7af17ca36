---------------------------- MODULE EvidenceChain ----------------------------
(***************************************************************************)
(* Evidence packs, supply chain records and attestations of one run        *)
(* (EvidenceService, SupplyChainService).  A pack is written to a          *)
(* directory and chained to the pack before it; an attestation is chained  *)
(* to the attestation before it; a record changes the completeness the run *)
(* reports.  Each of the three reads first and commits later, so calls may *)
(* overlap.  A manifest is the number of the build that wrote it, a hash   *)
(* is its preimage; alone records that no other call of its kind was under *)
(* way.                                                                    *)
(***************************************************************************)
EXTENDS Naturals, Sequences, FiniteSets

CONSTANTS Builders, Attesters, Ingesters,
          Mandatory,   \* MANDATORY_SUPPLY_CHAIN_TYPES
          Signing,     \* whether a signing key is configured
          BuildBound, AttestBound, FlawBound

ASSUME EvidenceAssumption ==
   /\ IsFiniteSet(Builders)
   /\ BuildBound \in Nat /\ AttestBound \in Nat /\ FlawBound \in Nat

VARIABLES packs, dirs, builders, builds, records, reported, ingesters,
          attestations, attesters, flaws

evidenceVars == <<packs, dirs, builders, builds, records, reported, ingesters,
                  attestations, attesters, flaws>>
packVars == <<packs, dirs, builders, builds>>
recordVars == <<records, reported, ingesters>>
attestVars == <<attestations, attesters>>

\* Directory 0 is named after the run, the others after their build.
Dirs == 0 .. BuildBound
Damaged == BuildBound + 1

EvidencePack == [dir : Dirs, manifest : 0 .. Damaged, previous : 0 .. BuildBound,
                 status : {"UNVERIFIED", "UNSIGNED", "VALID", "INVALID"},
                 alone : {"yes", "no"}]
SupplyChainRecord == [status : {"ABSENT", "FAILED", "PASSED"}, pack : 0 .. BuildBound]
Attestation == [previous : 0 .. AttestBound, status : {"VALID", "INVALID"},
                alone : {"yes", "no"}]

Builder == [pc : {"idle", "write", "seal", "insert"}, build : 0 .. BuildBound, dir : Dirs,
            manifest : 0 .. Damaged, previous : 0 .. BuildBound, alone : {"yes", "no"}]

NoBuild == [pc |-> "idle", build |-> 0, dir |-> 0, manifest |-> 0, previous |-> 0,
            alone |-> "yes"]
NoAttest == [pc |-> "idle", previous |-> 0, alone |-> "yes"]
NoIngest == [pc |-> "idle", result |-> "INCOMPLETE"]

EviTypeOK ==
   /\ packs \in Seq(EvidencePack) /\ Len(packs) <= BuildBound
   /\ dirs \in [Dirs -> 0 .. Damaged]
   /\ builders \in [Builders -> Builder]
   /\ records \in [Mandatory -> SupplyChainRecord]
   /\ reported \in {"INCOMPLETE", "COMPLETE"}
   /\ attestations \in Seq(Attestation) /\ Len(attestations) <= AttestBound

EviInit ==
   /\ packs = <<>> /\ dirs = [d \in Dirs |-> 0]
   /\ builders = [b \in Builders |-> NoBuild] /\ builds = 0
   /\ records = [t \in Mandatory |-> [status |-> "ABSENT", pack |-> 0]]
   /\ reported = "INCOMPLETE"
   /\ ingesters = [i \in Ingesters |-> NoIngest]
   /\ attestations = <<>> /\ attesters = [a \in Attesters |-> NoAttest]
   /\ flaws = 0

-----------------------------------------------------------------------------
(* Evidence packs                                                          *)

Overlapping(b) == \E o \in Builders \ {b} : builders[o].pc # "idle"

\* The step of a builder spoils the solitude of every other one under way.
Moved(b, local) ==
   [o \in Builders |-> IF o = b THEN local
                       ELSE IF builders[o].pc = "idle" THEN builders[o]
                       ELSE [builders[o] EXCEPT !.alone = "no"]]

\* The first pack takes the directory of the run, the next ones their own.
OwnDirectory(n) == IF packs = <<>> THEN 0 ELSE n
RunDirectory(n) == 0
Directory(n) == OwnDirectory(n)

BeginBuild(b) ==
   /\ builders[b].pc = "idle" /\ builds < BuildBound
   /\ builds' = builds + 1
   /\ builders' = Moved(b, [NoBuild EXCEPT !.pc = "write", !.build = builds + 1,
                              !.dir = Directory(builds + 1),
                              !.alone = IF Overlapping(b) THEN "no" ELSE "yes"])
   /\ UNCHANGED <<packs, dirs, recordVars, attestVars, flaws>>

\* Everything the manifest reports is read and the files are written.
WriteManifest(b) ==
   /\ builders[b].pc = "write"
   /\ dirs' = [dirs EXCEPT ![builders[b].dir] = builders[b].build]
   /\ builders' = Moved(b, [builders[b] EXCEPT !.pc = "seal"])
   /\ UNCHANGED <<packs, builds, recordVars, attestVars, flaws>>

\* The manifest is hashed from disk, the pack chained to the latest row.
PreviousPack == Len(packs)

SealManifest(b) ==
   /\ builders[b].pc = "seal"
   /\ builders' = Moved(b, [builders[b] EXCEPT !.pc = "insert",
                              !.manifest = dirs[builders[b].dir],
                              !.previous = PreviousPack])
   /\ UNCHANGED <<packs, dirs, builds, recordVars, attestVars, flaws>>

\* Records that belong to no pack yet are attached to the new one.
Attached(n) == [t \in Mandatory |-> IF records[t].status # "ABSENT" /\ records[t].pack = 0
                                    THEN [records[t] EXCEPT !.pack = n] ELSE records[t]]
Attach(n) == Attached(n)

InsertPack(b) ==
   /\ builders[b].pc = "insert"
   /\ packs' = Append(packs, [dir |-> builders[b].dir, manifest |-> builders[b].manifest,
                              previous |-> builders[b].previous, status |-> "UNVERIFIED",
                              alone |-> builders[b].alone])
   /\ records' = Attach(Len(packs'))
   /\ builders' = Moved(b, NoBuild)
   /\ UNCHANGED <<dirs, builds, reported, ingesters, attestVars, flaws>>

BuilderDies(b) ==
   /\ builders[b].pc # "idle" /\ flaws < FlawBound
   /\ flaws' = flaws + 1
   /\ builders' = Moved(b, NoBuild)
   /\ UNCHANGED <<packs, dirs, builds, recordVars, attestVars>>

\* A file of the evidence root is lost or altered.
DamageFile(d) ==
   /\ dirs[d] \notin {0, Damaged} /\ flaws < FlawBound
   /\ flaws' = flaws + 1
   /\ dirs' = [dirs EXCEPT ![d] = Damaged]
   /\ UNCHANGED <<packs, builders, builds, recordVars, attestVars>>

\* The manifest on disk is the recorded one and the predecessor is the row
\* before it.
ManifestMatches(p) == dirs[packs[p].dir] = packs[p].manifest
ChainMatches(p) == packs[p].previous = p - 1
PackVerdict(p) ==
   IF ~ (ManifestMatches(p) /\ ChainMatches(p)) THEN "INVALID"
   ELSE IF Signing = "yes" THEN "VALID" ELSE "UNSIGNED"

VerifyPack(p) ==
   /\ packs' = [packs EXCEPT ![p].status = PackVerdict(p)]
   /\ UNCHANGED <<dirs, builders, builds, recordVars, attestVars, flaws>>

-----------------------------------------------------------------------------
(* Supply chain records                                                    *)

Successful == {t \in Mandatory : records[t].status = "PASSED"}
Counted == Successful
Completeness == IF Mandatory \subseteq Counted THEN "COMPLETE" ELSE "INCOMPLETE"

\* A record is checked against its digest and its links, and committed.
IngestRecord(i, t, status) ==
   /\ ingesters[i].pc = "idle" /\ records[t].status = "ABSENT"
   /\ records' = [records EXCEPT ![t].status = status]
   /\ ingesters' = [ingesters EXCEPT ![i].pc = "measure"]
   /\ UNCHANGED <<packVars, reported, attestVars, flaws>>

Measure(i) ==
   /\ ingesters[i].pc = "measure"
   /\ ingesters' = [ingesters EXCEPT ![i] = [pc |-> "refresh", result |-> Completeness]]
   /\ UNCHANGED <<packVars, records, reported, attestVars, flaws>>

RefreshCompleteness(i) ==
   /\ ingesters[i].pc = "refresh"
   /\ reported' = ingesters[i].result
   /\ ingesters' = [ingesters EXCEPT ![i] = NoIngest]
   /\ UNCHANGED <<packVars, records, attestVars, flaws>>

-----------------------------------------------------------------------------
(* Attestations                                                            *)

LatestAttestation == Len(attestations)
PreviousAttestation == LatestAttestation

Attest(a) ==
   /\ Signing = "yes"
   /\ attesters[a].pc = "idle" /\ Len(attestations) < AttestBound
   /\ attesters' = [o \in Attesters |->
         IF o = a THEN [pc |-> "insert", previous |-> PreviousAttestation,
                        alone |-> IF \E x \in Attesters \ {a} : attesters[x].pc # "idle"
                                  THEN "no" ELSE "yes"]
         ELSE [attesters[o] EXCEPT !.alone = "no"]]
   /\ UNCHANGED <<packVars, recordVars, attestations, flaws>>

\* The row is committed and verified against the row before it.
VerifyAttestation(previous) == IF previous = Len(attestations) THEN "VALID" ELSE "INVALID"

InsertAttestation(a) ==
   /\ attesters[a].pc = "insert" /\ Len(attestations) < AttestBound
   /\ attestations' = Append(attestations,
         [previous |-> attesters[a].previous, alone |-> attesters[a].alone,
          status |-> VerifyAttestation(attesters[a].previous)])
   /\ attesters' = [attesters EXCEPT ![a] = NoAttest]
   /\ UNCHANGED <<packVars, recordVars, flaws>>

PackNext ==
   \/ \E b \in Builders : \/ BeginBuild(b) \/ WriteManifest(b) \/ SealManifest(b)
                          \/ InsertPack(b) \/ BuilderDies(b)
   \/ \E d \in Dirs : DamageFile(d)
   \/ \E p \in 1 .. Len(packs) : VerifyPack(p)
RecordNext ==
   \E i \in Ingesters : \/ \E t \in Mandatory, s \in {"FAILED", "PASSED"} : IngestRecord(i, t, s)
                        \/ Measure(i) \/ RefreshCompleteness(i)
AttestNext == \E a \in Attesters : Attest(a) \/ InsertAttestation(a)

EviNext == PackNext \/ RecordNext \/ AttestNext
EviSpec == EviInit /\ [][EviNext]_evidenceVars

-----------------------------------------------------------------------------
(* Properties.                                                             *)

(* A pack whose build overlapped no other verifies for as long as its      *)
(* files are intact, whatever builds came before it, died or follow: the   *)
(* later packs write elsewhere and chain behind it.                        *)
SolitaryPacksVerify ==
   \A p \in 1 .. Len(packs) :
      packs[p].alone = "yes" /\ dirs[packs[p].dir] # Damaged => PackVerdict(p) # "INVALID"

(* The run reports COMPLETE only when every mandatory record has passed,   *)
(* although the report is computed before it is written.                   *)
CompleteIsTrue == reported = "COMPLETE" => Successful = Mandatory

(* A record belongs to the pack it was first attached to.                  *)
AttachmentIsFinal ==
   [][\A t \in Mandatory : records[t].pack # 0 => records'[t].pack = records[t].pack]_evidenceVars

(* An attestation made while no other was under way is VALID, whatever     *)
(* forks the overlapping ones have left in the chain.                      *)
SolitaryAttestationsVerify ==
   \A n \in 1 .. Len(attestations) :
      attestations[n].alone = "yes" => attestations[n].status = "VALID"

(* Packs, records and attestations of a run stay verifiable when others    *)
(* are built, ingested and made, and when a process dies on them.          *)
EvidenceVerifies ==
   /\ [](EviTypeOK /\ SolitaryPacksVerify /\ CompleteIsTrue /\ SolitaryAttestationsVerify)
   /\ AttachmentIsFinal
=============================================================================
