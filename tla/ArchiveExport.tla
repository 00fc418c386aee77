------------------------------ MODULE ArchiveExport ------------------------------
(***************************************************************************)
(* The export of a closed case to the preservation archive: an operator    *)
(* moves the case to 'archiving' and enqueues a job; a worker builds the   *)
(* package from the case, its evidence package and its audit trail, stores *)
(* package and descriptor as immutable objects and records their digests.  *)
(* Building twice gives the same bytes only while the audit trail and the  *)
(* assessments of protected signers stay as they are.                      *)
(***************************************************************************)
EXTENDS ArchivePackaging

CONSTANTS
    ACase,          \* the cases an operator may have archived
    AWorker,        \* the workers that run ARCHIVE_EXPORT
    Dossier,        \* case -> what its evidence tables say: documents, mode, signatures, identities
    PackageFiles,   \* case -> the files of its ready evidence package by path, or none
    LevelOf,        \* case -> the stored protection level of its signers
    Archivist,      \* ARCHIVE_ARCHIVIST_NAME
    ANone,          \* nothing
    MaxTrail,       \* bound: the events in a case's audit trail
    MaxALosses      \* bound: how many workers, leases, calls and files are lost

ASSUME ArchiveAssumption == MaxTrail \in Nat \ {0} /\ MaxALosses \in Nat

VARIABLES
    acase,          \* case -> status and whether completed_at is set
    trail,          \* case -> the length of its audit trail
    assessed,       \* cases whose protected signer has an active assessment
    exportRow,      \* case -> its row in archive_exports
    sip,            \* case -> the package stored for it, if any
    descriptor,     \* case -> the sip.xml stored for it, if any
    ajob,           \* case -> its durable job
    archiver,       \* worker -> what its handler is doing
    alosses         \* how many workers, leases, calls and files were lost

archiveVars == <<acase, trail, assessed, exportRow, sip, descriptor, ajob, archiver, alosses>>

ArchiveMaxAttempts == 3
NoExport == [status |-> "none", package |-> ANone, descriptor |-> ANone]
Unemployed == [case |-> ANone, at |-> "idle", built |-> ANone]

ArchiveInit ==
    /\ acase \in [ACase -> {[status |-> "completed", closedAt |-> TRUE],
                            [status |-> "cancelled", closedAt |-> FALSE]}]
    /\ trail = [c \in ACase |-> 1]
    /\ assessed = {}
    /\ exportRow = [c \in ACase |-> NoExport]
    /\ sip = [c \in ACase |-> {}]
    /\ descriptor = [c \in ACase |-> {}]
    /\ ajob = [c \in ACase |-> [status |-> "none", attempts |-> 0, owner |-> ANone]]
    /\ archiver = [w \in AWorker |-> Unemployed]
    /\ alosses = 0

--------------------------------------------------------------------------------
(* What happens around the export. *)

SubmitForArchiving(c) ==
    /\ acase[c].status \in {"completed", "cancelled"}
    /\ acase' = [acase EXCEPT ![c].status = "archiving"]
    /\ ajob' = [ajob EXCEPT ![c].status = "pending"]
    /\ UNCHANGED <<trail, assessed, exportRow, sip, descriptor, archiver, alosses>>

(* A later event about the case, such as a download link issued for it. *)
EventLogged(c) ==
    /\ trail[c] < MaxTrail
    /\ trail' = [trail EXCEPT ![c] = @ + 1]
    /\ UNCHANGED <<acase, assessed, exportRow, sip, descriptor, ajob, archiver, alosses>>

(* An assessment holds for at most twelve hours or until it is revoked. *)
AssessmentChanges(c) ==
    /\ LevelOf[c] \notin {"NONE", "FINGERADE_PERSONUPPGIFTER"}
    /\ assessed' = IF c \in assessed THEN assessed \ {c} ELSE assessed \cup {c}
    /\ UNCHANGED <<acase, trail, exportRow, sip, descriptor, ajob, archiver, alosses>>

--------------------------------------------------------------------------------
(* The worker. *)

ASettled(c, w, ending) ==
    LET j == ajob[c] IN
    IF j.status # "running" \/ j.owner # w THEN j
    ELSE [j EXCEPT !.owner = ANone,
                   !.status = CASE ending = "completed" -> "completed"
                                [] ending = "failed" /\ j.attempts < ArchiveMaxAttempts -> "pending"
                                [] OTHER -> "dead"]

AEnd(w, ending) ==
    LET c == archiver[w].case IN
    /\ ajob' = [ajob EXCEPT ![c] = ASettled(c, w, ending)]
    /\ archiver' = [archiver EXCEPT ![w] = Unemployed]

ClaimExport(w, c) ==
    /\ archiver[w] = Unemployed
    /\ ajob[c].status = "pending"
    /\ ajob' = [ajob EXCEPT ![c] = [status |-> "running", attempts |-> @.attempts + 1, owner |-> w]]
    /\ archiver' = [archiver EXCEPT ![w] = [case |-> c, at |-> "load", built |-> ANone]]
    /\ UNCHANGED <<acase, trail, assessed, exportRow, sip, descriptor, alosses>>

LoadCase(w) ==
    LET c == archiver[w].case IN
    /\ archiver[w].at = "load"
    /\ IF exportRow[c].status = "completed" THEN AEnd(w, "completed")
       ELSE IF \/ Archivist = ANone \/ PackageFiles[c] = ANone
               \/ acase[c].status \notin {"archiving", "archived"} THEN AEnd(w, "refused")
       ELSE archiver' = [archiver EXCEPT ![w].at = "row"] /\ UNCHANGED ajob
    /\ UNCHANGED <<acase, trail, assessed, exportRow, sip, descriptor, alosses>>

EnsureExportRow(w) ==
    LET c == archiver[w].case IN
    /\ archiver[w].at = "row"
    /\ exportRow' = [exportRow EXCEPT ![c].status =
                       IF @ \in {"none", "failed", "queued"} THEN "exporting" ELSE @]
    /\ archiver' = [archiver EXCEPT ![w].at = "build"]
    /\ UNCHANGED <<acase, trail, assessed, sip, descriptor, ajob, alosses>>

(* The package and the descriptor, or the refusal, of the case as it is read. *)
CaseFrom(c) ==
    [closed |-> acase[c].closedAt, trail |-> trail[c], mode |-> Dossier[c].mode,
     documents |-> Dossier[c].documents, signatures |-> Dossier[c].signatures,
     identities |-> Dossier[c].identities]

Built(c) == BuildArchivePackage(CaseFrom(c), PackageFiles[c], LevelOf[c], c \in assessed)
Described(package) == BuildFgsPackage(package, AgentsFor(Archivist, Null, "tenant"))

BuildPackage(w) ==
    LET package == Built(archiver[w].case) IN
    /\ archiver[w].at = "build"
    /\ archiver' = IF package.refused = Null /\ Described(package).refused = Null
                   THEN [archiver EXCEPT ![w].at = "package", ![w].built = package]
                   ELSE [archiver EXCEPT ![w].at = "refuse"]
    /\ UNCHANGED <<acase, trail, assessed, exportRow, sip, descriptor, ajob, alosses>>

PutOver(stored, c, built) == [stored EXCEPT ![c] = {built}]

(* An immutable put succeeds when the key is free or holds the same bytes. *)
PutImmutable(stored, c, built) ==
    IF stored[c] \subseteq {built} THEN [stored EXCEPT ![c] = {built}] ELSE stored

StorePackage(w) ==
    LET c == archiver[w].case IN
    /\ archiver[w].at = "package"
    /\ sip' = PutImmutable(sip, c, archiver[w].built)
    /\ IF sip'[c] = {archiver[w].built}
       THEN archiver' = [archiver EXCEPT ![w].at = "descriptor"] /\ UNCHANGED ajob
       ELSE AEnd(w, "failed")
    /\ UNCHANGED <<acase, trail, assessed, exportRow, descriptor, alosses>>

StoreDescriptor(w) ==
    LET c == archiver[w].case IN
    /\ archiver[w].at = "descriptor"
    /\ descriptor' = PutImmutable(descriptor, c, Described(archiver[w].built))
    /\ IF descriptor'[c] = {Described(archiver[w].built)}
       THEN archiver' = [archiver EXCEPT ![w].at = "commit"] /\ UNCHANGED ajob
       ELSE AEnd(w, "failed")
    /\ UNCHANGED <<acase, trail, assessed, exportRow, sip, alosses>>

(* The row, the case, the audit event and the outbox in one transaction. *)
CommitExport(w) ==
    LET c == archiver[w].case IN
    /\ archiver[w].at = "commit"
    /\ exportRow' = [exportRow EXCEPT ![c] = [status |-> "completed", package |-> archiver[w].built,
                                        descriptor |-> Described(archiver[w].built)]]
    /\ acase' = [acase EXCEPT ![c].status = IF @ = "archiving" THEN "archived" ELSE @]
    /\ trail' = [trail EXCEPT ![c] = IF @ < MaxTrail THEN @ + 1 ELSE @]
    /\ AEnd(w, "completed")
    /\ UNCHANGED <<assessed, sip, descriptor, alosses>>

RefuseExport(w) ==
    LET c == archiver[w].case IN
    /\ archiver[w].at = "refuse"
    /\ exportRow' = [exportRow EXCEPT ![c].status = "failed"]
    /\ trail' = [trail EXCEPT ![c] = IF @ < MaxTrail THEN @ + 1 ELSE @]
    /\ AEnd(w, "refused")
    /\ UNCHANGED <<acase, assessed, sip, descriptor, alosses>>

(* A download, an upload or the database fails and the job is retried; or a file
   of the evidence package is not what its row says, which no retry repairs: the
   job is dead and the row stays as it is.                                      *)
ExportFails(w) ==
    /\ alosses < MaxALosses /\ alosses' = alosses + 1
    /\ \/ archiver[w].at \in {"row", "build", "package", "descriptor", "commit"} /\ AEnd(w, "failed")
       \/ archiver[w].at = "build" /\ AEnd(w, "refused")
    /\ UNCHANGED <<acase, trail, assessed, exportRow, sip, descriptor>>

(* The lease runs out, with the worker lost or still at work. *)
ExportLeaseExpires(c) ==
    /\ ajob[c].status = "running"
    /\ alosses < MaxALosses /\ alosses' = alosses + 1
    /\ \/ archiver' = [archiver EXCEPT ![ajob[c].owner] = Unemployed]
       \/ UNCHANGED archiver
    /\ ajob' = [ajob EXCEPT ![c].owner = ANone,
                  ![c].status = IF ajob[c].attempts < ArchiveMaxAttempts THEN "pending" ELSE "dead"]
    /\ UNCHANGED <<acase, trail, assessed, exportRow, sip, descriptor>>

ArchiveNext ==
    \/ \E c \in ACase : SubmitForArchiving(c) \/ EventLogged(c) \/ AssessmentChanges(c)
                        \/ ExportLeaseExpires(c)
    \/ \E w \in AWorker :
          \/ \E c \in ACase : ClaimExport(w, c)
          \/ LoadCase(w) \/ EnsureExportRow(w) \/ BuildPackage(w) \/ StorePackage(w)
          \/ StoreDescriptor(w) \/ CommitExport(w) \/ RefuseExport(w) \/ ExportFails(w)

ArchiveSpec == ArchiveInit /\ [][ArchiveNext]_archiveVars

--------------------------------------------------------------------------------
ArchiveTypeOK ==
    /\ \A c \in ACase :
         /\ acase[c].status \in {"completed", "cancelled", "archiving", "archived"}
         /\ trail[c] \in 0..MaxTrail
         /\ exportRow[c].status \in {"none", "exporting", "completed", "failed"}
         /\ ajob[c].attempts \in 0..ArchiveMaxAttempts
    /\ assessed \subseteq ACase

(* What a completed export says it sent is what is stored, the descriptor   *)
(* describes the stored package, and the package misses nothing the case is *)
(* proved by, however many workers stored what; an archived case keeps its  *)
(* completed export (handleArchiveExport, assertArchivable).                *)
ArchiveRecordTrue ==
    \A c \in ACase :
        LET package == exportRow[c].package IN
        /\ exportRow[c].status = "completed" =>
              /\ sip[c] = {package} /\ descriptor[c] = {exportRow[c].descriptor}
              /\ exportRow[c].descriptor.manifest = package
              /\ \E e \in package.entries : e.category = "content"
              /\ \A d \in Dossier[c].documents : d.profile # Null
              /\ \A s \in Dossier[c].signatures : \E i \in package.identities : i.signer = s.signer
              /\ LevelOf[c] \in {"SKYDDAD_FOLKBOKFORING", "FINGERADE_PERSONUPPGIFTER"} =>
                    \A i \in package.identities : i.identifier = "placeholder"
        /\ acase[c].status = "archived" => exportRow[c].status = "completed"
==================================================================================
