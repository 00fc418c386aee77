----------------------------- MODULE ArchivePackaging -----------------------------
(***************************************************************************)
(* What is packed for the preservation archive: the case as its evidence   *)
(* tables describe it, whether it may be archived, the package with its    *)
(* manifest, and the FGS descriptor.  A digest is the thing it is of.      *)
(***************************************************************************)
EXTENDS Naturals, Sequences, ProtectedIdentity

CONSTANT Null       \* null

RefusalCode == {"ARCHIVE_CASE_NOT_CLOSED", "ARCHIVE_DOCUMENT_MISSING", "ARCHIVE_PROFILE_NOT_VERIFIED",
                "ARCHIVE_SIGNATURE_EVIDENCE_MISSING", "ARCHIVE_IDENTITY_EVIDENCE_MISSING",
                "ARCHIVE_AUDIT_TRAIL_MISSING", "ARCHIVE_PATH_INVALID"}

ASSUME NullAssumption == Null \notin RefusalCode

(* A case as loadArchiveCase reads it: whether it is closed, its decision   *)
(* mode, the profile of each document, its signatures with their artifact   *)
(* and validation report, the signers with a passed identity verification,  *)
(* and how many events its audit trail has.                                 *)
PreservationProfile == {"PDF/A-2b", "PDF/A-3b"}

VerifiedProfiles(documents) ==
    {IF d.profile \in PreservationProfile THEN d.profile ELSE Null : d \in documents}

(* A signature that is one electronically has its artifact and its report. *)
SignatureEvidenceMissing(case) ==
    /\ case.mode = "ELECTRONIC_SIGNATURE"
    /\ \/ case.signatures = {}
       \/ \E s \in case.signatures : Null \in {s.artifact, s.report}

(* What is wrong with a case, the first that is found: null when it may be archived. *)
AssertArchivable(case) ==
    IF ~case.closed THEN "ARCHIVE_CASE_NOT_CLOSED"
    ELSE IF case.documents = {} THEN "ARCHIVE_DOCUMENT_MISSING"
    ELSE IF Null \in VerifiedProfiles(case.documents) THEN "ARCHIVE_PROFILE_NOT_VERIFIED"
    ELSE IF SignatureEvidenceMissing(case) THEN "ARCHIVE_SIGNATURE_EVIDENCE_MISSING"
    ELSE IF \E s \in case.signatures : s.signer \notin case.identities THEN "ARCHIVE_IDENTITY_EVIDENCE_MISSING"
    ELSE IF case.trail = 0 THEN "ARCHIVE_AUDIT_TRAIL_MISSING"
    ELSE Null

(* What the package shows of each signer's personal number: masked, or not  *)
(* at all when the level of protection or the want of an assessment says so.*)
MaskedIdentifiers(case, level, assessed) ==
    {[signer |-> s,
      identifier |-> IF "personalNumber" \in Disclosed(NormaliseProtectionLevel(level), "ARCHIVE_EXPORT",
                                                       {"personalNumber"}, assessed)
                     THEN "masked" ELSE "placeholder"] : s \in case.identities}

-------------------------------------------------------------------------------
(* The files of the evidence package: those under a directory the archive   *)
(* knows keep their path, the others are filed as evidence under one name.  *)
Directory == {"content", "metadata", "evidence"}

PackagePath(path) == IF Len(path) > 1 /\ path[1] \in Directory THEN path ELSE <<"evidence", path>>

Entries(files) ==
    {[path |-> PackagePath(p), sha256 |-> files[p], category |-> PackagePath(p)[1]] : p \in DOMAIN files}

\* Two levels and no more, so a file in a directory below one of these is refused.
PathsValid(files) ==
    /\ \A p \in DOMAIN files : Len(PackagePath(p)) = 2
    /\ \A p, q \in DOMAIN files : PackagePath(p) = PackagePath(q) => p = q

BuildArchivePackage(case, files, level, assessed) ==
    LET verdict == AssertArchivable(case) IN
    IF verdict # Null THEN [refused |-> verdict]
    ELSE IF ~PathsValid(files) THEN [refused |-> "ARCHIVE_PATH_INVALID"]
    ELSE IF \A e \in Entries(files) : e.category # "content" THEN [refused |-> "ARCHIVE_DOCUMENT_MISSING"]
    ELSE [refused |-> Null, entries |-> Entries(files), mode |-> case.mode,
          signatures |-> case.signatures, trail |-> case.trail,
          identities |-> MaskedIdentifiers(case, level, assessed)]

(* The organisation whose name is not known is named by its tenant. *)
AgentsFor(archivist, legalName, tenant) ==
    LET organisation == IF legalName = Null THEN tenant ELSE legalName
    IN [archivist |-> archivist, creator |-> organisation, submitter |-> organisation]

(* An identifier is derived from path and digest, the time is that of the   *)
(* case: nothing but the package and the agents decides the descriptor.     *)
BuildFgsPackage(package, agents) ==
    IF \E role \in DOMAIN agents : agents[role] = Null THEN [refused |-> "ARCHIVE_PROFILE_NOT_VERIFIED"]
    ELSE [refused |-> Null, agents |-> agents, manifest |-> package,
          files |-> {[id |-> <<e.path, e.sha256>>,
                      use |-> CASE e.category = "content" -> "Datafile"
                                [] e.category = "metadata" -> "Metadata"
                                [] OTHER -> "Evidence"] : e \in package.entries}]
==================================================================================
