---------------------------- MODULE MCAfterSigning ----------------------------
(* What happens around and after the signing of a case: events to webhook
   endpoints, mails to signers, downloads, gallring, export to the archive, the
   rotation of the key that encrypts personal data, and an evidence package that
   comes back to be verified; the lists in which all this is read, page by page;
   and what it rests on, the object storage and the connections to the databases.
   The parts share no state, so one instance checks them side by side: a behaviour
   is about the part it starts in, and the others stay as they began.          *)
EXTENDS WebhookDelivery, EmailDelivery, DownloadGrants,
        Retention, ArchiveExport, KeyRotation, Listing, ObjectStorage, Connections,
        EvidenceZip

CONSTANTS e1, e2, j1, j2, h1, h2, m1, m2, m3, s1, s2, d1, d2, v1, v2,
          c1, c2, o1, o2, g1, g2, w1, w2, n1, n2, r1, r2, none

TwoEndpoints == {e1, e2}
TwoJobs == {j1, j2}
TwoHandlers == {h1, h2}
ThreeMessages == {m1, m2, m3}
TwoSenders == {s1, s2}
TwoGrants == {d1, d2}
TwoVisitors == {v1, v2}
TwoCases == {c1, c2}
OneErasable == {c1}
TwoOfficials == {o1, o2}
TwoRuns == {g1, g2}
TwoWorkers == {w1, w2}
TwoNodes == {n1, n2}
TwoRows == {r1, r2}
Complete == [mode |-> "ELECTRONIC_SIGNATURE", documents |-> {[profile |-> "PDF/A-2b"]},
             signatures |-> {[signer |-> s1, artifact |-> r1, report |-> r2]}, identities |-> {s1}]
\* The second case lacks the proof of who signed one of its two signatures.
TwoDossiers == [c \in TwoCases |-> IF c = c1 THEN Complete ELSE
                  [Complete EXCEPT !.signatures = @ \cup {[signer |-> s2, artifact |-> r1, report |-> r2]}]]
ContentAndEvidence == <<"content", "decision.pdf">> :> r1 @@ <<"signers", "visible-data.txt">> :> r2
BothPacked == [c \in TwoCases |-> ContentAndEvidence]
ThreeRows == 1..3
AllLists == {"cases", "requests", "templates", "offsets"}
OneProtected == [c \in TwoCases |-> IF c = c1 THEN "SEKRETESSMARKERING" ELSE "NONE"]

OneKey == {m1}
OneSource == {m2}
TwoContents == {r1, r2}
ThreeConnections == {e1, e2, j1}
OneEach == [n \in ThreeConnections |-> CASE n = e1 -> "control" [] n = e2 -> "data" [] OTHER -> "queue"]
ThreeRequests == ThreeMessages
TwoOrganisations == {c1, c2}

TwoBytes == {r1, r2}
OneArtifact == {"tic-signature.xml"}
OneZDocument == {d1}
OneZSigner == {s1}
\* The worst case: the checksum tells no two files apart.
Colliding == [b \in TwoBytes |-> "same"]

\* Officials are interchangeable, and so are gallring runs and workers.
Symmetry == Permutations(TwoOfficials) \cup Permutations(TwoRuns) \cup Permutations(TwoWorkers)

VARIABLE part

(* A case to be archived and then deleted is queued, approved and erased in the
   same steps as one that is deleted: the mode is left out of this instance.   *)

leavingVars == <<webhookVars, emailVars, grantVars>>
recordVars == <<retentionVars, archiveVars, keyVars, listingVars>>
baseVars == <<storageVars, connectionVars, zipVars>>

Init == /\ part \in {"webhook", "mail", "grant", "retention", "archive", "keys", "pages", "storage", "pools", "package"}
        /\ WebhookInit /\ EmailInit /\ GrantInit
        /\ RetentionInit /\ ArchiveInit /\ KeyInit /\ ListingInit
        /\ StorageInit /\ ConnectionsInit
        /\ part # "retention" => policyMode = "retain_forever"
        /\ policyMode # "archive_then_delete"
        /\ part # "archive" => \A c \in ACase : acase[c].closedAt
        /\ part # "keys" => Stored = {}
        /\ part # "pages" => list = "cases"
        /\ part # "storage" => backend = "s3" /\ bucket = {}
        /\ IF part = "package" THEN ZipInit
           ELSE original = <<>> /\ zip = CreateEvidenceZip(<<>>) /\ damage = 0

LeavingNext ==
    \/ part = "webhook" /\ WebhookNext /\ UNCHANGED <<emailVars, grantVars>>
    \/ part = "mail" /\ EmailNext /\ UNCHANGED <<webhookVars, grantVars>>
    \/ part = "grant" /\ GrantNext /\ UNCHANGED <<webhookVars, emailVars>>

RecordNext ==
    \/ part = "retention" /\ RetentionNext /\ UNCHANGED <<archiveVars, keyVars, listingVars>>
    \/ part = "archive" /\ ArchiveNext /\ UNCHANGED <<retentionVars, keyVars, listingVars>>
    \/ part = "keys" /\ KeyNext /\ UNCHANGED <<retentionVars, archiveVars, listingVars>>
    \/ part = "pages" /\ ListingNext /\ UNCHANGED <<retentionVars, archiveVars, keyVars>>

BaseNext ==
    \/ part = "storage" /\ StorageNext /\ UNCHANGED <<connectionVars, zipVars>>
    \/ part = "pools" /\ ConnectionsNext /\ UNCHANGED <<storageVars, zipVars>>
    \/ part = "package" /\ ZipNext /\ UNCHANGED <<storageVars, connectionVars>>

Next == /\ \/ LeavingNext /\ UNCHANGED <<recordVars, baseVars>>
           \/ RecordNext /\ UNCHANGED <<leavingVars, baseVars>>
           \/ BaseNext /\ UNCHANGED <<leavingVars, recordVars>>
        /\ UNCHANGED part

Spec == Init /\ [][Next]_<<leavingVars, recordVars, baseVars, part>>

(* Every variable of the ten parts keeps its type; in particular no download
   grant is redeemed more often than its maximum_uses, however many visitors
   come at once, and a column's counter of re-encrypted rows never exceeds the
   rows that were counted.                                                     *)
AfterSigningTypeOK ==
    /\ WebhookTypeOK /\ EmailTypeOK /\ GrantTypeOK
    /\ RetentionTypeOK /\ ArchiveTypeOK /\ KeyTypeOK /\ ListingTypeOK
    /\ StorageTypeOK /\ ConnectionsTypeOK /\ ZipTypeOK
===============================================================================
