------------------------------- MODULE EvidenceZip -------------------------------
(* The evidence package as a ZIP: what goes into it, and what the verifier at the
   public portal makes of a ZIP it is handed, which somebody may have opened,
   changed or cut in the meantime.  A digest tells all bytes apart, the checksum
   of an entry only those that Crc tells apart.  A place in the ZIP is named for
   the file that was packed there.                                              *)
EXTENDS Naturals, Functions

CONSTANTS
    ZDocument,      \* the documents of the case
    ZSigner,        \* its verified signers
    Artifact,       \* what is kept of each: the six files of a verification
    Bytes,          \* what a file may hold
    Crc,            \* its CRC-32, by bytes
    MaxDamage       \* bound: changes made to a package

ASSUME ZipAssumption ==
    /\ MaxDamage \in Nat
    /\ Artifact \cap {"manifest.json", "checksums.sha256"} = {}

VARIABLES
    original,       \* the evidence files that were packed: path -> bytes
    zip,            \* the package as it is handed in
    damage          \* how often it was changed

zipVars == <<original, zip, damage>>

ManifestPath == <<"manifest.json">>
ChecksumPath == <<"checksums.sha256">>

(* Documents, the files of every signer, validation reports, the audit events of
   the case and the receipt; the package of one signer has no documents.        *)
EvidencePaths(signer) ==
    IF signer # "all" THEN {<<a>> : a \in Artifact} \cup {<<"audit-events.json">>}
    ELSE {<<"documents", d>> : d \in ZDocument} \cup {<<"signers", s, a>> : s \in ZSigner, a \in Artifact}
         \cup {<<"reports", d>> : d \in ZDocument} \cup {<<"audit", "case-audit-events.json">>, <<"signing-receipt.pdf">>}

-------------------------------------------------------------------------------
(* Packing. *)
CreateEvidenceManifest(files) == [manifest |-> {[path |-> p, sha256 |-> files[p]] : p \in DOMAIN files}]
ChecksumLines(files) == [lines |-> {[path |-> p, sha256 |-> files[p]] : p \in DOMAIN files}]

AllFiles(files) ==
    [p \in DOMAIN files \cup {ManifestPath, ChecksumPath} |->
        CASE p = ManifestPath -> CreateEvidenceManifest(files)
          [] p = ChecksumPath -> ChecksumLines(files)
          [] OTHER -> files[p]]

CrcOf(bytes) == IF bytes \in Bytes THEN Crc[bytes] ELSE "same"

(* A local entry for every file, then a directory of where each is. *)
CreateEvidenceZip(files) ==
    [local |-> [p \in DOMAIN files |-> [path |-> p, crc |-> CrcOf(files[p]), bytes |-> files[p]]],
     central |-> [p \in DOMAIN files |-> [path |-> p, crc |-> CrcOf(files[p]), at |-> p]]]

-------------------------------------------------------------------------------
(* Verifying. *)
CentralPaths(z) == {z.central[i].path : i \in DOMAIN z.central}
UniquePaths(z) == \A i, k \in DOMAIN z.central : i # k => z.central[i].path # z.central[k].path

(* Every entry of the directory leads to a local entry that says the same of
   itself and whose bytes have the checksum.                                    *)
ParseEvidenceZip(z) ==
    /\ DOMAIN z.central # {} /\ UniquePaths(z)
    /\ \A i \in DOMAIN z.central :
          LET e == z.central[i] IN
          /\ e.at \in DOMAIN z.local
          /\ z.local[e.at].path = e.path /\ z.local[e.at].crc = e.crc
          /\ CrcOf(z.local[e.at].bytes) = e.crc

Parsed(z) == [p \in CentralPaths(z) |-> 
                 z.local[z.central[CHOOSE i \in DOMAIN z.central : z.central[i].path = p].at].bytes]

IsManifest(bytes) ==
    /\ bytes \notin Bytes /\ DOMAIN bytes = {"manifest"}
    /\ \A e, f \in bytes.manifest : e.path = f.path => e = f
IsChecksumFile(bytes) == bytes \notin Bytes /\ DOMAIN bytes = {"lines"}

Missing(entries, files) == {e \in entries : e.path \notin DOMAIN files}
Mismatched(entries, files) == {e \in entries \ Missing(entries, files) : files[e.path] # e.sha256}
Unexpected(entries, files) == DOMAIN files \ {e.path : e \in entries}

\* Files the manifest does not name are let through.
VerifyListedFiles(entries, files) == Missing(entries, files) = {} /\ Mismatched(entries, files) = {}

VerifyEvidenceFiles(entries, files) ==
    Missing(entries, files) = {} /\ Mismatched(entries, files) = {} /\ Unexpected(entries, files) = {}

(* The same entries, none twice. *)
VerifyChecksumFile(entries, lines) ==
    /\ \A e, f \in lines : e.path = f.path => e = f
    /\ entries = lines

VerifyEvidenceZip(z) ==
    LET files == Parsed(z)
        evidence == [p \in DOMAIN files \ {ManifestPath, ChecksumPath} |-> files[p]]
    IN /\ ParseEvidenceZip(z)
       /\ {ManifestPath, ChecksumPath} \subseteq DOMAIN files
       /\ IsManifest(files[ManifestPath]) /\ IsChecksumFile(files[ChecksumPath])
       /\ LET entries == files[ManifestPath].manifest IN
          /\ VerifyEvidenceFiles(entries, evidence)
          /\ VerifyChecksumFile(entries, files[ChecksumPath].lines)
          /\ \A e \in entries : e.path \notin {ManifestPath, ChecksumPath}

-------------------------------------------------------------------------------
(* A package is built, of the case or of a signer, and comes back. *)
ZipInit ==
    /\ \E signer \in {"all"} \cup ZSigner : original \in [EvidencePaths(signer) -> Bytes]
    /\ zip = CreateEvidenceZip(AllFiles(original))
    /\ damage = 0

(* What a file may hold after a change: other bytes, or another list with an entry
   changed or left out.                                                         *)
Rewritten(bytes) ==
    IF bytes \in Bytes THEN Bytes
    ELSE {[x \in DOMAIN bytes |-> bytes[x] \ {e}] : e \in UNION {bytes[x] : x \in DOMAIN bytes}}
         \cup {[x \in DOMAIN bytes |-> (bytes[x] \ {e}) \cup {[e EXCEPT !.sha256 = b]}] :
                  e \in UNION {bytes[x] : x \in DOMAIN bytes}, b \in Bytes}

Damaged(local, central) ==
    /\ damage < MaxDamage /\ damage' = damage + 1
    /\ zip' = [local |-> local, central |-> central]
    /\ UNCHANGED original

(* Bytes are changed in place, or the file is replaced with its checksums. *)
ChangeBytes(i) ==
    \E b \in Rewritten(zip.local[i].bytes) :
       \/ Damaged([zip.local EXCEPT ![i].bytes = b], zip.central)
       \/ Damaged([zip.local EXCEPT ![i].bytes = b, ![i].crc = CrcOf(b)],
                  [k \in DOMAIN zip.central |->
                     IF zip.central[k].at = i THEN [zip.central[k] EXCEPT !.crc = CrcOf(b)] ELSE zip.central[k]])

(* An entry is taken out of the directory, leads elsewhere or has another name. *)
RemoveEntry(k) == Damaged(zip.local, Restrict(zip.central, DOMAIN zip.central \ {k}))
Redirect(k, i) == Damaged(zip.local, [zip.central EXCEPT ![k].at = i])
Rename(i, path) == Damaged([zip.local EXCEPT ![i].path = path], zip.central)

Added == <<"added", damage>>
With(entries, entry) == [i \in DOMAIN entries \cup {Added} |-> IF i = Added THEN entry ELSE entries[i]]

AddFile(path, b) ==
    Damaged(With(zip.local, [path |-> path, crc |-> CrcOf(b), bytes |-> b]),
            With(zip.central, [path |-> path, crc |-> CrcOf(b), at |-> Added]))

ZipNext ==
    \/ \E i \in DOMAIN zip.local : ChangeBytes(i) \/ Rename(i, <<"elsewhere">>)
    \/ \E k \in DOMAIN zip.central : RemoveEntry(k) \/ \E i \in DOMAIN zip.local : Redirect(k, i)
    \/ \E b \in Bytes, path \in {<<"elsewhere">>} \cup DOMAIN original : AddFile(path, b)

ZipSpec == ZipInit /\ [][ZipNext]_zipVars

-------------------------------------------------------------------------------
ZipTypeOK ==
    /\ damage \in 0..MaxDamage /\ \A p \in DOMAIN original : original[p] \in Bytes
    /\ \A i \in DOMAIN zip.central : zip.central[i].at \in DOMAIN zip.local

(* A package in which fewer than three things were changed either is refused or
   still gives out exactly the evidence files that were packed: to pass a changed
   file the manifest and the list of checksums must be changed with it
   (verifyEvidenceZip, verifyEvidenceFiles, verifyChecksumFile).                *)
DamageIsSeen ==
    damage < 3 /\ VerifyEvidenceZip(zip) =>
        \A p \in CentralPaths(zip) \cup DOMAIN original :
            p \in {ManifestPath, ChecksumPath} \/ (p \in DOMAIN original /\ Parsed(zip)[p] = original[p])

================================================================================
