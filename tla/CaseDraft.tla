------------------------------ MODULE CaseDraft ------------------------------
(* A case before it is sent: its documents are uploaded, scanned and converted
   to PDF/A by workers that take the same job more than once, its signers are
   added, and the operator sends it.

   A transaction that runs one statement after another at READ COMMITTED is
   split where another transaction can commit in between: send() lists the
   documents in one statement and counts the unready ones in a later one, and a
   worker that finishes a document looks at the others before it commits.  Rows
   the code locks are modelled as locks: sending holds the case row, head the
   audit chain head of the tenant.                                            *)
EXTENDS DocumentTools, Naturals, FiniteSets

CONSTANTS
    Upload,          \* upload grants; each becomes at most one document
    Office,          \* those of them that are Office files
    Content,         \* files the client may put at the signed URL
    Declared,        \* upload -> the file whose size and digest were declared
    Attachment,      \* those that are attachments, not to be signed
    DraftSigner,
    DocWorker,       \* handlers that may be at work at once
    DNone,
    MaxRenditions,   \* conversions of one document that differ in their bytes
    MaxDLosses       \* crashes, second deliveries of a running job, files put again

ASSUME DraftAssumption ==
    /\ Office \subseteq Upload /\ Attachment \subseteq Upload
    /\ Content \subseteq Files /\ Declared \in [Upload -> Files]
    /\ DNone \notin Upload \cup Content \cup DocWorker
    /\ MaxRenditions \in Nat /\ MaxDLosses \in Nat

VARIABLES
    caseStatus,
    grant,      \* app.upload_grants.status
    named,      \* the file name at the end of its object key
    bytes,      \* what the client put at the signed URL
    version,    \* app.document_versions: status and sha256 (0: as declared, n: rendition n)
    shelf,      \* the immutable objects of a version, 0 while there is none
    scanned,    \* the malware report of a version: the first one is kept
    djob,       \* DOCUMENT_SCAN and DOCUMENT_CANONICALIZE of a version
    docWorker,
    head,       \* the worker that holds the audit chain head, or DNone
    sending,    \* the send in progress: what it read of the documents
    signer, intent,
    lastReady,  \* the document that became ready last
    dlosses

uploadVars == <<grant, named, bytes>>
workVars == <<version, shelf, scanned, djob, docWorker, head, lastReady, dlosses>>
peopleVars == <<signer, intent>>
draftVars == <<caseStatus, uploadVars, workVars, sending, peopleVars>>

Rendition == 0..MaxRenditions
Idle == [at |-> "idle", doc |-> DNone, job |-> "scan", made |-> 0, readies |-> FALSE]
Documents == {u \in Upload : version[u].status # "none"}
Editable == caseStatus \in {"draft", "preparing", "ready"} /\ ~sending.on
(* The mime type of an Office version becomes application/pdf with its digest. *)
StillOffice(u) == u \in Office /\ version[u].digest = 0

DraftInit ==
    /\ caseStatus = "draft"
    /\ grant = [u \in Upload |-> "none"]
    /\ named = [u \in Upload |-> "fits"]
    /\ bytes = [u \in Upload |-> DNone]
    /\ version = [u \in Upload |-> [status |-> "none", digest |-> 0]]
    /\ shelf = [u \in Upload |-> [inspection |-> 0, report |-> 0, canonical |-> 0]]
    /\ scanned = [u \in Upload |-> "none"]
    /\ djob = [u \in Upload |-> [scan |-> "none", canonicalize |-> "none"]]
    /\ docWorker = [w \in DocWorker |-> Idle]
    /\ head = DNone
    /\ sending = [on |-> FALSE, read |-> {}]
    /\ signer = [s \in DraftSigner |-> "none"]
    /\ intent = [s \in DraftSigner |-> {}]
    /\ lastReady = DNone
    /\ dlosses = 0
------------------------------------------------------------------------------
(* The operator: uploads, documents, signers, send and cancel. *)
(* Nobody looks at the name of a PDF again. *)
NamesOf(u) == IF u \in Office THEN Name ELSE {"fits"}

CreateUpload(u, name) ==
    /\ grant[u] = "none" /\ ValidateUploadMetadata(u \in Office, name)
    /\ grant' = [grant EXCEPT ![u] = "issued"]
    /\ named' = [named EXCEPT ![u] = CleanFileName(name)]
    /\ UNCHANGED <<caseStatus, bytes, workVars, sending, peopleVars>>

(* Until the URL runs out, it takes another file as well as the first. *)
ClientPuts(u, f) ==
    /\ grant[u] # "none" /\ bytes[u] # f
    /\ f.same => f = Declared[u]
    /\ bytes' = [bytes EXCEPT ![u] = f]
    /\ bytes[u] # DNone => dlosses < MaxDLosses
    /\ dlosses' = IF bytes[u] # DNone THEN dlosses + 1 ELSE dlosses
    /\ UNCHANGED <<caseStatus, grant, named, version, shelf, scanned, djob, docWorker, head, lastReady,
                   sending, peopleVars>>

(* The size, and a checksum when the store reports one, are compared here; the
   bytes themselves are left to the scan.                                     *)
CompleteUpload(u) ==
    /\ grant[u] = "issued" /\ bytes[u] # DNone /\ bytes[u].sized
    /\ grant' = [grant EXCEPT ![u] = "uploaded"]
    /\ UNCHANGED <<caseStatus, named, bytes, workVars, sending, peopleVars>>

AddDocument(u) ==
    /\ Editable /\ grant[u] = "uploaded"
    /\ grant' = [grant EXCEPT ![u] = "consumed"]
    /\ version' = [version EXCEPT ![u].status = "quarantined"]
    /\ djob' = [djob EXCEPT ![u].scan = "open"]
    /\ caseStatus' = IF caseStatus = "draft" THEN "preparing" ELSE caseStatus
    /\ UNCHANGED <<named, bytes, shelf, scanned, docWorker, head, lastReady, dlosses, sending, peopleVars>>

(* Who the signer is and how he is recognised is not told apart here. *)
InsertOrUpdateSigner(s, required) ==
    /\ signer' = [signer EXCEPT ![s] = IF required THEN "required" ELSE "optional"]
    /\ UNCHANGED <<caseStatus, uploadVars, workVars, sending, intent>>

AddSigner(s, required) == Editable /\ signer[s] = "none" /\ InsertOrUpdateSigner(s, required)

UpdateSigner(s, required) == Editable /\ signer[s] # "none" /\ InsertOrUpdateSigner(s, required)

(* send() has locked the case row and listed the documents it will snapshot. *)
SendReads ==
    /\ ~sending.on /\ caseStatus = "ready"
    /\ \E u \in Documents : u \notin Attachment
    /\ \A u \in Documents : ~StillOffice(u)
    /\ sending' = [on |-> TRUE, read |-> {[doc |-> u, digest |-> version[u].digest] : u \in Documents}]
    /\ UNCHANGED <<caseStatus, uploadVars, workVars, peopleVars>>

SendRefused ==
    /\ sending.on
    /\ (\E u \in Documents : version[u].status # "ready") \/ (\A s \in DraftSigner : signer[s] # "required")
    /\ sending' = [on |-> FALSE, read |-> {}]
    /\ UNCHANGED <<caseStatus, uploadVars, workVars, peopleVars>>

SendWithoutRecheck ==
    /\ sending.on /\ \E s \in DraftSigner : signer[s] = "required"
    /\ version' = [u \in Upload |-> IF version[u].status = "ready" THEN [version[u] EXCEPT !.status = "locked"] ELSE version[u]]
    /\ intent' = [s \in DraftSigner |-> IF signer[s] = "none" THEN {} ELSE sending.read]
    /\ caseStatus' = "sent" /\ sending' = [on |-> FALSE, read |-> {}]
    /\ UNCHANGED <<uploadVars, shelf, scanned, djob, docWorker, head, lastReady, dlosses, signer>>

(* What a signer consents to is what the first statement read. *)
SendCommits ==
    /\ sending.on /\ \E s \in DraftSigner : signer[s] = "required"
    /\ \A u \in Documents : version[u].status = "ready"
    /\ version' = [u \in Upload |-> IF u \in Documents THEN [version[u] EXCEPT !.status = "locked"] ELSE version[u]]
    /\ intent' = [s \in DraftSigner |-> IF signer[s] = "none" THEN {} ELSE sending.read]
    /\ caseStatus' = "sent" /\ sending' = [on |-> FALSE, read |-> {}]
    /\ UNCHANGED <<uploadVars, shelf, scanned, djob, docWorker, head, lastReady, dlosses, signer>>

CancelDraft ==
    /\ Editable /\ caseStatus' = "cancelled"
    /\ UNCHANGED <<uploadVars, workVars, sending, peopleVars>>

OperatorStep ==
    \/ \E u \in Upload : CompleteUpload(u) \/ AddDocument(u)
    \/ \E u \in Upload : \E name \in NamesOf(u) : CreateUpload(u, name)
    \/ \E u \in Upload, f \in Content : ClientPuts(u, f)
    \/ \E s \in DraftSigner, required \in BOOLEAN : AddSigner(s, required) \/ UpdateSigner(s, required)
    \/ SendReads \/ SendRefused \/ SendCommits \/ CancelDraft
------------------------------------------------------------------------------
(* The workers.  A handler that throws, or is lost, leaves its job open. *)
Return(w) ==
    /\ djob' = [djob EXCEPT ![docWorker[w].doc][docWorker[w].job] = "closed"]
    /\ docWorker' = [docWorker EXCEPT ![w] = Idle]

Throw(w) == docWorker' = [docWorker EXCEPT ![w] = Idle] /\ UNCHANGED djob

Goto(w, at) == docWorker' = [docWorker EXCEPT ![w].at = at] /\ UNCHANGED djob

(* A job in another handler's hands is taken when its lease has run out. *)
TakeDocJob(w, u, kind) ==
    LET busy == \E x \in DocWorker : docWorker[x].at # "idle" /\ docWorker[x].doc = u /\ docWorker[x].job = kind IN
    /\ docWorker[w].at = "idle" /\ djob[u][kind] = "open"
    /\ busy => dlosses < MaxDLosses
    /\ dlosses' = IF busy THEN dlosses + 1 ELSE dlosses
    /\ docWorker' = [docWorker EXCEPT ![w] = [Idle EXCEPT !.at = "load", !.doc = u, !.job = kind]]
    /\ UNCHANGED <<caseStatus, uploadVars, version, shelf, scanned, djob, head, lastReady, sending, peopleVars>>

LoseHandler(w) ==
    /\ docWorker[w].at # "idle" /\ dlosses < MaxDLosses
    /\ dlosses' = dlosses + 1
    /\ head' = IF head = w THEN DNone ELSE head
    /\ Throw(w)
    /\ UNCHANGED <<caseStatus, uploadVars, version, shelf, scanned, lastReady, sending, peopleVars>>

Scannable == {"quarantined", "scanning"}

LoadForScan(w) ==
    LET u == docWorker[w].doc IN
    /\ docWorker[w].at = "load" /\ docWorker[w].job = "scan"
    /\ IF version[u].status \in Scannable
       THEN version' = [version EXCEPT ![u].status = "scanning"] /\ Goto(w, "judge")
       ELSE Return(w) /\ UNCHANGED version
    /\ UNCHANGED <<caseStatus, uploadVars, shelf, scanned, head, lastReady, dlosses, sending, peopleVars>>

RefuseUnscanned(w) ==
    LET u == docWorker[w].doc IN
    /\ docWorker[w].at = "judge" /\ RefusedUnscanned(StillOffice(u), named[u], bytes[u])
    /\ Goto(w, "refused")
    /\ UNCHANGED <<caseStatus, uploadVars, version, shelf, scanned, head, lastReady, dlosses, sending, peopleVars>>

(* Of two malware reports the first is kept; the Office handler fails with the
   second, that of PDFs goes on.                                              *)
KeptReport(u) == IF scanned[u] = "none" THEN ScanMalware(bytes[u]) ELSE scanned[u]
ReportRefused(u) == StillOffice(u) /\ scanned[u] # "none"

ScanBytes(w, inspection) ==
    LET u == docWorker[w].doc
        file == bytes[u]
        outcome == AfterScan(StillOffice(u), file, inspection)
    IN
    /\ docWorker[w].at = "judge" /\ ~RefusedUnscanned(StillOffice(u), named[u], file)
    /\ scanned' = [scanned EXCEPT ![u] = KeptReport(u)]
    /\ IF ReportRefused(u) \/ outcome = "throws" THEN Throw(w) ELSE Goto(w, outcome)
    /\ UNCHANGED <<caseStatus, uploadVars, version, shelf, head, lastReady, dlosses, sending, peopleVars>>

PassScan(w) ==
    LET u == docWorker[w].doc IN
    /\ docWorker[w].at = "passed" /\ head = DNone
    /\ version' = [version EXCEPT ![u].status = IF @ = "scanning" THEN "canonicalizing" ELSE @]
    /\ djob' = [djob EXCEPT ![u].scan = "closed", ![u].canonicalize = IF @ = "none" THEN "open" ELSE @]
    /\ docWorker' = [docWorker EXCEPT ![w] = Idle]
    /\ UNCHANGED <<caseStatus, uploadVars, shelf, scanned, head, lastReady, dlosses, sending, peopleVars>>

Rejected(status) == IF status \in {"ready", "locked"} THEN status ELSE "rejected"

RejectDocument(w) ==
    /\ docWorker[w].at = "refused" /\ head = DNone
    /\ version' = [version EXCEPT ![docWorker[w].doc].status = Rejected(@)]
    /\ Return(w)
    /\ UNCHANGED <<caseStatus, uploadVars, shelf, scanned, head, lastReady, dlosses, sending, peopleVars>>

(* The row is read without a lock. *)
LoadForCanonicalize(w) ==
    /\ docWorker[w].at = "load" /\ docWorker[w].job = "canonicalize"
    /\ IF version[docWorker[w].doc].status = "canonicalizing" THEN Goto(w, "convert") ELSE Return(w)
    /\ UNCHANGED <<caseStatus, uploadVars, version, shelf, scanned, head, lastReady, dlosses, sending, peopleVars>>

(* An immutable object accepts a second write only of the same bytes. *)
Accepts(stored, made) == stored \in {0, made}

(* The file is downloaded a second time, and compared with nothing but the size
   of an Office file and the number of pages of a PDF.  The handler of Office
   files stores what qpdf says of the conversion, as an immutable object.     *)
Convert(w, n, gotenberg, inspection) ==
    LET u == docWorker[w].doc
        sized == u \in Office => bytes[u].sized
        outcome == IF sized THEN AfterConversion(u \in Office, gotenberg, inspection) ELSE "refused"
        reports == u \in Office /\ sized /\ gotenberg = "pdf" /\ inspection \in {"PASS", "FAIL"}
        kept == reports => Accepts(shelf[u].inspection, n)
    IN
    /\ docWorker[w].at = "convert"
    /\ shelf' = IF reports /\ kept THEN [shelf EXCEPT ![u].inspection = n] ELSE shelf
    /\ \/ (~kept \/ outcome = "throws") /\ Throw(w)
       \/ kept /\ outcome = "refused" /\ Goto(w, "refused")
       \/ kept /\ outcome = "converted" /\ UNCHANGED djob
          /\ docWorker' = [docWorker EXCEPT ![w].at = "report", ![w].made = n]
    /\ UNCHANGED <<caseStatus, uploadVars, version, scanned, head, lastReady, dlosses, sending, peopleVars>>

StoreReport(w, verdicts) ==
    LET u == docWorker[w].doc IN
    /\ docWorker[w].at = "report"
    /\ IF Accepts(shelf[u].report, docWorker[w].made)
       THEN /\ shelf' = [shelf EXCEPT ![u].report = docWorker[w].made]
            /\ Goto(w, IF ParseCompliance(verdicts) THEN "store" ELSE "refused")
       ELSE Throw(w) /\ UNCHANGED shelf
    /\ UNCHANGED <<caseStatus, uploadVars, version, scanned, head, lastReady, dlosses, sending, peopleVars>>

StoreCanonical(w) ==
    LET u == docWorker[w].doc IN
    /\ docWorker[w].at = "store"
    /\ IF Accepts(shelf[u].canonical, docWorker[w].made)
       THEN shelf' = [shelf EXCEPT ![u].canonical = docWorker[w].made] /\ Goto(w, "finish")
       ELSE Throw(w) /\ UNCHANGED shelf
    /\ UNCHANGED <<caseStatus, uploadVars, version, scanned, head, lastReady, dlosses, sending, peopleVars>>

(* update ... set status='ready' ... where status='canonicalizing' *)
MakeReady(w) ==
    LET u == docWorker[w].doc
        moves == version[u].status = "canonicalizing" IN
    /\ version' = IF moves THEN [version EXCEPT ![u] = [status |-> "ready", digest |-> docWorker[w].made]] ELSE version
    /\ lastReady' = IF moves THEN u ELSE lastReady

(* The Office handler commits the version and leaves the case as it is. *)
FinishOffice(w) ==
    /\ docWorker[w].at = "finish" /\ docWorker[w].doc \in Office /\ head = DNone
    /\ MakeReady(w) /\ Return(w)
    /\ UNCHANGED <<caseStatus, uploadVars, shelf, scanned, head, dlosses, sending, peopleVars>>

TakeHeadAnyway(w) ==
    /\ docWorker[w].at = "finish" /\ docWorker[w].doc \notin Office
    /\ Goto(w, "check")
    /\ UNCHANGED <<caseStatus, uploadVars, version, shelf, scanned, head, lastReady, dlosses, sending, peopleVars>>

(* audit() locks the chain head of the tenant until the transaction ends; the
   version was updated just before it and stays locked as well.               *)
TakeHead(w) ==
    /\ docWorker[w].at = "finish" /\ docWorker[w].doc \notin Office
    /\ head = DNone /\ head' = w
    /\ Goto(w, "check")
    /\ UNCHANGED <<caseStatus, uploadVars, version, shelf, scanned, lastReady, dlosses, sending, peopleVars>>

(* Then the case: is any of its versions not ready?  Its own is. *)
CheckCase(w) ==
    LET u == docWorker[w].doc
        own == version[u].status \in {"canonicalizing", "ready"} IN
    /\ docWorker[w].at = "check"
    /\ docWorker' = [docWorker EXCEPT ![w].at = "commit",
                       ![w].readies = own /\ \A x \in Documents \ {u} : version[x].status = "ready"]
    /\ UNCHANGED <<caseStatus, uploadVars, version, shelf, scanned, djob, head, lastReady, dlosses, sending, peopleVars>>

FinishPdf(w) ==
    /\ docWorker[w].at = "commit"
    /\ MakeReady(w) /\ Return(w)
    /\ caseStatus' = IF docWorker[w].readies /\ caseStatus = "preparing" THEN "ready" ELSE caseStatus
    /\ head' = IF head = w THEN DNone ELSE head
    /\ UNCHANGED <<uploadVars, shelf, scanned, dlosses, sending, peopleVars>>

ScanStep(w) ==
    \/ LoadForScan(w) \/ RefuseUnscanned(w) \/ PassScan(w) \/ RejectDocument(w)
    \/ \E inspection \in InspectionAnswer : ScanBytes(w, inspection)

CanonicalizeStep(w) ==
    \/ LoadForCanonicalize(w) \/ StoreCanonical(w) \/ FinishOffice(w)
    \/ \E n \in 1..MaxRenditions, gotenberg \in GotenbergAnswer, inspection \in InspectionAnswer :
          Convert(w, n, gotenberg, inspection)
    \/ \E verdicts \in ValidatePdfA : StoreReport(w, verdicts)
    \/ TakeHead(w) \/ CheckCase(w) \/ FinishPdf(w)

DocWorkerStep(w) ==
    \/ \E u \in Upload, kind \in {"scan", "canonicalize"} : TakeDocJob(w, u, kind)
    \/ ScanStep(w) \/ CanonicalizeStep(w) \/ LoseHandler(w)

DraftNext == OperatorStep \/ \E w \in DocWorker : DocWorkerStep(w)

DraftSpec == DraftInit /\ [][DraftNext]_draftVars
------------------------------------------------------------------------------
DraftTypeOK ==
    /\ caseStatus \in {"draft", "preparing", "ready", "sent", "cancelled"}
    /\ grant \in [Upload -> {"none", "issued", "uploaded", "consumed"}]
    /\ named \in [Upload -> Name]
    /\ bytes \in [Upload -> Content \cup {DNone}]
    /\ version \in [Upload -> [status : {"none", "quarantined", "scanning", "canonicalizing", "ready", "locked", "rejected"},
                               digest : Rendition]]
    /\ shelf \in [Upload -> [inspection : Rendition, report : Rendition, canonical : Rendition]]
    /\ scanned \in [Upload -> {"none", "PASS", "FAIL"}]
    /\ djob \in [Upload -> [scan : {"none", "open", "closed"}, canonicalize : {"none", "open", "closed"}]]
    /\ docWorker \in [DocWorker ->
         [at : {"idle", "load", "judge", "passed", "refused", "convert", "report", "store", "finish", "check", "commit"},
          doc : Upload \cup {DNone}, job : {"scan", "canonicalize"}, made : Rendition, readies : BOOLEAN]]
    /\ head \in DocWorker \cup {DNone}
    /\ sending \in [on : BOOLEAN, read : SUBSET [doc : Upload, digest : Rendition]]
    /\ signer \in [DraftSigner -> {"none", "required", "optional"}]
    /\ intent \in [DraftSigner -> SUBSET [doc : Upload, digest : Rendition]]
    /\ lastReady \in Upload \cup {DNone} /\ dlosses \in 0..MaxDLosses

(* A case that was sent is whole: every document of it, whenever it was added
   and whatever the workers were doing, is locked, the object stored for it is
   the one its row names, the malware report kept for it says that it is clean,
   also where a file was put again between two attempts, and every signer's
   intent covers exactly the documents of the case (send: the re-check after the
   list, the locks; DOCUMENT_SCAN: the comparison of the bytes before the scan). *)
SentIsWhole ==
    caseStatus = "sent" =>
        /\ \A u \in Documents : version[u].status = "locked" /\ shelf[u].canonical = version[u].digest
                               /\ scanned[u] = "PASS"
        /\ \A s \in DraftSigner : signer[s] # "none" => {x.doc : x \in intent[s]} = Documents

(* A PDF that is the last of its case to become ready makes the case ready,
   however the transactions of two workers overlap: the audit chain head, taken
   before the look at the other versions, keeps them apart.  Only an Office
   file leaves the case behind in preparing.                                  *)
LastDocumentReadies ==
    (caseStatus = "preparing" /\ \A u \in Documents : version[u].status = "ready") => lastReady \in Office
==============================================================================
