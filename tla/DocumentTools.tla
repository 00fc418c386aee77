----------------------------- MODULE DocumentTools -----------------------------
(* What the tools say of a file on its way to become a document that is signed,
   and what the handlers make of it: the comparison with what the client declared,
   ClamAV, qpdf, the conversion by Gotenberg and the validation by veraPDF.  A tool
   that gives no usable answer makes the handler throw, and the job is tried again. *)

(* The name a file is uploaded under: it has the extension of its Office format,
   has it beyond the 180th character, has that of a format with macros, or
   another.                                                                     *)
Name == {"fits", "long", "macro", "other"}

ValidateUploadMetadata(office, name) ==
    name # "macro" /\ (office => name \in {"fits", "long"})

(* What is left of a name in the object key: its first 180 characters. *)
CleanFileName(name) == IF name = "long" THEN "other" ELSE name

PlanOfficeIngestion(name) == name = "fits"
--------------------------------------------------------------------------------
Container == {"pdf", "zip", "rtf", "unknown"}

(* A file: its size and its bytes are those that were declared, its first bytes
   tell what it is, and it carries malware.                                     *)
Files == {f \in [sized : BOOLEAN, same : BOOLEAN, container : Container, infected : BOOLEAN] :
             f.same => f.sized}

(* Every Office format is a zip, but for RTF. *)
AssertMagicBytesMatch(file) == file.container \in {"zip", "rtf"}

StoredBytesMatchGrant(file) == file.sized /\ file.same

(* Of an Office file the bytes are never compared with the digest declared. *)
RefusedUnscanned(office, name, file) ==
    IF office THEN ~(PlanOfficeIngestion(name) /\ file.sized /\ AssertMagicBytesMatch(file))
    ELSE ~StoredBytesMatchGrant(file)

ScanMalware(file) == IF file.infected THEN "FAIL" ELSE "PASS"
--------------------------------------------------------------------------------
(* qpdf, with the search of the bytes for what is forbidden: nothing found, or
   something; more pages or bytes than allowed; no answer in time; an error.    *)
InspectionAnswer == {"PASS", "FAIL", "limit", "timeout", "error"}

(* An Office file is inspected once it is a PDF. *)
AfterScan(office, file, inspection) ==
    IF ScanMalware(file) = "FAIL" THEN "refused"
    ELSE IF office \/ inspection = "PASS" THEN "passed"
    ELSE IF inspection \in {"FAIL", "limit"} THEN "refused"
    ELSE "throws"

(* Gotenberg gives a PDF whose bytes have nothing forbidden, says that it is busy,
   or something else.                                                           *)
GotenbergAnswer == {"pdf", "temporary", "other"}

(* The handler of PDFs leaves every error to a retry, that of Office files takes
   most of them for an answer.                                                  *)
AfterConversion(office, gotenberg, inspection) ==
    IF gotenberg # "pdf" THEN IF office /\ gotenberg = "other" THEN "refused" ELSE "throws"
    ELSE IF inspection = "PASS" THEN "converted"
    ELSE IF inspection = "FAIL" \/ (office /\ inspection # "timeout") THEN "refused"
    ELSE "throws"

(* What veraPDF reports: compliant only if every part of the report says so. *)
ParseCompliance(verdicts) == FALSE \notin verdicts

ValidatePdfA == {verdicts \in SUBSET BOOLEAN : verdicts # {}}
================================================================================
