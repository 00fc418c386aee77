----------------------------- MODULE SigningCase -----------------------------
(* The signing of one case: from the moment an official sends it, over the
   invitation of one signing group after the other, each signer's BankID
   session, the collection and verification of the identity evidence, the
   creation and validation of the signatures, to the evidence package that
   completes the case.

   One step is one database transaction, of the API or of a job's handler.  A
   handler that reads, calls a provider and then commits takes two steps, and
   what it read may be stale at the second.  Only the jobs' states are kept of
   the job runtime (module DurableJobs): a job may be delivered again after its
   handler committed, or while another worker is still in it.

   Every transaction that appends to the audit log first locks the tenant's
   audit chain head (audit.append_event) and keeps it until it commits.       *)
EXTENDS Integers, FiniteSets

CONSTANTS
    Signer,      \* the participants of the case
    Required,    \* those whose signature the case needs
    Order,       \* signing_order: who shares a number may sign in parallel
    Document,    \* the signable documents, bound by every signer's intent
    MaxStarts,   \* bound: BankID starts of one signer in flight
    MaxMishaps   \* bound: refusals, cancellations, redeliveries, bad reports

ASSUME SignersAssumption == Required \subseteq Signer /\ Required # {}
ASSUME OrderAssumption == Order \in [Signer -> Nat \ {0}]
ASSUME DocumentAssumption == Document # {}
ASSUME BoundsAssumption == MaxStarts \in Nat /\ MaxMishaps \in Nat

VARIABLES
    case,         \* signature_cases.status
    signer,       \* signers.status
    invitation,   \* the latest signer_invitations row of the signer
    intent,       \* signing_intents.status, one row per signer
    identity,     \* identity_transactions.status
    session,      \* the session at the BankID provider
    starting,     \* BankID starts that have read the intent and not committed
    collect, verify, create, package,  \* the jobs of each signer
    validate,     \* the PADES_VALIDATE job of each signature
    casePackage,  \* the EVIDENCE_PACKAGE_BUILD job of the case
    attempt,      \* signature_attempts.status, per signer and document
    admitting,    \* the PADES_VALIDATE transactions that hold the audit chain
    reports,      \* the validation reports in storage, which are never overwritten
    mishaps

participants == <<signer, invitation>>
consent == <<intent, identity, session, starting>>
jobs == <<collect, verify, create, package, validate, casePackage>>
signatures == <<attempt, admitting, reports>>
vars == <<case, signer, invitation, intent, identity, session, starting,
          collect, verify, create, package, validate, casePackage,
          attempt, admitting, reports, mishaps>>

CaseStatus == {"ready", "sent", "in_progress", "partially_signed",
               "completed", "declined", "cancelled"}
OpenCase == {"sent", "in_progress", "partially_signed"}
SignerStatus == {"pending", "invited", "opened", "identity_started",
                 "identity_verified", "signing", "signed", "declined", "failed"}
JobState == {"absent", "queued", "running", "reported", "done", "dead"}

Mishap == mishaps < MaxMishaps /\ mishaps' = mishaps + 1

Init ==
    /\ case = "ready"
    /\ signer = [s \in Signer |-> "pending"]
    /\ invitation = [s \in Signer |-> "none"]
    /\ intent = [s \in Signer |-> "none"]
    /\ identity = [s \in Signer |-> "none"]
    /\ session = [s \in Signer |-> "none"]
    /\ starting = [s \in Signer |-> 0]
    /\ collect = [s \in Signer |-> "absent"]
    /\ verify = [s \in Signer |-> "absent"]
    /\ create = [s \in Signer |-> "absent"]
    /\ package = [s \in Signer |-> "absent"]
    /\ validate = [s \in Signer |-> [d \in Document |-> "absent"]]
    /\ casePackage = "absent"
    /\ attempt = [s \in Signer |-> [d \in Document |-> "none"]]
    /\ admitting = {}
    /\ reports = {}
    /\ mishaps = 0

-----------------------------------------------------------------------------
(* enforce_status_transition, the rows of signature_cases. *)
CaseMoves ==
    {<<"ready", "sent">>, <<"ready", "cancelled">>}
    \cup {"sent"} \X {"in_progress", "declined", "cancelled"}
    \cup {"in_progress"} \X {"partially_signed", "completed", "declined", "cancelled"}
    \cup {"partially_signed"} \X {"completed", "declined", "cancelled"}

SignedSigners == {s \in Signer : signer[s] = "signed"}

(* Mutant: the turn passes on once the person before is identified. *)
BlockedUntilIdentified(s, signed) ==
    \E t \in Required : /\ Order[t] < Order[s] /\ t \notin signed
                        /\ signer[t] \notin {"identity_verified", "signing"}

(* signing_turn_blocked: a required signer of an earlier group has not signed. *)
Blocked(s, signed) == \E t \in Required : Order[t] < Order[s] /\ t \notin signed

(* activateNextSigningGroup: the whole lowest group with a pending signer. *)
NextGroup(signed) ==
    LET free == {s \in Signer : signer[s] = "pending" /\ ~Blocked(s, signed)}
    IN {s \in Signer : /\ signer[s] = "pending"
                       /\ \E t \in free : /\ Order[s] = Order[t]
                                          /\ \A u \in free : Order[t] <= Order[u]}

Queue(j) == IF j = "absent" THEN "queued" ELSE j

(* What becomes of the job of a handler that has committed: it is completed, or
   its worker is lost first, or a second worker is past its own read.         *)
Settles(next) ==
    \/ next = "done" /\ UNCHANGED mishaps
    \/ next \in {"queued", "running"} /\ Mishap

-----------------------------------------------------------------------------
(* The official: send, cancel, and the reminder that replaces a token. *)
Send ==
    /\ <<case, "sent">> \in CaseMoves
    /\ case' = "sent"
    /\ LET first == {s \in Signer : \A t \in Signer : Order[s] <= Order[t]}
       IN /\ signer' = [s \in Signer |-> IF s \in first THEN "invited" ELSE signer[s]]
          /\ invitation' = [s \in Signer |-> IF s \in first THEN "valid" ELSE "none"]
    /\ intent' = [s \in Signer |-> "prepared"]
    /\ UNCHANGED <<identity, session, starting, jobs, signatures, mishaps>>

Cancel ==
    /\ <<case, "cancelled">> \in CaseMoves
    /\ Mishap
    /\ case' = "cancelled"
    /\ UNCHANGED <<participants, consent, jobs, signatures>>

Remind ==
    /\ case \in OpenCase
    /\ LET called == {s \in Signer : signer[s] \in {"invited", "opened"} /\ ~Blocked(s, SignedSigners)}
       IN invitation' = [s \in Signer |-> IF s \in called THEN "valid" ELSE invitation[s]]
    /\ UNCHANGED <<case, signer, consent, jobs, signatures, mishaps>>

(* An invitation expires. *)
Lapse(s) ==
    /\ invitation[s] = "valid" /\ Mishap
    /\ invitation' = [invitation EXCEPT ![s] = "lapsed"]
    /\ UNCHANGED <<case, signer, consent, jobs, signatures>>

-----------------------------------------------------------------------------
(* The signer, through the public signing API. *)
MarkOpened(s) ==
    /\ invitation[s] = "valid" /\ signer[s] = "invited"
    /\ signer' = [signer EXCEPT ![s] = "opened"]
    /\ UNCHANGED <<case, invitation, consent, jobs, signatures, mishaps>>

(* startBankId reads the intent, opens a session at the provider, and commits
   only if the intent is still prepared: another start may have been faster, or
   the provider may refuse.                                                   *)
StartBankId(s) ==
    /\ invitation[s] = "valid" /\ ~Blocked(s, SignedSigners)
    /\ intent[s] = "prepared" /\ starting[s] < MaxStarts
    /\ starting' = [starting EXCEPT ![s] = @ + 1]
    /\ UNCHANGED <<case, participants, intent, identity, session, jobs, signatures, mishaps>>

(* Mutant: the intent is not read again. *)
BankIdStartedBlindly(s) ==
    /\ starting[s] > 0
    /\ starting' = [starting EXCEPT ![s] = @ - 1]
    /\ identity' = [identity EXCEPT ![s] = "pending"]
    /\ session' = [session EXCEPT ![s] = "open"]
    /\ intent' = [intent EXCEPT ![s] = "provider_started"]
    /\ signer' = [signer EXCEPT ![s] = IF @ \in {"invited", "opened"} THEN "identity_started" ELSE @]
    /\ UNCHANGED <<case, invitation, jobs, signatures, mishaps>>

BankIdStarted(s) ==
    /\ starting[s] > 0 /\ intent[s] = "prepared"
    /\ starting' = [starting EXCEPT ![s] = @ - 1]
    /\ identity' = [identity EXCEPT ![s] = "pending"]
    /\ session' = [session EXCEPT ![s] = "open"]
    /\ intent' = [intent EXCEPT ![s] = "provider_started"]
    /\ signer' = [signer EXCEPT ![s] = IF @ \in {"invited", "opened"} THEN "identity_started" ELSE @]
    /\ UNCHANGED <<case, invitation, jobs, signatures, mishaps>>

BankIdNotStarted(s) ==
    /\ starting[s] > 0
    /\ starting' = [starting EXCEPT ![s] = @ - 1]
    /\ UNCHANGED <<case, participants, intent, identity, session, jobs, signatures, mishaps>>

(* The session at the provider: the person signs in the app, or it ends. *)
SessionCompletes(s) ==
    /\ session[s] = "open"
    /\ session' = [session EXCEPT ![s] = "completed"]
    /\ UNCHANGED <<case, participants, intent, identity, starting, jobs, signatures, mishaps>>

SessionEnds(s) ==
    /\ session[s] = "open" /\ Mishap
    /\ session' = [session EXCEPT ![s] = "ended"]
    /\ UNCHANGED <<case, participants, intent, identity, starting, jobs, signatures>>

(* bankIdStatus and the provider's webhook report a completed session; the poll
   also writes back the status it had read, which the transition guard refuses
   unless it still is the status of the row.                                  *)
SessionReported(s) ==
    /\ session[s] = "completed"
    /\ collect' = [collect EXCEPT ![s] = Queue(@)]
    /\ UNCHANGED <<case, participants, consent, verify, create, package, validate, casePackage,
                   signatures, mishaps>>

(* bankIdStatus finds the session cancelled, expired or failed: the identity
   transaction ends, its intent does not.                                     *)
EndReported(s) ==
    /\ session[s] = "ended" /\ invitation[s] = "valid" /\ identity[s] = "pending"
    /\ identity' = [identity EXCEPT ![s] = "ended"]
    /\ UNCHANGED <<case, participants, intent, session, starting, jobs, signatures, mishaps>>

(* cancelBankId: a session that has already completed stays so. *)
CancelBankId(s) ==
    /\ invitation[s] = "valid" /\ identity[s] # "none" /\ Mishap
    /\ session' = [session EXCEPT ![s] = IF @ = "open" THEN "ended" ELSE @]
    /\ identity' = [identity EXCEPT ![s] = IF @ = "pending" THEN "ended" ELSE @]
    /\ intent' = [intent EXCEPT ![s] = IF @ = "provider_started" THEN "cancelled" ELSE @]
    /\ UNCHANGED <<case, participants, starting, jobs, signatures>>

Decline(s) ==
    /\ invitation[s] = "valid" /\ Mishap
    /\ signer' = [signer EXCEPT ![s] =
                    IF @ \in {"invited", "opened", "identity_started"} THEN "declined" ELSE @]
    /\ invitation' = [invitation EXCEPT ![s] = "used"]
    /\ case' = IF s \in Required /\ case \in OpenCase THEN "declined" ELSE case
    /\ UNCHANGED <<consent, jobs, signatures>>

-----------------------------------------------------------------------------
(* TIC_EVIDENCE_COLLECT. *)
CollectReads(s) ==
    /\ collect[s] = "queued"
    /\ collect' = [collect EXCEPT ![s] =
                     CASE identity[s] = "pending" -> "running"
                       [] identity[s] \in {"collected", "verified"} -> "done"
                       [] OTHER -> "dead"]
    /\ UNCHANGED <<case, participants, consent, verify, create, package, validate, casePackage,
                   signatures, mishaps>>

Collected(s) ==
    /\ collect[s] = "running" /\ admitting = {}
    /\ identity' = [identity EXCEPT ![s] = IF @ = "pending" THEN "collected" ELSE @]
    /\ intent' = [intent EXCEPT ![s] = IF @ = "provider_started" THEN "evidence_collected" ELSE @]
    /\ verify' = [verify EXCEPT ![s] = Queue(@)]
    /\ \E next \in JobState : Settles(next) /\ collect' = [collect EXCEPT ![s] = next]
    /\ UNCHANGED <<case, participants, session, starting, create, package, validate, casePackage,
                   signatures>>

Fail(s) == signer' = [signer EXCEPT ![s] = IF @ \in {"signed", "declined"} THEN @ ELSE "failed"]

(* failIdentityTransaction, then a permanent error. *)
EvidenceUnreadable(s) ==
    /\ collect[s] = "running" /\ admitting = {} /\ Mishap
    /\ identity' = [identity EXCEPT ![s] = IF @ = "pending" THEN "failed" ELSE @]
    /\ intent' = [intent EXCEPT ![s] = IF @ = "provider_started" THEN "failed" ELSE @]
    /\ Fail(s)
    /\ collect' = [collect EXCEPT ![s] = "dead"]
    /\ UNCHANGED <<case, invitation, session, starting, verify, create, package, validate,
                   casePackage, signatures>>

(* SIGNATURE_VALIDATE: the evidence of identity, not yet a signature.  Its report
   goes to storage before the transaction, and carries the time of validation: a
   second report for the same key is another report and is refused, again at
   every retry, until the row is settled or the attempts are used up.         *)
VerifyReads(s) ==
    /\ verify[s] = "queued"
    /\ verify' = [verify EXCEPT ![s] =
                    CASE identity[s] = "collected" -> "running"
                      [] identity[s] = "verified" -> "done"
                      [] OTHER -> "dead"]
    /\ UNCHANGED <<case, participants, consent, collect, create, package, validate, casePackage,
                   signatures, mishaps>>

IdentityReported(s) ==
    /\ verify[s] = "running" /\ s \notin reports
    /\ verify' = [verify EXCEPT ![s] = "reported"]
    /\ reports' = reports \cup {s}
    /\ UNCHANGED <<case, participants, consent, collect, create, package, validate, casePackage,
                   attempt, admitting, mishaps>>

IdentityReportRefused(s) ==
    /\ verify[s] = "running" /\ s \in reports
    /\ verify' = [verify EXCEPT ![s] = IF identity[s] = "collected" THEN "dead" ELSE "queued"]
    /\ UNCHANGED <<case, participants, consent, collect, create, package, validate, casePackage,
                   signatures, mishaps>>

IdentityVerified(s) ==
    /\ verify[s] = "reported" /\ admitting = {}
    /\ identity' = [identity EXCEPT ![s] = IF @ = "collected" THEN "verified" ELSE @]
    /\ intent' = [intent EXCEPT ![s] = IF @ = "evidence_collected" THEN "verified" ELSE @]
    /\ signer' = [signer EXCEPT ![s] = IF @ = "identity_started" THEN "identity_verified" ELSE @]
    /\ create' = [create EXCEPT ![s] = Queue(@)]
    /\ \E next \in JobState : Settles(next) /\ verify' = [verify EXCEPT ![s] = next]
    /\ UNCHANGED <<case, invitation, session, starting, collect, package, validate, casePackage,
                   signatures>>

(* A failing report.  The update of the identity transaction is unconditional,
   and its guard rejects the whole transaction when it is already verified.   *)
IdentityRefused(s) ==
    /\ verify[s] = "reported" /\ admitting = {} /\ Mishap
    /\ identity[s] \in {"collected", "failed"}
    /\ identity' = [identity EXCEPT ![s] = "failed"]
    /\ intent' = [intent EXCEPT ![s] = IF @ = "evidence_collected" THEN "failed" ELSE @]
    /\ Fail(s)
    /\ \E next \in {"done", "queued", "running"} : verify' = [verify EXCEPT ![s] = next]
    /\ UNCHANGED <<case, invitation, session, starting, collect, create, package, validate,
                   casePackage, signatures>>

-----------------------------------------------------------------------------
(* Mutant: a signer who is signing already is taken for done. *)
CreateReadsOnce(s) ==
    /\ create[s] = "queued"
    /\ create' = [create EXCEPT ![s] =
                    IF intent[s] = "verified" /\ signer[s] # "signing" THEN "running" ELSE "done"]
    /\ signer' = [signer EXCEPT ![s] = IF @ = "identity_verified" THEN "signing" ELSE @]
    /\ UNCHANGED <<case, invitation, consent, collect, verify, package, validate, casePackage,
                   signatures, mishaps>>

(* PADES_CREATE reads the intent and moves the signer on; the status it reads
   cannot change before it has signed.                                        *)
CreateReads(s) ==
    /\ create[s] = "queued"
    /\ create' = [create EXCEPT ![s] =
                    CASE intent[s] = "verified" -> "running"
                      [] intent[s] = "packaged" -> "done"
                      [] OTHER -> "dead"]
    /\ signer' = [signer EXCEPT ![s] =
                    IF intent[s] = "verified" /\ @ = "identity_verified" THEN "signing" ELSE @]
    /\ UNCHANGED <<case, invitation, consent, collect, verify, package, validate, casePackage,
                   signatures, mishaps>>

(* One document is signed, on the latest revision.  The revision guard lets a
   second signature through while the first is not validated only when the two
   are inserted at once, and none after a signature that was rejected: module
   RevisionChain has that chain, here it is enough who may have signed.       *)
DocumentSigned(s, d) ==
    /\ create[s] = "running" /\ admitting = {}
    /\ attempt[s][d] = "none"
    /\ \A t \in Signer : attempt[t][d] # "failed"
    /\ attempt' = [attempt EXCEPT ![s][d] = "signed"]
    /\ validate' = [validate EXCEPT ![s][d] = Queue(@)]
    /\ UNCHANGED <<case, participants, consent, collect, verify, create, package, casePackage,
                   admitting, reports, mishaps>>

AllDocumentsSigned(s) ==
    /\ create[s] = "running"
    /\ \A d \in Document : attempt[s][d] # "none"
    /\ \E next \in JobState : Settles(next) /\ create' = [create EXCEPT ![s] = next]
    /\ UNCHANGED <<case, participants, consent, collect, verify, package, validate, casePackage,
                   signatures>>

(* The worker of a job is lost before its handler commits; the job is run again.
   Lost between a signed document's object and its row, PADES_CREATE cannot be:
   module RevisionChain has the steps.                                        *)
WorkerLost(s) ==
    /\ Mishap
    /\ \/ /\ collect[s] = "running" /\ collect' = [collect EXCEPT ![s] = "queued"]
          /\ UNCHANGED <<verify, create, validate>>
       \/ /\ verify[s] \in {"running", "reported"} /\ verify' = [verify EXCEPT ![s] = "queued"]
          /\ UNCHANGED <<collect, create, validate>>
       \/ /\ create[s] = "running" /\ \E d \in Document : attempt[s][d] = "none"
          /\ \E next \in {"queued", "dead"} : create' = [create EXCEPT ![s] = next]
          /\ UNCHANGED <<collect, verify, validate>>
       \/ /\ \E d \in Document :
                /\ validate[s][d] \in {"running", "reported"}
                /\ \A own \in admitting : own.signer # s \/ own.document # d
                /\ validate' = [validate EXCEPT ![s][d] = "queued"]
          /\ UNCHANGED <<collect, verify, create>>
    /\ UNCHANGED <<case, participants, consent, package, casePackage, signatures>>

-----------------------------------------------------------------------------
(* PADES_VALIDATE. *)
ValidateReads(s, d) ==
    /\ validate[s][d] = "queued"
    /\ validate' = [validate EXCEPT ![s][d] =
                      CASE attempt[s][d] = "signed" -> "running"
                        [] attempt[s][d] = "validated" -> "done"
                        [] OTHER -> "dead"]
    /\ UNCHANGED <<case, participants, consent, collect, verify, create, package, casePackage,
                   signatures, mishaps>>

(* The report is stored first, as by SIGNATURE_VALIDATE. *)
SignatureReported(s, d) ==
    /\ validate[s][d] = "running" /\ <<s, d>> \notin reports
    /\ validate' = [validate EXCEPT ![s][d] = "reported"]
    /\ reports' = reports \cup {<<s, d>>}
    /\ UNCHANGED <<case, participants, consent, collect, verify, create, package, casePackage,
                   attempt, admitting, mishaps>>

SignatureReportRefused(s, d) ==
    /\ validate[s][d] = "running" /\ <<s, d>> \in reports
    /\ validate' = [validate EXCEPT ![s][d] = IF attempt[s][d] = "signed" THEN "dead" ELSE "queued"]
    /\ UNCHANGED <<case, participants, consent, collect, verify, create, package, casePackage,
                   signatures, mishaps>>

ValidatedBy(s) == {d \in Document : attempt[s][d] = "validated"}
Snapshot(s, d) ==
    [signer |-> s, document |-> d, validated |-> ValidatedBy(s), signed |-> SignedSigners]

(* Mutant: the admission is audited at the end, so nothing serialises it. *)
AdmissionUnlocked(s, d) ==
    /\ validate[s][d] = "reported" /\ attempt[s][d] \in {"signed", "validated"}
    /\ \A other \in admitting : other.signer # s \/ other.document # d
    /\ admitting' = admitting \cup {Snapshot(s, d)}
    /\ UNCHANGED <<case, participants, consent, jobs, attempt, reports, mishaps>>

(* The transaction updates its attempt and appends the admission to the audit
   log; what it then reads of the others is what has been committed so far.   *)
Admission(s, d) ==
    /\ validate[s][d] = "reported" /\ attempt[s][d] \in {"signed", "validated"}
    /\ admitting = {}
    /\ admitting' = admitting \cup {Snapshot(s, d)}
    /\ UNCHANGED <<case, participants, consent, jobs, attempt, reports, mishaps>>

(* Mutant: any admitted document will do. *)
AnyDocument(validated) == validated # {}

EveryDocument(validated) == validated = Document
RequiredHaveSigned(signed) == Required \subseteq signed

(* Admitted, but other documents of the intent are outstanding. *)
SignatureAdmitted(own) ==
    LET s == own.signer  d == own.document IN
    /\ ~EveryDocument(own.validated \cup {d})
    /\ attempt' = [attempt EXCEPT ![s][d] = "validated"]
    /\ admitting' = admitting \ {own}
    /\ \E next \in JobState : Settles(next) /\ validate' = [validate EXCEPT ![s][d] = next]
    /\ UNCHANGED <<case, participants, consent, collect, verify, create, package, casePackage, reports>>

(* Admitted, and it was the last: the signer is done, the next group is invited
   and the case is packaged when nobody is missing.  Where the signer is not
   signing the update finds no row, and everything else happens all the same. *)
SignerSigned(own) ==
    LET s == own.signer
        d == own.document
        signed == own.signed \cup (IF signer[s] = "signing" THEN {s} ELSE {})
        next == NextGroup(signed)
    IN
    /\ EveryDocument(own.validated \cup {d})
    /\ signer[s] = "signing" => intent[s] \in {"verified", "packaged"}
    /\ attempt' = [attempt EXCEPT ![s][d] = "validated"]
    /\ admitting' = admitting \ {own}
    /\ signer' = [t \in Signer |-> IF t = s /\ signer[s] = "signing" THEN "signed"
                                   ELSE IF t \in next THEN "invited" ELSE signer[t]]
    /\ invitation' = [t \in Signer |-> IF t = s THEN "used"
                                       ELSE IF t \in next THEN "valid" ELSE invitation[t]]
    /\ intent' = [intent EXCEPT ![s] = IF @ = "verified" THEN "packaged" ELSE @]
    /\ package' = [package EXCEPT ![s] = Queue(@)]
    /\ casePackage' = IF RequiredHaveSigned(signed) THEN Queue(casePackage) ELSE casePackage
    /\ \E now \in JobState : Settles(now) /\ validate' = [validate EXCEPT ![s][d] = now]
    /\ UNCHANGED <<case, identity, session, starting, collect, verify, create, reports>>

(* The report fails, or its level is below what the policy requires. *)
SignatureRejected(own) ==
    LET s == own.signer  d == own.document IN
    /\ attempt[s][d] = "signed" /\ Mishap
    /\ attempt' = [attempt EXCEPT ![s][d] = "failed"]
    /\ admitting' = admitting \ {own}
    /\ signer' = [signer EXCEPT ![s] = IF @ = "signing" THEN "failed" ELSE @]
    /\ validate' = [validate EXCEPT ![s][d] = "done"]
    /\ UNCHANGED <<case, invitation, consent, collect, verify, create, package, casePackage, reports>>

(* EVIDENCE_PACKAGE_BUILD of a signer and of the case. *)
SignerPackaged(s) ==
    /\ package[s] = "queued" /\ admitting = {}
    /\ intent' = [intent EXCEPT ![s] = IF @ = "verified" THEN "packaged" ELSE @]
    /\ package' = [package EXCEPT ![s] = "done"]
    /\ UNCHANGED <<case, participants, identity, session, starting, collect, verify, create,
                   validate, casePackage, signatures, mishaps>>

CanComplete == <<case, "completed">> \in CaseMoves /\ Required \subseteq SignedSigners

(* A case that is not open any more is packaged without being completed. *)
CasePackaged ==
    /\ casePackage = "queued" /\ admitting = {}
    /\ case \in OpenCase => CanComplete
    /\ case' = IF case \in OpenCase THEN "completed" ELSE case
    /\ casePackage' = "done"
    /\ UNCHANGED <<participants, consent, collect, verify, create, package, validate,
                   signatures, mishaps>>

(* The transition guard rejects the completion, and with it the package. *)
CasePackageRejected ==
    /\ casePackage = "queued"
    /\ case \in OpenCase /\ ~CanComplete
    /\ casePackage' = "dead"
    /\ UNCHANGED <<case, participants, consent, collect, verify, create, package, validate,
                   signatures, mishaps>>

-----------------------------------------------------------------------------
Collecting(s) == CollectReads(s) \/ Collected(s) \/ EvidenceUnreadable(s)
Verifying(s) ==
    \/ VerifyReads(s) \/ IdentityReported(s) \/ IdentityReportRefused(s)
    \/ IdentityVerified(s) \/ IdentityRefused(s)
Creating(s) == CreateReads(s) \/ AllDocumentsSigned(s) \/ \E d \in Document : DocumentSigned(s, d)
Validating(s, d) ==
    ValidateReads(s, d) \/ SignatureReported(s, d) \/ SignatureReportRefused(s, d)
Admitting(own) == SignatureAdmitted(own) \/ SignerSigned(own) \/ SignatureRejected(own)
Packaging == CasePackaged \/ CasePackageRejected

Next ==
    \/ Send \/ Cancel \/ Remind \/ Packaging
    \/ \E own \in admitting : Admitting(own)
    \/ \E s \in Signer :
          \/ Lapse(s) \/ MarkOpened(s)
          \/ StartBankId(s) \/ BankIdStarted(s) \/ BankIdNotStarted(s)
          \/ SessionCompletes(s) \/ SessionEnds(s) \/ SessionReported(s) \/ EndReported(s)
          \/ CancelBankId(s) \/ Decline(s)
          \/ Collecting(s) \/ Verifying(s) \/ Creating(s) \/ SignerPackaged(s) \/ WorkerLost(s)
          \/ \E d \in Document : Validating(s, d) \/ Admission(s, d)

Spec == Init /\ [][Next]_vars

(* The job runtime delivers every job, and an open transaction ends.  Officials,
   signers and the provider owe nothing, except that the provider's webhook
   reports a completed session.                                               *)
Fairness ==
    /\ WF_vars(Packaging)
    /\ WF_vars(\E own \in admitting : Admitting(own))
    /\ \A s \in Signer :
          /\ WF_vars(SessionReported(s)) /\ WF_vars(EndReported(s)) /\ WF_vars(SignerPackaged(s))
          /\ WF_vars(Collecting(s)) /\ WF_vars(Verifying(s)) /\ WF_vars(Creating(s))
          /\ \A d \in Document : WF_vars(Validating(s, d)) /\ SF_vars(Admission(s, d))

FairSpec == Spec /\ Fairness

-----------------------------------------------------------------------------
TypeOK ==
    /\ case \in CaseStatus
    /\ signer \in [Signer -> SignerStatus]
    /\ invitation \in [Signer -> {"none", "valid", "lapsed", "used"}]
    /\ intent \in [Signer -> {"none", "prepared", "provider_started", "evidence_collected",
                              "verified", "packaged", "cancelled", "failed"}]
    /\ identity \in [Signer -> {"none", "pending", "collected", "verified", "ended", "failed"}]
    /\ session \in [Signer -> {"none", "open", "completed", "ended"}]
    /\ starting \in [Signer -> 0..MaxStarts]
    /\ collect \in [Signer -> JobState]
    /\ verify \in [Signer -> JobState]
    /\ create \in [Signer -> JobState]
    /\ package \in [Signer -> JobState]
    /\ validate \in [Signer -> [Document -> JobState]]
    /\ casePackage \in JobState
    /\ attempt \in [Signer -> [Document -> {"none", "signed", "validated", "failed"}]]
    /\ admitting \subseteq [signer : Signer, document : Document,
                            validated : SUBSET Document, signed : SUBSET Signer]
    /\ reports \subseteq Signer \cup (Signer \X Document)
    /\ mishaps \in 0..MaxMishaps

(* Nobody is recorded as having signed unless every signable document of the
   intent carries a validated signature of theirs and their identity was
   verified: a signer is not finished after the first document.               *)
SignedHasEvidence ==
    \A s \in SignedSigners :
        /\ \A d \in Document : attempt[s][d] = "validated"
        /\ identity[s] = "verified"

(* A signature is made only on the strength of a verified identity and consent,
   whatever a stale or repeated job of the identity chain still does.         *)
ConsentBeforeSignature ==
    \A s \in Signer, d \in Document : attempt[s][d] # "none" =>
        identity[s] = "verified" /\ intent[s] \in {"verified", "packaged"}

(* The consent and the identity that carries it are updated by separate
   guarded statements of API calls and jobs that overlap; they never disagree. *)
IntentMatchesIdentity ==
    \A s \in Signer :
        /\ intent[s] = "prepared" => identity[s] = "none"
        /\ intent[s] = "provider_started" => identity[s] \in {"pending", "ended"}
        /\ intent[s] = "evidence_collected" => identity[s] = "collected"
        /\ intent[s] \in {"verified", "packaged"} => identity[s] = "verified"
        /\ intent[s] = "cancelled" => identity[s] = "ended"
        /\ intent[s] = "failed" => identity[s] = "failed"

(* Late polls and cancellations, a second start and repeated jobs never undo
   what is settled about an identity: collected evidence is verified or refused
   next, a verified identity stays, and so does one that ended.               *)
EvidenceKeptStep ==
    \A s \in Signer :
        /\ identity[s] = "collected" => identity'[s] \in {"collected", "verified", "failed"}
        /\ identity[s] \in {"verified", "ended", "failed"} => identity'[s] = identity[s]
EvidenceKept == [][EvidenceKeptStep]_vars

(* Signing in turn: nobody identifies themselves to sign before every required
   signer of the earlier groups has signed.                                   *)
TurnRespected ==
    \A s \in Signer : identity[s] # "none" => ~Blocked(s, SignedSigners)

(* When signers of one group finish at the same time, one of them still sees
   that it was the last: the case is packaged once all required have signed.  *)
LastSignerPackagesCase ==
    RequiredHaveSigned(SignedSigners) => casePackage # "absent"

(* The same for the turn: where every group has a required signer, nobody whose
   turn has come is left without an invitation.                               *)
TurnIsInvited ==
    \A s \in Signer :
        signer[s] = "pending" /\ intent[s] # "none" => Blocked(s, SignedSigners)

(* A verified consent is followed by signatures on all the documents and by
   their validation, through crashes and redeliveries, unless a signature in the
   case was rejected or a worker was lost between storage and database.       *)
ConsentIsSigned ==
    \A s \in Signer : intent[s] = "verified" ~>
        \/ intent[s] = "packaged"
        \/ \E t \in Signer : \/ create[t] = "dead"
                             \/ \E d \in Document : attempt[t][d] = "failed" \/ validate[t][d] = "dead"

(* docs/utbildning/ANVANDARHANDBOK.md: when everybody has signed, the evidence
   package can be fetched.  Refuted: the package is built in the transaction
   that completes the case, and a sent case cannot be completed.              *)
EveryoneSignedIsPackaged ==
    (Required \subseteq SignedSigners) ~> casePackage = "done"

(* The parties' view of the case: what SigningPromise says of its signing is
   kept, through every interleaving of calls, jobs and workers that are lost.  *)
Outcome == IF case = "ready" \/ case \in OpenCase THEN "open" ELSE case
Present == {s \in Signer : identity[s] # "none"}
Agreed == {s \in Signer : intent[s] \in {"verified", "packaged"}}

Promise == INSTANCE SigningPromise
    WITH Party <- Signer, Needed <- Required, Place <- Order, Paper <- Document,
         outcome <- Outcome, present <- Present, agreed <- Agreed,
         signature <- attempt, done <- SignedSigners

SigningPromised == Promise!SigningPromiseSpec

=============================================================================
