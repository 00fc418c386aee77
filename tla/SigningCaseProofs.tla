-------------------------- MODULE SigningCaseProofs --------------------------
(* What holds of the signing of a case for every number of signers, groups,
   documents, repeated starts and mishaps.  The steps are taken in five groups:
   the case, the signer, the identity evidence, the making of signatures and
   their admission.                                                          *)
EXTENDS SigningCase, TLAPS

-----------------------------------------------------------------------------
(* Types. *)
LEMMA TypeInit == Init => TypeOK
  BY SignersAssumption, BoundsAssumption
  DEF Init, TypeOK, CaseStatus, SignerStatus, JobState

LEMMA CaseTypes ==
  ASSUME TypeOK, Send \/ Cancel \/ Remind \/ Packaging
  PROVE  TypeOK'
  <1> USE BoundsAssumption DEF TypeOK, CaseStatus, SignerStatus, JobState, OpenCase,
          participants, consent, jobs, signatures
  <1>1. CASE Send
    BY <1>1 DEF Send
  <1>2. CASE Cancel
    BY <1>2 DEF Cancel, Mishap
  <1>3. CASE Remind
    BY <1>3 DEF Remind
  <1>4. CASE Packaging
    BY <1>4 DEF Packaging, CasePackaged, CasePackageRejected
  <1> QED
    BY <1>1, <1>2, <1>3, <1>4

(* A mishap is counted up to its bound. *)
LEMMA MishapTypes == TypeOK /\ Mishap => mishaps' \in 0..MaxMishaps
  BY BoundsAssumption DEF TypeOK, Mishap

LEMMA SettlesTypes ==
  ASSUME TypeOK, NEW next, Settles(next)
  PROVE  next \in JobState /\ mishaps' \in 0..MaxMishaps
  BY MishapTypes DEF TypeOK, Settles, JobState

LEMMA SignerTypes ==
  ASSUME TypeOK, NEW s \in Signer,
         \/ Lapse(s) \/ MarkOpened(s)
         \/ StartBankId(s) \/ BankIdStarted(s) \/ BankIdNotStarted(s)
         \/ SessionCompletes(s) \/ SessionEnds(s) \/ SessionReported(s) \/ EndReported(s)
         \/ CancelBankId(s) \/ Decline(s)
  PROVE  TypeOK'
  <1> USE BoundsAssumption DEF TypeOK, participants, consent, jobs, signatures
  <1>1. CASE Lapse(s)
    BY <1>1, MishapTypes DEF Lapse
  <1>2. CASE MarkOpened(s)
    BY <1>2 DEF MarkOpened, SignerStatus
  <1>3. CASE StartBankId(s)
    <2>1. starting' \in [Signer -> 0..MaxStarts]
      BY <1>3 DEF StartBankId
    <2> QED
      BY <1>3, <2>1 DEF StartBankId
  <1>4. CASE BankIdStarted(s)
    <2>1. starting' \in [Signer -> 0..MaxStarts]
      BY <1>4 DEF BankIdStarted
    <2>2. signer' \in [Signer -> SignerStatus]
      BY <1>4 DEF BankIdStarted, SignerStatus
    <2> QED
      BY <1>4, <2>1, <2>2 DEF BankIdStarted
  <1>5. CASE BankIdNotStarted(s)
    <2>1. starting' \in [Signer -> 0..MaxStarts]
      BY <1>5 DEF BankIdNotStarted
    <2> QED
      BY <1>5, <2>1 DEF BankIdNotStarted
  <1>6. CASE SessionCompletes(s) \/ SessionEnds(s)
    BY <1>6, MishapTypes DEF SessionCompletes, SessionEnds
  <1>7. CASE SessionReported(s)
    BY <1>7 DEF SessionReported, Queue, JobState
  <1>8. CASE EndReported(s)
    BY <1>8 DEF EndReported
  <1>9. CASE CancelBankId(s)
    <2>1. /\ session' \in [Signer -> {"none", "open", "completed", "ended"}]
          /\ identity' \in [Signer -> {"none", "pending", "collected", "verified", "ended", "failed"}]
          /\ intent' \in [Signer -> {"none", "prepared", "provider_started", "evidence_collected",
                                     "verified", "packaged", "cancelled", "failed"}]
      BY <1>9 DEF CancelBankId
    <2> QED
      BY <1>9, <2>1, MishapTypes DEF CancelBankId
  <1>10. CASE Decline(s)
    <2>1. signer' \in [Signer -> SignerStatus] /\ case' \in CaseStatus
      BY <1>10 DEF Decline, SignerStatus, CaseStatus
    <2> QED
      BY <1>10, <2>1, MishapTypes DEF Decline
  <1> QED
    BY <1>1, <1>2, <1>3, <1>4, <1>5, <1>6, <1>7, <1>8, <1>9, <1>10

LEMMA FailTypes ==
  ASSUME TypeOK, NEW s \in Signer, Fail(s)
  PROVE  signer' \in [Signer -> SignerStatus]
  BY DEF TypeOK, Fail, SignerStatus

LEMMA EvidenceTypes ==
  ASSUME TypeOK, NEW s \in Signer, Collecting(s) \/ Verifying(s)
  PROVE  TypeOK'
  <1> USE DEF TypeOK, participants, consent, jobs, signatures
  <1>1. CASE CollectReads(s) \/ VerifyReads(s)
    <2>1. collect' \in [Signer -> JobState] /\ verify' \in [Signer -> JobState]
      BY <1>1, ZenonT(60) DEF CollectReads, VerifyReads, JobState
    <2> QED
      BY <1>1, <2>1 DEF CollectReads, VerifyReads
  <1>2. CASE Collected(s)
    <2>1. PICK next \in JobState : Settles(next) /\ collect' = [collect EXCEPT ![s] = next]
      BY <1>2 DEF Collected
    <2>2. verify' \in [Signer -> JobState]
      BY <1>2 DEF Collected, Queue, JobState
    <2> QED
      BY <1>2, <2>1, <2>2, SettlesTypes DEF Collected
  <1>3. CASE EvidenceUnreadable(s)
    <2>1. collect' \in [Signer -> JobState]
      BY <1>3 DEF EvidenceUnreadable, JobState
    <2> QED
      BY <1>3, <2>1, FailTypes, MishapTypes DEF EvidenceUnreadable
  <1>4. CASE IdentityReported(s) \/ IdentityReportRefused(s)
    BY <1>4, SMTT(30) DEF IdentityReported, IdentityReportRefused, JobState
  <1>5. CASE IdentityVerified(s)
    <2>1. PICK next \in JobState : Settles(next) /\ verify' = [verify EXCEPT ![s] = next]
      BY <1>5 DEF IdentityVerified
    <2>2. create' \in [Signer -> JobState] /\ signer' \in [Signer -> SignerStatus]
      BY <1>5 DEF IdentityVerified, Queue, JobState, SignerStatus
    <2> QED
      BY <1>5, <2>1, <2>2, SettlesTypes DEF IdentityVerified
  <1>6. CASE IdentityRefused(s)
    <2>1. verify' \in [Signer -> JobState]
      BY <1>6 DEF IdentityRefused, JobState
    <2> QED
      BY <1>6, <2>1, FailTypes, MishapTypes DEF IdentityRefused
  <1> QED
    BY <1>1, <1>2, <1>3, <1>4, <1>5, <1>6 DEF Collecting, Verifying

LEMMA CreationTypes ==
  ASSUME TypeOK, NEW s \in Signer,
         \/ Creating(s) \/ SignerPackaged(s) \/ WorkerLost(s)
         \/ \E d \in Document : Validating(s, d) \/ Admission(s, d)
  PROVE  TypeOK'
  <1> USE DEF TypeOK, participants, consent, jobs, signatures
  <1>1. CASE CreateReads(s)
    <2>1. create' \in [Signer -> JobState] /\ signer' \in [Signer -> SignerStatus]
      BY <1>1 DEF CreateReads, JobState, SignerStatus
    <2> QED
      BY <1>1, <2>1 DEF CreateReads
  <1>2. ASSUME NEW d \in Document, DocumentSigned(s, d)
        PROVE  TypeOK'
    BY <1>2 DEF DocumentSigned, Queue, JobState
  <1>3. CASE AllDocumentsSigned(s)
    <2>1. PICK next \in JobState : Settles(next) /\ create' = [create EXCEPT ![s] = next]
      BY <1>3 DEF AllDocumentsSigned
    <2> QED
      BY <1>3, <2>1, SettlesTypes DEF AllDocumentsSigned
  <1>4. CASE SignerPackaged(s)
    BY <1>4 DEF SignerPackaged, JobState
  <1>5. CASE WorkerLost(s)
    <2>1. /\ collect' \in [Signer -> JobState]
          /\ verify' \in [Signer -> JobState]
          /\ create' \in [Signer -> JobState]
      <3>1. CASE collect' = [collect EXCEPT ![s] = "queued"] /\ UNCHANGED <<verify, create>>
        BY <3>1 DEF JobState
      <3>2. CASE verify' = [verify EXCEPT ![s] = "queued"] /\ UNCHANGED <<collect, create>>
        BY <3>2 DEF JobState
      <3>3. CASE UNCHANGED <<collect, verify>> /\
                 \E next \in {"queued", "dead"} : create' = [create EXCEPT ![s] = next]
        BY <3>3 DEF JobState
      <3>4. CASE UNCHANGED <<collect, verify, create>>
        BY <3>4
      <3> QED
        BY <1>5, <3>1, <3>2, <3>3, <3>4 DEF WorkerLost
    <2>2. ASSUME NEW d \in Document, validate' = [validate EXCEPT ![s][d] = "queued"]
          PROVE  validate' \in [Signer -> [Document -> JobState]]
      BY <2>2 DEF JobState
    <2>3. validate' \in [Signer -> [Document -> JobState]]
      BY <1>5, <2>2 DEF WorkerLost
    <2> QED
      BY <1>5, <2>1, <2>3, MishapTypes DEF WorkerLost
  <1>6. ASSUME NEW d \in Document, Validating(s, d)
        PROVE  TypeOK'
    <2>1. PICK next \in JobState : validate' = [validate EXCEPT ![s][d] = next]
      BY <1>6 DEF Validating, ValidateReads, SignatureReported, SignatureReportRefused, JobState
    <2>2. reports' \subseteq Signer \cup (Signer \X Document)
      BY <1>6 DEF Validating, ValidateReads, SignatureReported, SignatureReportRefused
    <2> QED
      BY <1>6, <2>1, <2>2 DEF Validating, ValidateReads, SignatureReported, SignatureReportRefused
  <1>7. ASSUME NEW d \in Document, Admission(s, d)
        PROVE  TypeOK'
    <2>1. Snapshot(s, d) \in [signer : Signer, document : Document,
                              validated : SUBSET Document, signed : SUBSET Signer]
      BY DEF Snapshot, ValidatedBy, SignedSigners
    <2> QED
      BY <1>7, <2>1 DEF Admission
  <1> QED
    BY <1>1, <1>2, <1>3, <1>4, <1>5, <1>6, <1>7 DEF Creating

LEMMA AdmissionTypes ==
  ASSUME TypeOK, NEW own \in admitting, Admitting(own)
  PROVE  TypeOK'
  <1> USE DEF TypeOK, participants, consent, jobs, signatures
  <1>1. own.signer \in Signer /\ own.document \in Document
    OBVIOUS
  <1>2. CASE SignatureAdmitted(own)
    <2>1. PICK next \in JobState :
               Settles(next) /\ validate' = [validate EXCEPT ![own.signer][own.document] = next]
      BY <1>2 DEF SignatureAdmitted
    <2>2. validate' \in [Signer -> [Document -> JobState]] /\ mishaps' \in 0..MaxMishaps
      BY <1>1, <2>1, SettlesTypes
    <2> QED
      BY <1>1, <1>2, <2>2 DEF SignatureAdmitted
  <1>3. CASE SignatureRejected(own)
    <2>1. signer' \in [Signer -> SignerStatus] /\ validate' \in [Signer -> [Document -> JobState]]
      BY <1>1, <1>3 DEF SignatureRejected, SignerStatus, JobState
    <2> QED
      BY <1>1, <1>3, <2>1, MishapTypes DEF SignatureRejected
  <1>4. CASE SignerSigned(own)
    <2>1. PICK next \in JobState :
               Settles(next) /\ validate' = [validate EXCEPT ![own.signer][own.document] = next]
      BY <1>4 DEF SignerSigned
    <2>2. validate' \in [Signer -> [Document -> JobState]] /\ mishaps' \in 0..MaxMishaps
      BY <1>1, <2>1, SettlesTypes
    <2>3. package' \in [Signer -> JobState] /\ casePackage' \in JobState
      BY <1>1, <1>4 DEF SignerSigned, Queue, JobState
    <2>4. signer' \in [Signer -> SignerStatus]
      BY <1>1, <1>4 DEF SignerSigned, SignerStatus
    <2>5. invitation' \in [Signer -> {"none", "valid", "lapsed", "used"}]
      BY <1>1, <1>4 DEF SignerSigned
    <2> QED
      BY <1>1, <1>4, <2>2, <2>3, <2>4, <2>5 DEF SignerSigned
  <1> QED
    BY <1>2, <1>3, <1>4 DEF Admitting

LEMMA TypeStep == TypeOK /\ [Next]_vars => TypeOK'
  <1>1. ASSUME TypeOK, UNCHANGED vars PROVE TypeOK'
    BY <1>1 DEF vars, TypeOK
  <1> QED
    BY <1>1, CaseTypes, SignerTypes, EvidenceTypes, CreationTypes, AdmissionTypes DEF Next

(* Every variable of the case keeps its type. *)
THEOREM CaseTypeCorrect == Spec => []TypeOK
  BY TypeInit, TypeStep, PTL DEF Spec

-----------------------------------------------------------------------------
(* Identity and consent.  A session at the provider is opened for a prepared
   intent only, and completed for good before anything is collected; that is why
   a late collection never meets an identity that ended without its intent.    *)
Chain ==
    \A s \in Signer :
        /\ case = "ready" => intent[s] = "none"
        /\ intent[s] = "none" => identity[s] = "none" /\ starting[s] = 0
        /\ intent[s] \in {"none", "prepared"} => session[s] = "none"
        /\ intent[s] = "provider_started" /\ identity[s] = "ended" => session[s] = "ended"
        /\ collect[s] # "absent" => session[s] = "completed"
        /\ create[s] = "running" => intent[s] \in {"verified", "packaged"}

(* At most one transaction holds the audit chain, and its signature exists. *)
OneAdmission ==
    /\ \A a, b \in admitting : a = b
    /\ \A own \in admitting : attempt[own.signer][own.document] \in {"signed", "validated"}

ConsentInv ==
    TypeOK /\ Chain /\ IntentMatchesIdentity /\ ConsentBeforeSignature /\ OneAdmission

LEMMA ConsentInit == Init => ConsentInv
  <1> SUFFICES ASSUME Init PROVE ConsentInv
    OBVIOUS
  <1>1. TypeOK
    BY TypeInit
  <1> QED
    BY <1>1 DEF Init, ConsentInv, Chain, IntentMatchesIdentity, ConsentBeforeSignature, OneAdmission

(* The steps that touch neither consent nor signatures. *)
LEMMA ConsentFrame ==
  ASSUME ConsentInv, TypeOK', case' = "ready" => case = "ready",
         UNCHANGED <<intent, identity, session, starting, collect, create, attempt, admitting>>
  PROVE  ConsentInv'
  BY DEF ConsentInv, Chain, IntentMatchesIdentity, ConsentBeforeSignature, OneAdmission

LEMMA ConsentCase ==
  ASSUME ConsentInv, TypeOK', Send \/ Cancel \/ Remind \/ Packaging
  PROVE  ConsentInv'
  <1> USE DEF participants, consent, jobs, signatures
  <1>1. CASE Send
    <2>1. \A s \in Signer : intent[s] = "none"
      BY <1>1 DEF Send, CaseMoves, ConsentInv, Chain
    <2>2. intent' = [s \in Signer |-> "prepared"] /\ case' = "sent"
      BY <1>1 DEF Send
    <2>3. UNCHANGED <<identity, session, starting, collect, create, attempt, admitting>>
      BY <1>1 DEF Send
    <2> QED
      BY <2>1, <2>2, <2>3 DEF ConsentInv, Chain, IntentMatchesIdentity, ConsentBeforeSignature, OneAdmission
  <1>2. CASE Cancel \/ Remind \/ Packaging
    BY <1>2, ConsentFrame DEF Cancel, Remind, Packaging, CasePackaged, CasePackageRejected
  <1> QED
    BY <1>1, <1>2

LEMMA ConsentSigner ==
  ASSUME ConsentInv, TypeOK', NEW s \in Signer,
         \/ Lapse(s) \/ MarkOpened(s)
         \/ StartBankId(s) \/ BankIdStarted(s) \/ BankIdNotStarted(s)
         \/ SessionCompletes(s) \/ SessionEnds(s) \/ SessionReported(s) \/ EndReported(s)
         \/ CancelBankId(s) \/ Decline(s)
  PROVE  ConsentInv'
  <1> USE DEF participants, consent, jobs, signatures, ConsentInv, TypeOK, Chain,
              IntentMatchesIdentity, ConsentBeforeSignature, OneAdmission
  <1>1. CASE Lapse(s) \/ MarkOpened(s) \/ Decline(s)
    BY <1>1, ConsentFrame DEF Lapse, MarkOpened, Decline
  <1>2. CASE StartBankId(s)
    BY <1>2 DEF StartBankId
  <1>3. CASE BankIdStarted(s)
    BY <1>3 DEF BankIdStarted
  <1>4. CASE BankIdNotStarted(s)
    BY <1>4 DEF BankIdNotStarted
  <1>5. CASE SessionCompletes(s)
    BY <1>5 DEF SessionCompletes
  <1>6. CASE SessionEnds(s)
    BY <1>6 DEF SessionEnds
  <1>7. CASE SessionReported(s)
    BY <1>7 DEF SessionReported, Queue
  <1>8. CASE EndReported(s)
    BY <1>8 DEF EndReported
  <1>9. CASE CancelBankId(s)
    BY <1>9 DEF CancelBankId
  <1> QED
    BY <1>1, <1>2, <1>3, <1>4, <1>5, <1>6, <1>7, <1>8, <1>9

LEMMA ConsentEvidence ==
  ASSUME ConsentInv, TypeOK', NEW s \in Signer, Collecting(s) \/ Verifying(s)
  PROVE  ConsentInv'
  <1> USE DEF participants, consent, jobs, signatures, ConsentInv, TypeOK, Chain,
              IntentMatchesIdentity, ConsentBeforeSignature, OneAdmission
  <1>1. CASE CollectReads(s)
    BY <1>1 DEF CollectReads
  <1>2. CASE Collected(s)
    BY <1>2 DEF Collected
  <1>3. CASE EvidenceUnreadable(s)
    BY <1>3 DEF EvidenceUnreadable
  <1>4. CASE VerifyReads(s) \/ IdentityReported(s) \/ IdentityReportRefused(s)
    BY <1>4, ConsentFrame DEF VerifyReads, IdentityReported, IdentityReportRefused
  <1>5. CASE IdentityVerified(s)
    BY <1>5 DEF IdentityVerified, Queue
  <1>6. CASE IdentityRefused(s)
    BY <1>6 DEF IdentityRefused
  <1> QED
    BY <1>1, <1>2, <1>3, <1>4, <1>5, <1>6 DEF Collecting, Verifying

LEMMA ConsentCreation ==
  ASSUME ConsentInv, TypeOK', NEW s \in Signer,
         \/ Creating(s) \/ SignerPackaged(s) \/ WorkerLost(s)
         \/ \E d \in Document : Validating(s, d) \/ Admission(s, d)
  PROVE  ConsentInv'
  <1> USE DEF participants, consent, jobs, signatures, ConsentInv, TypeOK, Chain,
              IntentMatchesIdentity, ConsentBeforeSignature, OneAdmission
  <1>1. CASE CreateReads(s)
    BY <1>1 DEF CreateReads
  <1>2. ASSUME NEW d \in Document, DocumentSigned(s, d)
        PROVE  ConsentInv'
    BY <1>2 DEF DocumentSigned
  <1>3. CASE AllDocumentsSigned(s)
    BY <1>3 DEF AllDocumentsSigned
  <1>4. CASE SignerPackaged(s)
    BY <1>4 DEF SignerPackaged
  <1>5. CASE WorkerLost(s)
    BY <1>5 DEF WorkerLost
  <1>6. ASSUME NEW d \in Document, Validating(s, d)
        PROVE  ConsentInv'
    BY <1>6, ConsentFrame DEF Validating, ValidateReads, SignatureReported, SignatureReportRefused
  <1>7. ASSUME NEW d \in Document, Admission(s, d)
        PROVE  ConsentInv'
    BY <1>7 DEF Admission, Snapshot
  <1> QED
    BY <1>1, <1>2, <1>3, <1>4, <1>5, <1>6, <1>7 DEF Creating

LEMMA ConsentAdmission ==
  ASSUME ConsentInv, TypeOK', NEW own \in admitting, Admitting(own)
  PROVE  ConsentInv'
  <1> USE DEF participants, consent, jobs, signatures
  <1>1. own.signer \in Signer /\ own.document \in Document
    BY DEF ConsentInv, TypeOK
  <1>2. admitting' = {}
    BY DEF ConsentInv, OneAdmission, Admitting, SignatureAdmitted, SignatureRejected, SignerSigned
  <1>3. ASSUME NEW state, attempt' = [attempt EXCEPT ![own.signer][own.document] = state]
        PROVE  \A s \in Signer, d \in Document : attempt'[s][d] # "none" => attempt[s][d] # "none"
    <2>1. attempt[own.signer][own.document] # "none"
      BY DEF ConsentInv, OneAdmission
    <2>2. \A s \in Signer, d \in Document :
             s # own.signer \/ d # own.document => attempt'[s][d] = attempt[s][d]
      BY <1>1, <1>3 DEF TypeOK, ConsentInv
    <2> QED
      BY <2>1, <2>2
  <1>4. CASE SignatureAdmitted(own) \/ SignatureRejected(own)
    <2>1. UNCHANGED <<case, intent, identity, session, starting, collect, create>>
      BY <1>4 DEF SignatureAdmitted, SignatureRejected
    <2>2. \A s \in Signer, d \in Document : attempt'[s][d] # "none" => attempt[s][d] # "none"
      BY <1>3, <1>4 DEF SignatureAdmitted, SignatureRejected
    <2> QED
      BY <1>2, <2>1, <2>2 DEF ConsentInv, Chain, IntentMatchesIdentity, ConsentBeforeSignature, OneAdmission
  <1>5. CASE SignerSigned(own)
    <2>1. UNCHANGED <<case, identity, session, starting, collect, create>>
      BY <1>5 DEF SignerSigned
    <2>2. \A s \in Signer, d \in Document : attempt'[s][d] # "none" => attempt[s][d] # "none"
      BY <1>3, <1>5 DEF SignerSigned
    <2>3. \A s \in Signer : \/ intent'[s] = intent[s]
                            \/ intent[s] = "verified" /\ intent'[s] = "packaged"
      BY <1>1, <1>5 DEF SignerSigned, ConsentInv, TypeOK
    <2> QED
      BY <1>2, <2>1, <2>2, <2>3 DEF ConsentInv, Chain, IntentMatchesIdentity, ConsentBeforeSignature, OneAdmission
  <1> QED
    BY <1>4, <1>5 DEF Admitting

LEMMA ConsentStep == ConsentInv /\ [Next]_vars => ConsentInv'
  <1> SUFFICES ASSUME ConsentInv, [Next]_vars PROVE ConsentInv'
    OBVIOUS
  <1>1. TypeOK'
    BY TypeStep DEF ConsentInv
  <1>2. CASE UNCHANGED vars
    BY <1>1, <1>2, ConsentFrame DEF vars
  <1> QED
    BY <1>1, <1>2, ConsentCase, ConsentSigner, ConsentEvidence, ConsentCreation, ConsentAdmission
    DEF Next

LEMMA ConsentInvariance == Spec => []ConsentInv
  BY ConsentInit, ConsentStep, PTL DEF Spec

(* The consent and the identity that carries it never disagree. *)
THEOREM ConsentMatches == Spec => []IntentMatchesIdentity
  <1>1. ConsentInv => IntentMatchesIdentity
    BY DEF ConsentInv
  <1> QED
    BY <1>1, ConsentInvariance, PTL

(* No signature without a verified identity and consent. *)
THEOREM ConsentFirst == Spec => []ConsentBeforeSignature
  <1>1. ConsentInv => ConsentBeforeSignature
    BY DEF ConsentInv
  <1> QED
    BY <1>1, ConsentInvariance, PTL

(* The steps that change what is known of an identity. *)
IdentityMoves(s) ==
    \/ BankIdStarted(s) \/ EndReported(s) \/ CancelBankId(s)
    \/ Collected(s) \/ EvidenceUnreadable(s) \/ IdentityVerified(s) \/ IdentityRefused(s)

LEMMA IdentityChanges ==
  ASSUME [Next]_vars
  PROVE  identity' = identity \/ \E s \in Signer : IdentityMoves(s)
  <1> USE DEF participants, consent, jobs, signatures
  <1>1. CASE Send \/ Cancel \/ Remind \/ Packaging \/ UNCHANGED vars
    BY <1>1 DEF Send, Cancel, Remind, Packaging, CasePackaged, CasePackageRejected, vars
  <1>2. ASSUME NEW own \in admitting, Admitting(own)
        PROVE  identity' = identity
    BY <1>2 DEF Admitting, SignatureAdmitted, SignerSigned, SignatureRejected
  <1>3. ASSUME NEW s \in Signer,
               \/ Lapse(s) \/ MarkOpened(s) \/ StartBankId(s) \/ BankIdNotStarted(s)
               \/ SessionCompletes(s) \/ SessionEnds(s) \/ SessionReported(s) \/ Decline(s)
        PROVE  identity' = identity
    BY <1>3 DEF Lapse, MarkOpened, StartBankId, BankIdNotStarted, SessionCompletes, SessionEnds,
                SessionReported, Decline
  <1>4. ASSUME NEW s \in Signer, Collecting(s) \/ Verifying(s)
        PROVE  identity' = identity \/ IdentityMoves(s)
    BY <1>4 DEF Collecting, Verifying, CollectReads, VerifyReads, IdentityReported,
                IdentityReportRefused, IdentityMoves
  <1>5. ASSUME NEW s \in Signer,
               \/ Creating(s) \/ SignerPackaged(s) \/ WorkerLost(s)
               \/ \E d \in Document : Validating(s, d) \/ Admission(s, d)
        PROVE  identity' = identity
    BY <1>5 DEF Creating, CreateReads, AllDocumentsSigned, DocumentSigned, SignerPackaged, WorkerLost,
                Validating, ValidateReads, SignatureReported, SignatureReportRefused, Admission
  <1> QED
    BY <1>1, <1>2, <1>3, <1>4, <1>5 DEF Next, IdentityMoves

(* What is settled about an identity stays, whatever comes late. *)
THEOREM EvidenceStays == Spec => EvidenceKept
  <1>1. ASSUME ConsentInv, [Next]_vars, NEW s \in Signer
        PROVE  /\ identity[s] = "collected" => identity'[s] \in {"collected", "verified", "failed"}
               /\ identity[s] \in {"verified", "ended", "failed"} => identity'[s] = identity[s]
    <2>1. CASE identity' = identity
      BY <2>1
    <2>2. ASSUME NEW t \in Signer, IdentityMoves(t)
          PROVE  /\ identity[s] = "collected" => identity'[s] \in {"collected", "verified", "failed"}
                 /\ identity[s] \in {"verified", "ended", "failed"} => identity'[s] = identity[s]
      <3>1. identity \in [Signer -> {"none", "pending", "collected", "verified", "ended", "failed"}]
        BY <1>1 DEF ConsentInv, TypeOK
      <3>2. CASE BankIdStarted(t)
        <4>1. identity[t] = "none"
          BY <1>1, <3>2 DEF BankIdStarted, ConsentInv, IntentMatchesIdentity
        <4>2. identity' = [identity EXCEPT ![t] = "pending"]
          BY <3>2 DEF BankIdStarted
        <4> QED
          BY <3>1, <4>1, <4>2
      <3>3. CASE EndReported(t) \/ CancelBankId(t) \/ Collected(t) \/ EvidenceUnreadable(t)
        <4>1. PICK to \in {"ended", "collected", "failed"} :
                identity' = [identity EXCEPT ![t] = IF @ = "pending" THEN to ELSE @]
          BY <3>1, <3>3 DEF EndReported, CancelBankId, Collected, EvidenceUnreadable
        <4> QED
          BY <3>1, <4>1
      <3>4. CASE IdentityVerified(t)
        <4>1. identity' = [identity EXCEPT ![t] = IF @ = "collected" THEN "verified" ELSE @]
          BY <3>4 DEF IdentityVerified
        <4> QED
          BY <3>1, <4>1
      <3>5. CASE IdentityRefused(t)
        <4>1. identity[t] \in {"collected", "failed"} /\ identity' = [identity EXCEPT ![t] = "failed"]
          BY <3>5 DEF IdentityRefused
        <4> QED
          BY <3>1, <4>1
      <3> QED
        BY <2>2, <3>2, <3>3, <3>4, <3>5 DEF IdentityMoves
    <2> QED
      BY <1>1, <2>1, <2>2, IdentityChanges
  <1>2. ConsentInv /\ [Next]_vars => EvidenceKeptStep
    BY <1>1 DEF EvidenceKeptStep
  <1> QED
    BY <1>2, ConsentInit, ConsentStep, PTL DEF Spec, EvidenceKept

-----------------------------------------------------------------------------
(* Turns and admissions.  While a transaction holds the audit chain, what it has
   read of the others stays true: that is why the last of several signers who
   finish at the same time knows that it is the last.                         *)
Snapshots ==
    \A own \in admitting : /\ own.signed = SignedSigners
                           /\ own.validated = ValidatedBy(own.signer)

(* Who has started was invited, and was not waiting for anybody. *)
Turn ==
    \A s \in Signer :
        /\ starting[s] > 0 \/ identity[s] # "none" =>
              signer[s] # "pending" /\ ~Blocked(s, SignedSigners)
        /\ invitation[s] = "valid" => signer[s] # "pending"

(* A group is invited as a whole. *)
Groups ==
    \A s, t \in Signer : Order[s] = Order[t] /\ signer[s] = "pending" => signer[t] = "pending"

(* Every group has somebody whose signature the case needs. *)
Manned == \A s \in Signer : \E t \in Required : Order[t] = Order[s]

TurnInv ==
    /\ Snapshots
    /\ Turn
    /\ Groups
    /\ SignedHasEvidence
    /\ LastSignerPackagesCase
    /\ Manned => TurnIsInvited

LEMMA TurnInit == Init => TurnInv
  <1> SUFFICES ASSUME Init PROVE TurnInv
    OBVIOUS
  <1> USE DEF Init
  <1>1. SignedSigners = {}
    BY DEF SignedSigners
  <1>2. Snapshots /\ Turn /\ Groups /\ TurnIsInvited
    BY DEF Snapshots, Turn, Groups, TurnIsInvited
  <1>3. SignedHasEvidence /\ LastSignerPackagesCase
    BY <1>1, SignersAssumption DEF SignedHasEvidence, LastSignerPackagesCase, RequiredHaveSigned
  <1> QED
    BY <1>2, <1>3 DEF TurnInv

(* What a step does that neither finishes a signer nor invites or starts one. *)
Quiet ==
    /\ SignedSigners' = SignedSigners
    /\ \A s \in Signer :
          /\ signer'[s] = "pending" <=> signer[s] = "pending"
          /\ intent'[s] # "none" => intent[s] # "none"
          /\ starting'[s] > 0 \/ identity'[s] # "none" => starting[s] > 0 \/ identity[s] # "none"
          /\ identity[s] = "verified" => identity'[s] = "verified"
          /\ invitation'[s] = "valid" => signer[s] # "pending"
          /\ ValidatedBy(s) \subseteq ValidatedBy(s)'
          /\ admitting' = {} \/ ValidatedBy(s)' = ValidatedBy(s)
    /\ casePackage' = "absent" => casePackage = "absent"
    /\ admitting' \subseteq admitting

LEMMA QuietKeeps == TypeOK /\ TurnInv /\ Quiet => TurnInv'
  <1> SUFFICES ASSUME TypeOK, TurnInv, Quiet PROVE TurnInv'
    OBVIOUS
  <1> USE DEF TurnInv, Quiet
  <1>1. Snapshots'
    BY DEF Snapshots, TypeOK
  <1>2. Turn'
    BY DEF Turn, Blocked
  <1>3. Groups'
    BY DEF Groups
  <1>4. SignedHasEvidence'
    BY DEF SignedHasEvidence, ValidatedBy, SignedSigners
  <1>5. LastSignerPackagesCase'
    BY DEF LastSignerPackagesCase, RequiredHaveSigned
  <1>6. Manned => TurnIsInvited'
    BY DEF TurnIsInvited, Blocked
  <1> QED
    BY <1>1, <1>2, <1>3, <1>4, <1>5, <1>6

(* A signer moves between two states of which neither is the first nor the last. *)
LEMMA SignerMoves ==
  ASSUME signer \in [Signer -> SignerStatus], NEW s \in Signer, NEW status,
         signer' = [signer EXCEPT ![s] = status],
         status = signer[s] \/ {status, signer[s]} \cap {"pending", "signed"} = {}
  PROVE  /\ SignedSigners' = SignedSigners
         /\ \A t \in Signer : signer'[t] = "pending" <=> signer[t] = "pending"
  BY DEF SignedSigners

(* The frame of a step: what of the turns it leaves alone. *)
LEMMA QuietFrame ==
  ASSUME TypeOK,
         SignedSigners' = SignedSigners,
         \A s \in Signer : signer'[s] = "pending" <=> signer[s] = "pending",
         UNCHANGED <<intent, identity, starting, attempt>>,
         \A s \in Signer : invitation'[s] = "valid" => invitation[s] = "valid" \/ signer[s] # "pending",
         Turn,
         casePackage' = "absent" => casePackage = "absent",
         admitting' \subseteq admitting
  PROVE  Quiet
  BY DEF Quiet, Turn, ValidatedBy

(* Who has a collection job has started to identify. *)
LEMMA CollectStarted ==
  ASSUME ConsentInv, TurnInv, NEW s \in Signer, collect[s] # "absent" \/ identity[s] # "none"
  PROVE  identity[s] # "none" /\ signer[s] # "pending"
  BY DEF ConsentInv, TypeOK, Chain, IntentMatchesIdentity, TurnInv, Turn

LEMMA TurnSend ==
  ASSUME ConsentInv, TurnInv, Send
  PROVE  TurnInv'
  <1> USE DEF participants, consent, jobs, signatures
  <1>1. \A s \in Signer : intent[s] = "none" /\ identity[s] = "none" /\ starting[s] = 0
    BY DEF Send, CaseMoves, ConsentInv, Chain
  <1>2. SignedSigners = {}
    BY <1>1 DEF TurnInv, SignedHasEvidence, SignedSigners
  <1>3. admitting = {}
    <2>1. ASSUME NEW own \in admitting
          PROVE  own.signer \in Signer /\ own.document \in Document
      BY DEF ConsentInv, TypeOK
    <2> QED
      BY <1>1, <2>1 DEF ConsentInv, ConsentBeforeSignature, OneAdmission
  <1> DEFINE first == {s \in Signer : \A t \in Signer : Order[s] <= Order[t]}
  <1>4. /\ signer' = [s \in Signer |-> IF s \in first THEN "invited" ELSE signer[s]]
        /\ invitation' = [s \in Signer |-> IF s \in first THEN "valid" ELSE "none"]
        /\ UNCHANGED <<identity, starting, admitting, casePackage, attempt>>
    BY DEF Send
  <1>5. SignedSigners' = {}
    BY <1>2, <1>4 DEF SignedSigners
  <1>6. Snapshots'
    BY <1>3, <1>4 DEF Snapshots
  <1>7. Turn'
    <2>1. \A s \in Signer : s \in first <=> invitation'[s] = "valid"
      BY <1>4
    <2> QED
      BY <1>1, <1>4, <2>1 DEF Turn
  <1>8. Groups'
    BY <1>4 DEF TurnInv, Groups
  <1>9. SignedHasEvidence' /\ LastSignerPackagesCase'
    BY <1>5, SignersAssumption DEF SignedHasEvidence, LastSignerPackagesCase, RequiredHaveSigned
  <1>10. Manned => TurnIsInvited'
    <2> SUFFICES ASSUME Manned, NEW s \in Signer, signer'[s] = "pending"
                 PROVE  \E t \in Required : Order[t] < Order[s]
      BY <1>5 DEF TurnIsInvited, Blocked
    <2>1. PICK t \in Signer : ~(Order[s] <= Order[t])
      BY <1>4
    <2>2. PICK u \in Required : Order[u] = Order[t]
      BY DEF Manned
    <2> QED
      BY <2>1, <2>2, OrderAssumption, SignersAssumption
  <1> QED
    BY <1>6, <1>7, <1>8, <1>9, <1>10 DEF TurnInv

LEMMA TurnCase ==
  ASSUME ConsentInv, TurnInv, Cancel \/ Remind \/ Packaging
  PROVE  TurnInv'
  <1> USE DEF ConsentInv, TurnInv, TypeOK, participants, consent, jobs, signatures, SignedSigners
  <1>1. CASE Cancel
    BY <1>1, QuietFrame, QuietKeeps DEF Cancel
  <1>2. CASE Remind
    BY <1>2, QuietFrame, QuietKeeps DEF Remind
  <1>3. CASE Packaging
    BY <1>3, QuietFrame, QuietKeeps DEF Packaging, CasePackaged, CasePackageRejected
  <1> QED
    BY <1>1, <1>2, <1>3

LEMMA TurnSigner ==
  ASSUME ConsentInv, TurnInv, NEW s \in Signer,
         \/ Lapse(s) \/ MarkOpened(s)
         \/ StartBankId(s) \/ BankIdStarted(s) \/ BankIdNotStarted(s)
         \/ SessionCompletes(s) \/ SessionEnds(s) \/ SessionReported(s) \/ EndReported(s)
         \/ CancelBankId(s) \/ Decline(s)
  PROVE  TurnInv'
  <1> USE DEF participants, consent, jobs, signatures
  <1>0. TypeOK /\ Turn
    BY DEF ConsentInv, TurnInv
  <1>1. CASE Lapse(s)
    BY <1>0, <1>1, QuietFrame, QuietKeeps DEF Lapse, TypeOK, SignedSigners
  <1>2. CASE MarkOpened(s)
    <2>1. /\ SignedSigners' = SignedSigners
          /\ \A t \in Signer : signer'[t] = "pending" <=> signer[t] = "pending"
      BY <1>0, <1>2, SignerMoves DEF MarkOpened, TypeOK
    <2> QED
      BY <1>0, <1>2, <2>1, QuietFrame, QuietKeeps DEF MarkOpened
  <1>3. CASE StartBankId(s)
    <2>1. Turn'
      BY <1>0, <1>3 DEF StartBankId, Turn, TypeOK, Blocked, SignedSigners
    <2> QED
      BY <1>3, <2>1 DEF StartBankId, TurnInv, Snapshots, Groups, SignedHasEvidence, LastSignerPackagesCase,
                        TurnIsInvited, ValidatedBy, SignedSigners, RequiredHaveSigned, Blocked
  <1>4. CASE BankIdStarted(s)
    <2>1. /\ SignedSigners' = SignedSigners
          /\ \A t \in Signer : signer'[t] = "pending" <=> signer[t] = "pending"
      BY <1>0, <1>4 DEF BankIdStarted, TypeOK, SignedSigners
    <2>2. intent[s] = "prepared" /\ identity[s] = "none"
      BY <1>4 DEF BankIdStarted, ConsentInv, IntentMatchesIdentity
    <2>3. UNCHANGED <<invitation, casePackage, attempt, admitting>>
      BY <1>4 DEF BankIdStarted
    <2>4. \A t \in Signer :
              /\ intent'[t] # "none" => intent[t] # "none"
              /\ starting'[t] > 0 \/ identity'[t] # "none" => starting[t] > 0 \/ identity[t] # "none"
              /\ identity[t] = "verified" => identity'[t] = "verified"
      BY <1>0, <1>4, <2>2 DEF BankIdStarted, TypeOK
    <2>5. Quiet
      BY <1>0, <2>1, <2>3, <2>4 DEF Quiet, Turn, ValidatedBy
    <2> QED
      BY <1>0, <2>5, QuietKeeps
  <1>5. CASE BankIdNotStarted(s)
    <2>1. Quiet
      BY <1>0, <1>5 DEF BankIdNotStarted, Quiet, Turn, TypeOK, ValidatedBy, SignedSigners
    <2> QED
      BY <1>0, <2>1, QuietKeeps
  <1>6. CASE SessionCompletes(s) \/ SessionEnds(s) \/ SessionReported(s)
    BY <1>0, <1>6, QuietFrame, QuietKeeps
    DEF SessionCompletes, SessionEnds, SessionReported, SignedSigners
  <1>7. CASE EndReported(s) \/ CancelBankId(s)
    <2>1. \A t \in Signer :
              /\ identity'[t] # "none" => identity[t] # "none"
              /\ identity[t] = "verified" => identity'[t] = "verified"
              /\ intent'[t] # "none" => intent[t] # "none"
      BY <1>0, <1>7 DEF EndReported, CancelBankId, TypeOK
    <2>2. UNCHANGED <<signer, invitation, starting, casePackage, attempt, admitting>>
      BY <1>7 DEF EndReported, CancelBankId
    <2>3. Quiet
      BY <1>0, <2>1, <2>2 DEF Quiet, Turn, ValidatedBy, SignedSigners
    <2> QED
      BY <1>0, <2>3, QuietKeeps
  <1>8. CASE Decline(s)
    <2>1. /\ SignedSigners' = SignedSigners
          /\ \A t \in Signer : signer'[t] = "pending" <=> signer[t] = "pending"
      BY <1>0, <1>8 DEF Decline, TypeOK, SignedSigners
    <2> QED
      BY <1>0, <1>8, <2>1, QuietFrame, QuietKeeps DEF Decline, TypeOK
  <1> QED
    BY <1>1, <1>2, <1>3, <1>4, <1>5, <1>6, <1>7, <1>8

(* A signer who fails had started and had not finished. *)
LEMMA FailMoves ==
  ASSUME TypeOK, NEW s \in Signer, signer[s] # "pending", Fail(s)
  PROVE  /\ SignedSigners' = SignedSigners
         /\ \A t \in Signer : signer'[t] = "pending" <=> signer[t] = "pending"
  BY DEF TypeOK, Fail, SignedSigners

LEMMA TurnEvidence ==
  ASSUME ConsentInv, TurnInv, NEW s \in Signer, Collecting(s) \/ Verifying(s)
  PROVE  TurnInv'
  <1> USE DEF participants, consent, jobs, signatures
  <1>0. TypeOK /\ Turn
    BY DEF ConsentInv, TurnInv
  <1>1. CASE CollectReads(s) \/ VerifyReads(s) \/ IdentityReported(s) \/ IdentityReportRefused(s)
    BY <1>0, <1>1, QuietFrame, QuietKeeps
    DEF CollectReads, VerifyReads, IdentityReported, IdentityReportRefused, SignedSigners
  <1>2. ASSUME UNCHANGED <<invitation, starting, casePackage, attempt, admitting>>,
               SignedSigners' = SignedSigners,
               \A t \in Signer :
                  /\ signer'[t] = "pending" <=> signer[t] = "pending"
                  /\ identity'[t] # "none" => identity[t] # "none"
                  /\ identity[t] = "verified" => identity'[t] = "verified"
                  /\ intent'[t] # "none" => intent[t] # "none"
        PROVE  TurnInv'
    <2>1. Quiet
      BY <1>0, <1>2 DEF Quiet, Turn, ValidatedBy
    <2> QED
      BY <1>0, <2>1, QuietKeeps
  <1>3. CASE Collected(s)
    BY <1>0, <1>2, <1>3 DEF Collected, TypeOK, SignedSigners
  <1>4. CASE EvidenceUnreadable(s)
    <2>1. signer[s] # "pending"
      BY <1>4, CollectStarted DEF EvidenceUnreadable
    <2>2. Fail(s)
      BY <1>4 DEF EvidenceUnreadable
    <2>3. /\ SignedSigners' = SignedSigners
          /\ \A t \in Signer : signer'[t] = "pending" <=> signer[t] = "pending"
      BY <1>0, <2>1, <2>2, FailMoves
    <2> QED
      BY <1>0, <1>2, <1>4, <2>3 DEF EvidenceUnreadable, TypeOK
  <1>5. CASE IdentityVerified(s)
    <2>1. /\ SignedSigners' = SignedSigners
          /\ \A t \in Signer : signer'[t] = "pending" <=> signer[t] = "pending"
      BY <1>0, <1>5 DEF IdentityVerified, TypeOK, SignedSigners
    <2> QED
      BY <1>0, <1>2, <1>5, <2>1 DEF IdentityVerified, TypeOK
  <1>6. CASE IdentityRefused(s)
    <2>1. signer[s] # "pending"
      BY <1>6, CollectStarted DEF IdentityRefused
    <2>2. Fail(s)
      BY <1>6 DEF IdentityRefused
    <2>3. /\ SignedSigners' = SignedSigners
          /\ \A t \in Signer : signer'[t] = "pending" <=> signer[t] = "pending"
      BY <1>0, <2>1, <2>2, FailMoves
    <2> QED
      BY <1>0, <1>2, <1>6, <2>3 DEF IdentityRefused, TypeOK
  <1> QED
    BY <1>1, <1>3, <1>4, <1>5, <1>6 DEF Collecting, Verifying

LEMMA TurnCreation ==
  ASSUME ConsentInv, TurnInv, NEW s \in Signer,
         \/ Creating(s) \/ SignerPackaged(s) \/ WorkerLost(s)
         \/ \E d \in Document : Validating(s, d) \/ Admission(s, d)
  PROVE  TurnInv'
  <1> USE DEF participants, consent, jobs, signatures
  <1>0. TypeOK /\ Turn
    BY DEF ConsentInv, TurnInv
  <1>1. CASE CreateReads(s)
    <2>1. /\ SignedSigners' = SignedSigners
          /\ \A t \in Signer : signer'[t] = "pending" <=> signer[t] = "pending"
      BY <1>0, <1>1 DEF CreateReads, TypeOK, SignedSigners
    <2> QED
      BY <1>0, <1>1, <2>1, QuietFrame, QuietKeeps DEF CreateReads
  <1>2. ASSUME NEW d \in Document, DocumentSigned(s, d)
        PROVE  TurnInv'
    <2>1. \A t \in Signer : ValidatedBy(t)' = ValidatedBy(t)
      BY <1>0, <1>2 DEF DocumentSigned, TypeOK, ValidatedBy
    <2>2. Quiet
      BY <1>0, <1>2, <2>1 DEF DocumentSigned, Quiet, Turn, SignedSigners
    <2> QED
      BY <1>0, <2>2, QuietKeeps
  <1>3. CASE AllDocumentsSigned(s) \/ WorkerLost(s)
    BY <1>0, <1>3, QuietFrame, QuietKeeps DEF AllDocumentsSigned, WorkerLost, SignedSigners
  <1>4. CASE SignerPackaged(s)
    <2>1. \A t \in Signer : intent'[t] # "none" => intent[t] # "none"
      BY <1>0, <1>4 DEF SignerPackaged, TypeOK
    <2>2. UNCHANGED <<signer, invitation, identity, starting, casePackage, attempt, admitting>>
      BY <1>4 DEF SignerPackaged
    <2>3. Quiet
      BY <1>0, <2>1, <2>2 DEF Quiet, Turn, ValidatedBy, SignedSigners
    <2> QED
      BY <1>0, <2>3, QuietKeeps
  <1>5. ASSUME NEW d \in Document, Validating(s, d)
        PROVE  TurnInv'
    BY <1>0, <1>5, QuietFrame, QuietKeeps
    DEF Validating, ValidateReads, SignatureReported, SignatureReportRefused, SignedSigners
  <1>6. ASSUME NEW d \in Document, Admission(s, d)
        PROVE  TurnInv'
    <2>1. UNCHANGED <<case, participants, consent, jobs, attempt>>
      BY <1>6 DEF Admission
    <2>2. admitting' = {Snapshot(s, d)}
      BY <1>6 DEF Admission
    <2>3. Snapshots'
      BY <2>1, <2>2 DEF Snapshots, Snapshot, SignedSigners, ValidatedBy
    <2> QED
      BY <2>1, <2>3 DEF TurnInv, Turn, Groups, SignedHasEvidence, LastSignerPackagesCase,
                        TurnIsInvited, SignedSigners, RequiredHaveSigned, Blocked
  <1> QED
    BY <1>1, <1>2, <1>3, <1>4, <1>5, <1>6 DEF Creating

(* The admission that finishes a signer: who is invited next is everybody whose
   turn has come, and the case is packaged if nobody is missing.              *)
LEMMA TurnFinish ==
  ASSUME ConsentInv, TurnInv, NEW own \in admitting, SignerSigned(own)
  PROVE  TurnInv'
  <1> USE DEF participants, consent, jobs, signatures
  <1> DEFINE s == own.signer
             d == own.document
             signed == own.signed \cup (IF signer[s] = "signing" THEN {s} ELSE {})
             next == NextGroup(signed)
  <1>0. TypeOK /\ Turn /\ s \in Signer /\ d \in Document
    BY DEF ConsentInv, TurnInv, TypeOK
  <1>1. /\ EveryDocument(own.validated \cup {d})
        /\ attempt' = [attempt EXCEPT ![s][d] = "validated"]
        /\ admitting' = admitting \ {own}
        /\ signer' = [t \in Signer |-> IF t = s /\ signer[s] = "signing" THEN "signed"
                                       ELSE IF t \in next THEN "invited" ELSE signer[t]]
        /\ invitation' = [t \in Signer |-> IF t = s THEN "used"
                                           ELSE IF t \in next THEN "valid" ELSE invitation[t]]
        /\ intent' = [intent EXCEPT ![s] = IF @ = "verified" THEN "packaged" ELSE @]
        /\ casePackage' = IF RequiredHaveSigned(signed) THEN Queue(casePackage) ELSE casePackage
        /\ UNCHANGED <<identity, starting>>
    BY DEF SignerSigned
  <1>2. own.signed = SignedSigners /\ own.validated = ValidatedBy(s)
    BY DEF TurnInv, Snapshots
  <1>3. \A t \in next : signer[t] = "pending"
    BY DEF NextGroup
  <1>4. signed = SignedSigners'
    BY <1>0, <1>1, <1>2, <1>3 DEF SignedSigners
  <1>5. Snapshots'
    BY <1>1 DEF Snapshots, ConsentInv, OneAdmission
  <1>6. SignedSigners \subseteq SignedSigners'
    BY <1>2, <1>4
  <1>7. \A t \in Signer : Blocked(t, signed) => Blocked(t, SignedSigners)
    BY <1>4, <1>6 DEF Blocked
  <1>8. \A t \in Signer : signer'[t] = "pending" <=> signer[t] = "pending" /\ t \notin next
    BY <1>1, <1>3
  <1>9. Turn'
    BY <1>0, <1>1, <1>3, <1>4, <1>7, <1>8 DEF Turn, Blocked
  <1>10. Groups'
    BY <1>8 DEF TurnInv, Groups, NextGroup
  <1>11. SignedHasEvidence'
    <2>1. \A e \in Document : attempt'[s][e] = "validated"
      BY <1>0, <1>1, <1>2 DEF EveryDocument, ValidatedBy, TypeOK
    <2>2. \A t \in Signer, e \in Document : attempt[t][e] = "validated" => attempt'[t][e] = "validated"
      BY <1>0, <1>1 DEF TypeOK
    <2>3. identity[s] = "verified"
      BY <1>0 DEF ConsentInv, OneAdmission, ConsentBeforeSignature
    <2>4. SignedSigners' \subseteq SignedSigners \cup {s}
      BY <1>2, <1>4
    <2> QED
      BY <1>1, <2>1, <2>2, <2>3, <2>4 DEF TurnInv, SignedHasEvidence, SignedSigners
  <1>12. LastSignerPackagesCase'
    BY <1>1, <1>4, <1>6 DEF TurnInv, LastSignerPackagesCase, RequiredHaveSigned, Queue
  <1>13. ASSUME Manned PROVE TurnIsInvited'
    <2> SUFFICES ASSUME NEW t \in Signer, signer'[t] = "pending", intent'[t] # "none",
                        ~Blocked(t, signed)
                 PROVE  FALSE
      BY <1>4 DEF TurnIsInvited, Blocked
    <2> DEFINE free == {u \in Signer : signer[u] = "pending" /\ ~Blocked(u, signed)}
    <2>1. t \in free /\ t \notin next
      BY <1>8
    <2>2. PICK u \in free : ~(Order[t] <= Order[u])
      BY <2>1 DEF NextGroup
    <2>3. PICK r \in Required : Order[r] = Order[u]
      BY <1>13 DEF Manned
    <2>4. r \in signed
      BY <2>2, <2>3, OrderAssumption, SignersAssumption DEF Blocked
    <2>5. signer[r] # "pending"
      BY <1>2, <2>4 DEF SignedSigners
    <2> QED
      BY <2>2, <2>3, <2>5, SignersAssumption DEF TurnInv, Groups
  <1> QED
    BY <1>5, <1>9, <1>10, <1>11, <1>12, <1>13 DEF TurnInv

LEMMA TurnAdmission ==
  ASSUME ConsentInv, TurnInv, NEW own \in admitting, Admitting(own)
  PROVE  TurnInv'
  <1> USE DEF participants, consent, jobs, signatures
  <1>0. TypeOK /\ Turn /\ own.signer \in Signer /\ own.document \in Document
    BY DEF ConsentInv, TurnInv, TypeOK
  <1>1. admitting' = {}
    BY DEF ConsentInv, OneAdmission, Admitting, SignatureAdmitted, SignatureRejected, SignerSigned
  <1>2. CASE SignatureAdmitted(own)
    <2>1. \A t \in Signer : ValidatedBy(t) \subseteq ValidatedBy(t)'
      BY <1>0, <1>2 DEF SignatureAdmitted, TypeOK, ValidatedBy
    <2>2. Quiet
      BY <1>0, <1>1, <1>2, <2>1 DEF SignatureAdmitted, Quiet, Turn, SignedSigners
    <2> QED
      BY <1>0, <2>2, QuietKeeps
  <1>3. CASE SignatureRejected(own)
    <2>1. \A t \in Signer : ValidatedBy(t) \subseteq ValidatedBy(t)'
      BY <1>0, <1>3 DEF SignatureRejected, TypeOK, ValidatedBy
    <2>2. /\ SignedSigners' = SignedSigners
          /\ \A t \in Signer : signer'[t] = "pending" <=> signer[t] = "pending"
      BY <1>0, <1>3 DEF SignatureRejected, TypeOK, SignedSigners
    <2>3. Quiet
      BY <1>0, <1>1, <1>3, <2>1, <2>2 DEF SignatureRejected, Quiet, Turn
    <2> QED
      BY <1>0, <2>3, QuietKeeps
  <1> QED
    BY <1>2, <1>3, TurnFinish DEF Admitting

LEMMA TurnStep == ConsentInv /\ TurnInv /\ [Next]_vars => TurnInv'
  <1> SUFFICES ASSUME ConsentInv, TurnInv, [Next]_vars PROVE TurnInv'
    OBVIOUS
  <1>1. CASE UNCHANGED vars
    BY <1>1, QuietFrame, QuietKeeps DEF vars, SignedSigners, ConsentInv, TurnInv
  <1> QED
    BY <1>1, TurnSend, TurnCase, TurnSigner, TurnEvidence, TurnCreation, TurnAdmission DEF Next

LEMMA TurnInvariance == Spec => []TurnInv
  <1>1. ConsentInv /\ TurnInv /\ [Next]_vars => (ConsentInv /\ TurnInv)'
    BY ConsentStep, TurnStep
  <1> QED
    BY <1>1, ConsentInit, TurnInit, PTL DEF Spec

(* Nobody is done before all their documents are, for any number of documents. *)
THEOREM EvidenceFirst == Spec => []SignedHasEvidence
  <1>1. TurnInv => SignedHasEvidence
    BY DEF TurnInv
  <1> QED
    BY <1>1, TurnInvariance, PTL

(* Nobody starts while a required signer of an earlier group is missing. *)
THEOREM TurnSafety == Spec => []TurnRespected
  <1>1. TurnInv => TurnRespected
    BY DEF TurnInv, Turn, TurnRespected
  <1> QED
    BY <1>1, TurnInvariance, PTL

(* The last of the required signers always finds out. *)
THEOREM LastSignerKnows == Spec => []LastSignerPackagesCase
  <1>1. TurnInv => LastSignerPackagesCase
    BY DEF TurnInv
  <1> QED
    BY <1>1, TurnInvariance, PTL

(* Where every group has a required signer, whoever's turn has come is invited. *)
THEOREM NextGroupInvited ==
  ASSUME \A s \in Signer : \E t \in Required : Order[t] = Order[s]
  PROVE  Spec => []TurnIsInvited
  <1>1. Manned
    BY DEF Manned
  <1>2. TurnInv => TurnIsInvited
    BY <1>1 DEF TurnInv
  <1> QED
    BY <1>2, TurnInvariance, PTL

-----------------------------------------------------------------------------
(* The signing implements what the parties are promised: every step is one of
   the promise's, or is nothing to them.                                      *)
PartiesView == <<Outcome, Present, Agreed, attempt, SignedSigners>>

LEMMA PromiseStarts == Init => Promise!PromiseInit
  BY DEF Init, Promise!PromiseInit, Outcome, Present, Agreed, SignedSigners

LEMMA Unnoticed == UNCHANGED PartiesView => UNCHANGED Promise!promiseVars
  BY DEF PartiesView, Promise!promiseVars

(* What is only about jobs, invitations and sessions is not noticed. *)
LEMMA Behind == UNCHANGED <<case, signer, intent, identity, attempt>> => UNCHANGED PartiesView
  BY DEF PartiesView, Outcome, Present, Agreed, SignedSigners

LEMMA PromiseCase ==
  ASSUME ConsentInv, TurnInv, Send \/ Cancel \/ Remind \/ Packaging
  PROVE  [Promise!PromiseNext]_Promise!promiseVars
  <1> USE DEF participants, consent, jobs, signatures
  <1>1. CASE Send
    <2>1. Outcome' = Outcome
      BY <1>1 DEF Send, CaseMoves, Outcome, OpenCase
    <2>2. \A s \in Signer : intent[s] = "none"
      BY <1>1 DEF Send, CaseMoves, ConsentInv, Chain
    <2>3. Agreed = {} /\ Agreed' = {}
      BY <1>1, <2>2 DEF Send, Agreed
    <2>4. SignedSigners = {} /\ SignedSigners' = {}
      <3>1. SignedSigners = {}
        BY <2>2 DEF SignedSigners, TurnInv, SignedHasEvidence, ConsentInv, Chain
      <3> QED
        BY <1>1, <3>1 DEF Send, SignedSigners
    <2>5. UNCHANGED <<Present, attempt>>
      BY <1>1 DEF Send, Present
    <2> QED
      BY <2>1, <2>3, <2>4, <2>5, Unnoticed DEF PartiesView
  <1>2. CASE Cancel
    <2>1. Outcome = "open" /\ Outcome' = "cancelled"
      BY <1>2 DEF Cancel, CaseMoves, Outcome, OpenCase
    <2>2. UNCHANGED <<Present, Agreed, attempt, SignedSigners>>
      BY <1>2 DEF Cancel, Present, Agreed, SignedSigners
    <2> QED
      BY <2>1, <2>2 DEF Promise!PromiseNext, Promise!Conclude
  <1>3. CASE Remind
    BY <1>3, Behind, Unnoticed DEF Remind
  <1>4. CASE CasePackaged
    <2>1. UNCHANGED <<Present, Agreed, attempt, SignedSigners>>
      BY <1>4 DEF CasePackaged, Present, Agreed, SignedSigners
    <2>2. CASE case \in OpenCase
      <3>1. Outcome = "open" /\ Outcome' = "completed" /\ Required \subseteq SignedSigners
        BY <1>4, <2>2 DEF CasePackaged, CanComplete, Outcome, OpenCase
      <3> QED
        BY <2>1, <3>1 DEF Promise!PromiseNext, Promise!Conclude
    <2>3. CASE case \notin OpenCase
      BY <1>4, <2>1, <2>3, Unnoticed DEF CasePackaged, PartiesView, Outcome
    <2> QED
      BY <2>2, <2>3
  <1>5. CASE CasePackageRejected
    BY <1>5, Behind, Unnoticed DEF CasePackageRejected
  <1> QED
    BY <1>1, <1>2, <1>3, <1>4, <1>5 DEF Packaging

LEMMA PromiseSigner ==
  ASSUME ConsentInv, TurnInv, NEW s \in Signer,
         \/ Lapse(s) \/ MarkOpened(s)
         \/ StartBankId(s) \/ BankIdStarted(s) \/ BankIdNotStarted(s)
         \/ SessionCompletes(s) \/ SessionEnds(s) \/ SessionReported(s) \/ EndReported(s)
         \/ CancelBankId(s) \/ Decline(s)
  PROVE  [Promise!PromiseNext]_Promise!promiseVars
  <1> USE DEF participants, consent, jobs, signatures
  <1>0. TypeOK
    BY DEF ConsentInv
  <1>1. CASE \/ Lapse(s) \/ StartBankId(s) \/ BankIdNotStarted(s)
             \/ SessionCompletes(s) \/ SessionEnds(s) \/ SessionReported(s)
    BY <1>1, Behind, Unnoticed
    DEF Lapse, StartBankId, BankIdNotStarted, SessionCompletes, SessionEnds, SessionReported
  <1>2. CASE MarkOpened(s)
    <2>1. SignedSigners' = SignedSigners
      BY <1>0, <1>2 DEF MarkOpened, TypeOK, SignedSigners
    <2> QED
      BY <1>2, <2>1, Unnoticed DEF MarkOpened, PartiesView, Outcome, Present, Agreed
  <1>3. CASE BankIdStarted(s)
    <2>1. identity[s] = "none" /\ ~Blocked(s, SignedSigners)
      BY <1>3, <1>0 DEF BankIdStarted, ConsentInv, IntentMatchesIdentity, TurnInv, Turn, TypeOK
    <2>2. Present' = Present \cup {s} /\ s \notin Present
      BY <1>0, <1>3, <2>1 DEF BankIdStarted, Present, TypeOK
    <2>3. UNCHANGED <<Agreed, SignedSigners>>
      BY <1>0, <1>3 DEF BankIdStarted, Agreed, SignedSigners, TypeOK
    <2>4. UNCHANGED <<Outcome, attempt>>
      BY <1>3 DEF BankIdStarted, Outcome
    <2>5. Promise!Arrive(s)
      BY <2>1, <2>2, <2>3, <2>4 DEF Promise!Arrive, Blocked
    <2> QED
      BY <2>5 DEF Promise!PromiseNext
  <1>4. CASE EndReported(s) \/ CancelBankId(s)
    <2>1. Present' = Present /\ Agreed' = Agreed
      BY <1>0, <1>4 DEF EndReported, CancelBankId, Present, Agreed, TypeOK
    <2> QED
      BY <1>4, <2>1, Unnoticed DEF EndReported, CancelBankId, PartiesView, Outcome, SignedSigners
  <1>5. CASE Decline(s)
    <2>1. UNCHANGED <<Present, Agreed, attempt, SignedSigners>>
      BY <1>0, <1>5 DEF Decline, Present, Agreed, SignedSigners, TypeOK
    <2>2. CASE case' = case
      BY <2>1, <2>2, Unnoticed DEF PartiesView, Outcome
    <2>3. CASE case \in OpenCase /\ case' = "declined"
      <3>1. Outcome = "open" /\ Outcome' = "declined"
        BY <2>3 DEF Outcome, OpenCase
      <3> QED
        BY <2>1, <3>1 DEF Promise!PromiseNext, Promise!Conclude
    <2> QED
      BY <1>5, <2>2, <2>3 DEF Decline
  <1> QED
    BY <1>1, <1>2, <1>3, <1>4, <1>5

LEMMA PromiseEvidence ==
  ASSUME ConsentInv, NEW s \in Signer, Collecting(s) \/ Verifying(s)
  PROVE  [Promise!PromiseNext]_Promise!promiseVars
  <1> USE DEF participants, consent, jobs, signatures
  <1>0. TypeOK
    BY DEF ConsentInv
  <1>1. CASE CollectReads(s) \/ VerifyReads(s) \/ IdentityReported(s) \/ IdentityReportRefused(s)
    BY <1>1, Behind, Unnoticed DEF CollectReads, VerifyReads, IdentityReported, IdentityReportRefused
  <1>2. CASE Collected(s)
    <2>1. Present' = Present /\ Agreed' = Agreed
      BY <1>0, <1>2 DEF Collected, Present, Agreed, TypeOK
    <2> QED
      BY <1>2, <2>1, Unnoticed DEF Collected, PartiesView, Outcome, SignedSigners
  <1>3. CASE EvidenceUnreadable(s)
    <2>1. Present' = Present /\ Agreed' = Agreed /\ SignedSigners' = SignedSigners
      BY <1>0, <1>3 DEF EvidenceUnreadable, Fail, Present, Agreed, SignedSigners, TypeOK
    <2> QED
      BY <1>3, <2>1, Unnoticed DEF EvidenceUnreadable, PartiesView, Outcome
  <1>4. CASE IdentityVerified(s)
    <2>1. Present' = Present /\ SignedSigners' = SignedSigners
      BY <1>0, <1>4 DEF IdentityVerified, Present, SignedSigners, TypeOK
    <2>2. UNCHANGED <<Outcome, attempt>>
      BY <1>4 DEF IdentityVerified, Outcome
    <2>3. CASE intent[s] = "evidence_collected"
      <3>1. s \in Present \ Agreed
        BY <2>3 DEF ConsentInv, IntentMatchesIdentity, Present, Agreed
      <3>2. Agreed' = Agreed \cup {s}
        BY <1>0, <1>4, <2>3 DEF IdentityVerified, Agreed, TypeOK
      <3> QED
        BY <2>1, <2>2, <3>1, <3>2 DEF Promise!PromiseNext, Promise!Agree
    <2>4. CASE intent[s] # "evidence_collected"
      <3>1. Agreed' = Agreed
        BY <1>0, <1>4, <2>4 DEF IdentityVerified, Agreed, TypeOK
      <3> QED
        BY <2>1, <2>2, <3>1, Unnoticed DEF PartiesView
    <2> QED
      BY <2>3, <2>4
  <1>5. CASE IdentityRefused(s)
    <2>1. Present' = Present /\ Agreed' = Agreed /\ SignedSigners' = SignedSigners
      BY <1>0, <1>5 DEF IdentityRefused, Fail, Present, Agreed, SignedSigners, TypeOK
    <2> QED
      BY <1>5, <2>1, Unnoticed DEF IdentityRefused, PartiesView, Outcome
  <1> QED
    BY <1>1, <1>2, <1>3, <1>4, <1>5 DEF Collecting, Verifying

LEMMA PromiseCreation ==
  ASSUME ConsentInv, NEW s \in Signer,
         \/ Creating(s) \/ SignerPackaged(s) \/ WorkerLost(s)
         \/ \E d \in Document : Validating(s, d) \/ Admission(s, d)
  PROVE  [Promise!PromiseNext]_Promise!promiseVars
  <1> USE DEF participants, consent, jobs, signatures
  <1>0. TypeOK
    BY DEF ConsentInv
  <1>1. CASE CreateReads(s)
    <2>1. SignedSigners' = SignedSigners
      BY <1>0, <1>1 DEF CreateReads, TypeOK, SignedSigners
    <2> QED
      BY <1>1, <2>1, Unnoticed DEF CreateReads, PartiesView, Outcome, Present, Agreed
  <1>2. ASSUME NEW d \in Document, DocumentSigned(s, d)
        PROVE  Promise!PromiseNext
    <2>1. UNCHANGED <<Outcome, Present, Agreed, SignedSigners>>
      BY <1>2 DEF DocumentSigned, Outcome, Present, Agreed, SignedSigners
    <2>2. s \in Agreed
      BY <1>2 DEF DocumentSigned, ConsentInv, Chain, Agreed
    <2> QED
      BY <1>2, <2>1, <2>2 DEF DocumentSigned, Promise!PromiseNext, Promise!SignPaper
  <1>3. CASE AllDocumentsSigned(s) \/ WorkerLost(s)
    BY <1>3, Behind, Unnoticed DEF AllDocumentsSigned, WorkerLost
  <1>4. CASE SignerPackaged(s)
    <2>1. Agreed' = Agreed
      BY <1>0, <1>4 DEF SignerPackaged, Agreed, TypeOK
    <2> QED
      BY <1>4, <2>1, Unnoticed DEF SignerPackaged, PartiesView, Outcome, Present, SignedSigners
  <1>5. ASSUME NEW d \in Document, Validating(s, d) \/ Admission(s, d)
        PROVE  UNCHANGED Promise!promiseVars
    BY <1>5, Behind, Unnoticed
    DEF Validating, ValidateReads, SignatureReported, SignatureReportRefused, Admission
  <1> QED
    BY <1>1, <1>2, <1>3, <1>4, <1>5 DEF Creating

(* The admission of a signature, with which a person may be done. *)
LEMMA PromiseAdmission ==
  ASSUME ConsentInv, TurnInv, NEW own \in admitting, Admitting(own)
  PROVE  [Promise!PromiseNext]_Promise!promiseVars
  <1> USE DEF participants, consent, jobs, signatures
  <1> DEFINE s == own.signer
             d == own.document
  <1>0. TypeOK /\ s \in Signer /\ d \in Document
    BY DEF ConsentInv, TypeOK
  <1>1. attempt[s][d] \in {"signed", "validated"}
    BY DEF ConsentInv, OneAdmission
  <1>2. CASE SignatureAdmitted(own)
    <2>1. attempt' = [attempt EXCEPT ![s][d] = "validated"]
      BY <1>2 DEF SignatureAdmitted
    <2>2. UNCHANGED <<Outcome, Present, Agreed, SignedSigners>>
      BY <1>2 DEF SignatureAdmitted, Outcome, Present, Agreed, SignedSigners
    <2> QED
      BY <1>0, <1>1, <2>1, <2>2 DEF Promise!PromiseNext, Promise!AdmitSignature
  <1>3. CASE SignerSigned(own)
    <2>1. /\ EveryDocument(own.validated \cup {d})
          /\ attempt' = [attempt EXCEPT ![s][d] = "validated"]
          /\ signer' = [t \in Signer |->
                IF t = s /\ signer[s] = "signing" THEN "signed"
                ELSE IF t \in NextGroup(own.signed \cup (IF signer[s] = "signing" THEN {s} ELSE {}))
                     THEN "invited" ELSE signer[t]]
          /\ intent' = [intent EXCEPT ![s] = IF @ = "verified" THEN "packaged" ELSE @]
          /\ UNCHANGED <<case, identity>>
      BY <1>3 DEF SignerSigned
    <2>2. UNCHANGED <<Outcome, Present>>
      BY <2>1 DEF Outcome, Present
    <2>3. Agreed' = Agreed
      BY <1>0, <2>1 DEF Agreed, TypeOK
    <2>4. \A e \in Document : attempt'[s][e] = "validated"
      BY <1>0, <2>1 DEF TurnInv, Snapshots, EveryDocument, ValidatedBy, TypeOK
    <2>5. SignedSigners' = SignedSigners \/ SignedSigners' = SignedSigners \cup {s}
      BY <1>0, <2>1 DEF SignedSigners, NextGroup
    <2> QED
      BY <1>0, <1>1, <2>1, <2>2, <2>3, <2>4, <2>5 DEF Promise!PromiseNext, Promise!AdmitSignature
  <1>4. CASE SignatureRejected(own)
    <2>1. attempt[s][d] = "signed" /\ attempt' = [attempt EXCEPT ![s][d] = "failed"]
      BY <1>4 DEF SignatureRejected
    <2>2. SignedSigners' = SignedSigners
      BY <1>0, <1>4 DEF SignatureRejected, SignedSigners, TypeOK
    <2>3. UNCHANGED <<Outcome, Present, Agreed>>
      BY <1>4 DEF SignatureRejected, Outcome, Present, Agreed
    <2> QED
      BY <1>0, <2>1, <2>2, <2>3 DEF Promise!PromiseNext, Promise!RefuseSignature
  <1> QED
    BY <1>2, <1>3, <1>4 DEF Admitting

LEMMA PromiseStep == ConsentInv /\ TurnInv /\ [Next]_vars => [Promise!PromiseNext]_Promise!promiseVars
  <1> SUFFICES ASSUME ConsentInv, TurnInv, [Next]_vars
               PROVE  [Promise!PromiseNext]_Promise!promiseVars
    OBVIOUS
  <1>1. CASE UNCHANGED vars
    BY <1>1, Behind, Unnoticed DEF vars
  <1> QED
    BY <1>1, PromiseCase, PromiseSigner, PromiseEvidence, PromiseCreation, PromiseAdmission DEF Next

(* Whatever is repeated, late, cancelled or lost, the signing of a case does what
   SigningPromise says: nobody agrees unheard, nothing is signed for them before
   or a second time, and what is settled stays.                               *)
THEOREM SigningKeepsPromise == Spec => SigningPromised
  <1>1. ConsentInv /\ TurnInv /\ [Next]_vars => (ConsentInv /\ TurnInv)'
    BY ConsentStep, TurnStep
  <1> QED
    BY <1>1, ConsentInit, TurnInit, PromiseStarts, PromiseStep, PTL
    DEF Spec, SigningPromised, Promise!SigningPromiseSpec

=============================================================================
