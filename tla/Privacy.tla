--------------------------------- MODULE Privacy ---------------------------------
(***************************************************************************)
(* Requests of data subjects: recorded with the identity already verified, *)
(* executed by a worker that searches every store, acts on what it finds,  *)
(* and delivers a response or refuses with a ground.                       *)
(***************************************************************************)
EXTENDS Naturals, Sequences

CONSTANTS
    Dsr,            \* the rows of privacy_requests
    Subject,        \* the people who ask
    DsrNone,        \* nobody, nothing
    MaxDsrLosses    \* bound: how often a worker is lost

VARIABLES
    dsr,            \* request -> its row
    dsrJob,         \* request -> its durable job
    dsrWork,        \* request -> how far the handler that runs it has come
    covered,        \* request -> the stores that this execution has accounted for
    legalHold,      \* subjects of a case under legal hold
    dsrLosses       \* how many workers were lost

privacyVars == <<dsr, dsrJob, dsrWork, covered, legalHold, dsrLosses>>

Right == {"ACCESS", "RECTIFICATION", "RESTRICTION", "ERASURE", "PORTABILITY"}
HighAssuranceRights == {"ACCESS", "ERASURE", "PORTABILITY", "RECTIFICATION"}
PersonalDataStores == <<"CONTROL", "DATA", "OBJECT_STORAGE", "AUDIT_LOG", "BACKUP">>
DsrState == {"RECEIVED", "IDENTITY_VERIFIED", "IN_PROGRESS", "FULFILLED", "DELIVERED", "REFUSED"}
Over == {"DELIVERED", "REFUSED"}
PrivacyMaxAttempts == 3

NoDsr == [state |-> "none", right |-> "ACCESS", subject |-> DsrNone, assurance |-> "HIGH",
          responded |-> FALSE]

PrivacyInit ==
    /\ dsr = [r \in Dsr |-> NoDsr]
    /\ dsrJob = [r \in Dsr |-> [status |-> "none", attempts |-> 0]]
    /\ dsrWork = [r \in Dsr |-> "idle"]
    /\ covered = [r \in Dsr |-> <<>>]
    /\ legalHold \in SUBSET Subject
    /\ dsrLosses = 0

--------------------------------------------------------------------------------
(* The index under which a person is found depends on what it was made for. *)
BlindIndex(purpose, subject) == <<purpose, subject>>

SignerPurposes == {"signer.email", "signer.expected_personal_number",
                   "signer.verified_personal_number"}

FindsSigner(subject) ==
    \E purpose \in SignerPurposes :
        BlindIndex(purpose, subject) = BlindIndex("privacy.subject_identifier", subject)

LegalHoldActive(subject) == subject \in legalHold /\ FindsSigner(subject)

RestrictionActive(r) ==
    \E q \in Dsr \ {r} : /\ dsr[q].state = "DELIVERED" /\ dsr[q].right = "RESTRICTION"
                         /\ dsr[q].subject = dsr[r].subject

--------------------------------------------------------------------------------
(* The officials. *)

RecordRequest(r, subject, right, assurance) ==
    /\ dsr[r].state = "none"
    /\ \A q \in Dsr : dsr[q].subject = subject /\ dsr[q].right = right => dsr[q].state \in Over
    /\ dsr' = [dsr EXCEPT ![r] = [NoDsr EXCEPT !.state = "RECEIVED", !.right = right,
                                    !.subject = subject, !.assurance = assurance]]
    /\ UNCHANGED <<dsrJob, dsrWork, covered, legalHold, dsrLosses>>

(* Names the handler of record and enqueues the job, once. *)
ExecuteRequest(r) ==
    /\ dsr[r].state \in DsrState \ Over
    /\ dsrJob[r].status = "none"
    /\ dsrJob' = [dsrJob EXCEPT ![r].status = "pending"]
    /\ UNCHANGED <<dsr, dsrWork, covered, legalHold, dsrLosses>>

--------------------------------------------------------------------------------
(* The worker. *)

DsrEnd(r, ending) ==
    /\ dsrWork' = [dsrWork EXCEPT ![r] = "idle"]
    /\ dsrJob' = [dsrJob EXCEPT ![r].status =
                    CASE ending = "completed" -> "completed"
                      [] ending = "failed" /\ dsrJob[r].attempts < PrivacyMaxAttempts -> "pending"
                      [] OTHER -> "dead"]

ClaimRequest(r) ==
    /\ dsrJob[r].status = "pending"
    /\ dsrJob' = [dsrJob EXCEPT ![r] = [status |-> "running", attempts |-> @.attempts + 1]]
    /\ dsrWork' = [dsrWork EXCEPT ![r] = "load"]
    /\ covered' = [covered EXCEPT ![r] = <<>>]
    /\ UNCHANGED <<dsr, legalHold, dsrLosses>>

RecordRefusal(r) ==
    /\ dsr' = [dsr EXCEPT ![r].state = IF @ \in Over THEN @ ELSE "REFUSED"]
    /\ DsrEnd(r, "completed")

Advance(r, to) == dsrWork' = [dsrWork EXCEPT ![r] = to] /\ UNCHANGED <<dsr, dsrJob>>

(* Rights that disclose or change data need a strong identity. *)
VerifySubjectIdentity(r) == dsr[r].right \in HighAssuranceRights => dsr[r].assurance = "HIGH"

(* In memory only: the row stays in RECEIVED. *)
AdvanceToInProgress(r) == dsr[r].state = "RECEIVED" => VerifySubjectIdentity(r)

LoadRequest(r) ==
    /\ dsrWork[r] = "load"
    /\ IF dsr[r].state \in Over THEN DsrEnd(r, "completed") /\ UNCHANGED dsr
       ELSE IF AdvanceToInProgress(r) THEN Advance(r, "holds") ELSE RecordRefusal(r)
    /\ UNCHANGED <<covered, legalHold, dsrLosses>>

(* An erasure gives way to a hold and to a restriction of the processing. *)
FulfilRequest(r) ==
    dsr[r].right = "ERASURE" => ~LegalHoldActive(dsr[r].subject) /\ ~RestrictionActive(r)

(* Read before any store is searched. *)
ReadHolds(r) ==
    /\ dsrWork[r] = "holds"
    /\ IF FulfilRequest(r) THEN Advance(r, "coverage") ELSE RecordRefusal(r)
    /\ UNCHANGED <<covered, legalHold, dsrLosses>>

(* One store after another, each in a transaction of its own or by calls to *)
(* object storage; the last is exempted without a search.                   *)
GatherCoverage(r) ==
    /\ dsrWork[r] = "coverage"
    /\ covered' = [covered EXCEPT ![r] = Append(@, PersonalDataStores[Len(@) + 1])]
    /\ Advance(r, IF Len(covered[r]) + 1 = Len(PersonalDataStores) THEN "deliver" ELSE "coverage")
    /\ UNCHANGED <<legalHold, dsrLosses>>

(* No response is built that leaves a store out. *)
BuildDataSubjectResponse(r) == covered[r] = PersonalDataStores

(* One transaction; each update names the state it expects, and the response *)
(* may only be inserted for a request that is fulfilled.                     *)
DeliverResponse(r) ==
    LET fulfilled == IF dsr[r].state = "IN_PROGRESS" THEN "FULFILLED" ELSE dsr[r].state IN
    /\ dsrWork[r] = "deliver"
    /\ IF ~BuildDataSubjectResponse(r) THEN RecordRefusal(r)
       ELSE IF fulfilled = "FULFILLED"
       THEN /\ dsr' = [dsr EXCEPT ![r].state = "DELIVERED", ![r].responded = TRUE]
            /\ DsrEnd(r, "completed")
       ELSE DsrEnd(r, "failed") /\ UNCHANGED dsr
    /\ UNCHANGED <<covered, legalHold, dsrLosses>>

DsrWorkerLost(r) ==
    /\ dsrJob[r].status = "running" /\ dsrLosses < MaxDsrLosses
    /\ dsrLosses' = dsrLosses + 1
    /\ DsrEnd(r, "failed")
    /\ UNCHANGED <<dsr, covered, legalHold>>

DsrWorkerStep(r) ==
    ClaimRequest(r) \/ LoadRequest(r) \/ ReadHolds(r) \/ GatherCoverage(r) \/ DeliverResponse(r)

PrivacyNext ==
    \E r \in Dsr :
        \/ \E subject \in Subject, right \in Right, assurance \in {"LOW", "HIGH"} :
              RecordRequest(r, subject, right, assurance)
        \/ ExecuteRequest(r) \/ DsrWorkerStep(r) \/ DsrWorkerLost(r)

PrivacySpec ==
    /\ PrivacyInit /\ [][PrivacyNext]_privacyVars
    /\ \A r \in Dsr : WF_privacyVars(DsrWorkerStep(r))

--------------------------------------------------------------------------------
(* A person who asked gets an answer: a request that is executed ends       *)
(* delivered or refused with its ground.                                    *)
ExecutedIsAnswered ==
    \A r \in Dsr : dsrJob[r].status = "pending" ~> dsr[r].state \in Over
==================================================================================
