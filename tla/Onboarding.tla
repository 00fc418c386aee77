------------------------------ MODULE Onboarding ------------------------------
(* The application of an organisation, from the first form to an active tenant:
   verification of the e-mail, reviews, questions, the decision, provisioning,
   readiness and activation.  Every operation holds the application row; the
   status moves along onboarding_transition_allowed of control migration 0018. *)
EXTENDS Provisioning

CONSTANTS
    Official,       \* administrators of the platform
    ReviewType,     \* of "commercial", "legal", "security", "technical"
    MaxQuestions    \* information requests open at once

ASSUME OnboardingAssumption ==
    /\ ReviewType \subseteq {"commercial", "legal", "security", "technical"}
    /\ MaxQuestions \in Nat

VARIABLES
    dedicated,     \* the deployment that the profile asks for
    mailToken,     \* the live e-mail verification, if any
    question,      \* information requests that are open
    review,        \* the latest review of each type, by created_at
    decision,      \* the approval that was recorded
    readiness,     \* the latest tenant_readiness_results row
    pending        \* who asked for the activations that are pending

reviewVars == <<dedicated, mailToken, question, review, decision>>
activationVars == <<readiness, pending>>
onboardingVars == <<provisioningVars, reviewVars, activationVars>>

Unprovisioned == <<rowVars, worldVars, runner>>
ReviewOf == [commercial |-> "commercial_review", legal |-> "legal_review", security |-> "security_review",
             technical |-> "technical_review"]
ReviewStatus == {ReviewOf[t] : t \in ReviewType}
Reviewing == {"under_initial_review", "resubmitted", "additional_information_requested"} \cup ReviewStatus
DecisionPending == {"submitted"} \cup Reviewing
ApprovedOrLater == {"approved", "provisioning", "provisioning_failed", "onboarding"}
Closed == {"rejected", "withdrawn", "expired"}

(* onboarding_transition_allowed, on the states the program ever enters. *)
Allowed == [s \in {"none", "email_verification_pending", "email_verified"} \cup DecisionPending \cup ApprovedOrLater \cup Closed |->
    CASE s = "email_verification_pending" -> {"email_verified", "withdrawn", "expired"}
      [] s = "email_verified" -> {"submitted", "withdrawn"}
      [] s = "submitted" -> {"under_initial_review", "approved", "rejected", "withdrawn"}
      [] s = "under_initial_review" -> {"additional_information_requested", "approved", "rejected", "withdrawn"} \cup ReviewStatus
      [] s = "additional_information_requested" -> {"resubmitted", "approved", "rejected", "withdrawn"}
      [] s = "resubmitted" -> {"under_initial_review", "approved", "rejected", "withdrawn"} \cup ReviewStatus
      [] s \in ReviewStatus -> {"additional_information_requested", "approved", "rejected"} \cup (ReviewStatus \ {s})
      [] s = "approved" -> {"provisioning"}
      [] s = "provisioning" -> {"provisioning_failed", "onboarding"}
      [] s = "provisioning_failed" -> {"provisioning", "rejected"}
      [] OTHER -> {}]

Move(to) == to \in Allowed[application] /\ application' = to
NoDecision == [by |-> PNone, second |-> PNone]

OnboardingInit ==
    /\ ProvisioningInit
    /\ application = "none"
    /\ dedicated = FALSE /\ mailToken = FALSE /\ question = 0
    /\ review = [t \in ReviewType |-> "none"]
    /\ decision = NoDecision
    /\ readiness = "none"
    /\ pending = {}

CreateApplication ==
    /\ application = "none"
    /\ application' = "email_verification_pending" /\ mailToken' = TRUE
    /\ UNCHANGED <<Unprovisioned, dedicated, question, review, decision, activationVars>>

(* An administrator creates the organisation: there is nothing to review. *)
CreateOrganization(mode) ==
    /\ application = "none"
    /\ application' = "provisioning" /\ NewRequest(mode) /\ dedicated' = mode
    /\ UNCHANGED <<mailToken, question, review, decision, activationVars>>

(* The applicant changes the profile; when asked for information also after
   reviews were passed.                                                      *)
UpdateApplication ==
    /\ application \in {"email_verification_pending", "email_verified", "additional_information_requested", "resubmitted"}
    /\ dedicated' = ~dedicated
    /\ UNCHANGED <<application, Unprovisioned, mailToken, question, review, decision, activationVars>>

VerifyEmail ==
    /\ mailToken /\ Move("email_verified")
    /\ mailToken' = FALSE
    /\ UNCHANGED <<Unprovisioned, dedicated, question, review, decision, activationVars>>

TokenExpires ==
    /\ mailToken /\ mailToken' = FALSE
    /\ UNCHANGED <<application, Unprovisioned, dedicated, question, review, decision, activationVars>>

ResendVerification ==
    /\ application = "email_verification_pending" /\ mailToken' = TRUE
    /\ UNCHANGED <<application, Unprovisioned, dedicated, question, review, decision, activationVars>>

ApplicantMoves ==
    /\ \/ Move("submitted") \/ Move("withdrawn")
    /\ UNCHANGED <<Unprovisioned, reviewVars, activationVars>>

(* handleApplicationDeadline: only what was never verified. *)
DeadlinePasses ==
    /\ Move("expired")
    /\ UNCHANGED <<Unprovisioned, reviewVars, activationVars>>

(* The latest review of a type is the one whose transaction began last: one
   that waited for the row does not count over one that came in between.     *)
RecordReview(t, risk, waited) ==
    /\ waited => review[t] # "none"
    /\ review' = IF waited THEN review ELSE [review EXCEPT ![t] = risk]
    /\ UNCHANGED <<Unprovisioned, dedicated, mailToken, question, decision, activationVars>>

AfterReview(from, t, result) ==
    LET to == CASE result = "requires_information" -> "additional_information_requested"
                [] result = "passed" /\ from # "additional_information_requested" -> ReviewOf[t]
                [] OTHER -> from
    IN to \in Allowed[from] \cup {from} /\ application' = to

AddReviewWhenever(t, risk, result, waited) ==
    /\ RecordReview(t, risk, waited)
    /\ IF application \in DecisionPending
       THEN AfterReview(IF application = "submitted" THEN "under_initial_review" ELSE application, t, result)
       ELSE application # "none" /\ UNCHANGED application

AddReview(t, risk, result, waited) ==
    /\ application \in DecisionPending
    /\ RecordReview(t, risk, waited)
    /\ AfterReview(IF application = "submitted" THEN "under_initial_review" ELSE application, t, result)

RequestInformation ==
    /\ question < MaxQuestions
    /\ \/ application = "additional_information_requested" /\ UNCHANGED application
       \/ Move("additional_information_requested")
    /\ question' = question + 1
    /\ UNCHANGED <<Unprovisioned, dedicated, mailToken, review, decision, activationVars>>

RespondToAnswered ==
    /\ question' = question - 1
    /\ application' = IF application = "additional_information_requested" THEN "resubmitted" ELSE application
    /\ UNCHANGED <<Unprovisioned, dedicated, mailToken, review, decision, activationVars>>

(* One answer sends the application back, also while other questions are open. *)
RespondToInformation ==
    /\ question > 0 /\ question' = question - 1
    /\ application' = IF application = "additional_information_requested" THEN "resubmitted" ELSE application
    /\ UNCHANGED <<Unprovisioned, dedicated, mailToken, review, decision, activationVars>>

HighRisk == \E t \in ReviewType : review[t] = "high"

(* The second approver is a name the first one gives.  An application that is
   approved already is answered as it is.                                    *)
Approve(by, second) ==
    /\ application \in DecisionPending
    /\ HighRisk => second \notin {PNone, by}
    /\ Move("approved") /\ decision' = [by |-> by, second |-> second]
    /\ UNCHANGED <<Unprovisioned, dedicated, mailToken, question, review, activationVars>>

Reject ==
    /\ application \in DecisionPending \cup {"provisioning_failed"}
    /\ Move("rejected")
    /\ UNCHANGED <<Unprovisioned, reviewVars, activationVars>>

(* provision(): a new request, one that is done, or one to try again; one that
   is under way is answered as it is.                                         *)
Provision ==
    /\ request.status \in {"none", "completed"} \cup Halted
    /\ CASE request.status = "none" ->
              /\ application \in {"approved", "provisioning_failed"} /\ Move("provisioning") /\ NewRequest(dedicated)
         [] request.status = "completed" ->
              /\ application \in {"approved", "provisioning_failed", "provisioning"} /\ application' = "onboarding"
              /\ UNCHANGED Unprovisioned
         [] request.status \in Halted ->
              /\ application \in {"approved", "provisioning_failed", "provisioning"} /\ application' = "provisioning"
              /\ Requeue
    /\ UNCHANGED <<reviewVars, activationVars>>

RetryProvisioning ==
    /\ request.status \in Halted
    /\ application \in {"approved", "provisioning_failed", "provisioning"} /\ application' = "provisioning"
    /\ Requeue
    /\ UNCHANGED <<reviewVars, activationVars>>

(* The checks on the environment and the default domain read rows; the others
   are settings of the deployment and dates, and may be met or not.          *)
MayBeReady ==
    /\ "create_environment" \in made /\ dataPlane
    /\ request.dedicated => wildcard /\ "create_default_domain" \in made

RunReadiness(ready) ==
    /\ tenant # "none" /\ (ready => MayBeReady)
    /\ readiness' = IF ready THEN "ready" ELSE "blocked"
    /\ UNCHANGED <<application, Unprovisioned, reviewVars, pending>>

CreateActivationRequest(by) ==
    /\ readiness = "ready" /\ pending' = pending \cup {by}
    /\ UNCHANGED <<application, Unprovisioned, reviewVars, readiness>>

(* The readiness of the day is not read again, and no application is ever
   "ready_for_activation", so it stays where it is.                          *)
DecideActivation(by, asker, approve) ==
    /\ asker \in pending /\ by # asker
    /\ pending' = pending \ {asker}
    /\ tenant' = IF approve THEN "active" ELSE tenant
    /\ UNCHANGED <<application, request, stepStatus, made, tenants, worldVars, runner, reviewVars, readiness>>

Apply ==
    \/ CreateApplication \/ UpdateApplication \/ VerifyEmail \/ TokenExpires \/ ResendVerification \/ ApplicantMoves \/ DeadlinePasses
    \/ RespondToInformation

Administer ==
    \/ Provision \/ \E mode \in BOOLEAN : CreateOrganization(mode)
    \/ \E t \in ReviewType, risk \in {"low", "high"}, waited \in BOOLEAN,
          result \in {"passed", "failed", "requires_information"} : AddReview(t, risk, result, waited)
    \/ RequestInformation \/ Reject \/ RetryProvisioning
    \/ \E by \in Official : \/ \E second \in Official \cup {PNone} : Approve(by, second)
                            \/ CreateActivationRequest(by)
                            \/ \E asker \in Official, approve \in BOOLEAN : DecideActivation(by, asker, approve)
    \/ \E ready \in BOOLEAN : RunReadiness(ready)

OnboardingNext ==
    \/ Apply \/ Administer
    \/ ProvisioningNext /\ UNCHANGED <<reviewVars, activationVars>>

OnboardingSpec == OnboardingInit /\ [][OnboardingNext]_onboardingVars
-------------------------------------------------------------------------------
OnboardingTypeOK ==
    /\ ProvisioningTypeOK
    /\ application \in DOMAIN Allowed
    /\ dedicated \in BOOLEAN /\ mailToken \in BOOLEAN /\ question \in 0..MaxQuestions
    /\ review \in [ReviewType -> {"none", "low", "high"}]
    /\ decision \in [by : Official \cup {PNone}, second : Official \cup {PNone}]
    /\ readiness \in {"none", "ready", "blocked"}
    /\ pending \subseteq Official

(* An application some latest review of which calls the risk high, and which
   was approved or is on its way to a tenant, was approved in two different
   persons' names; and what is made is what the profile asks for, whenever it
   was changed (approve, provision, update).                                 *)
DecisionHonoured ==
    /\ application \in ApprovedOrLater /\ HighRisk => decision.second \notin {PNone, decision.by}
    /\ request.status # "none" => request.dedicated = dedicated
===============================================================================
